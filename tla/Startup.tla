------------------------------ MODULE Startup ------------------------------
(***************************************************************************)
(* The start of the API and of the worker, which both migrate the database *)
(* (database.py, alembic/): two processes that systemd starts together and *)
(* starts again when they fail, killed at any point, while the API that is *)
(* up already serves the requests of Members.                              *)
(*                                                                         *)
(* SQLite commits each CREATE or ALTER by itself until the first INSERT,   *)
(* UPDATE or DELETE of a revision begins a transaction, which ends with    *)
(* the write of alembic_version: the row read at the start is updated, and *)
(* Alembic rolls back if it is not there any more; if there was none, a    *)
(* row is inserted, and nobody looks at the others.  The revisions a       *)
(* process applies follow from that one read.                              *)
(***************************************************************************)
EXTENDS Members, Sequences

CONSTANTS
  Starters,    \* the processes
  Api,         \* the one that serves requests
  FirstAdmin,  \* settings.admin_username
  MaxKills     \* bound: kills

ASSUME StarterAssumption == Api \in Starters
ASSUME AdminAssumption   == FirstAdmin \in Users
ASSUME KillsAssumption   == MaxKills \in Nat

VARIABLES
  have,    \* what the database has: tables, a column, indexes
  version, \* the rows of alembic_version
  stage,   \* starter -> off, stamp, stamped, heads, between, revision, init, up
  known,   \* starter -> the revision it takes the database to be at
  todo,    \* starter -> what it creates next
  kills, torn, cut, setBack, served
           \* history: kills; one of them left a revision half done, or 0004
           \* without its indexes; a late stamp set the version back or put a
           \* row beside it; the processes that have been up

startVars == <<have, version, stage, known, todo, kills, torn, cut, setBack, served>>
vars      == <<memberVars, startVars>>

Last    == 5
Base    == {"users", "others"}
New     == {"users_new", "others_new"}
Indexes == {"ix_project_id", "ix_user_id"}

\* What the revisions create outside of their transactions.
InitialTables == <<"users", "others">>
NewTables     == <<"users_new", "others_new">>
VersionColumn == <<"state_version">>
MemberTable   == <<"project_members", "ix_project_id", "ix_user_id">>
Script        == <<InitialTables, NewTables, VersionColumn, MemberTable, <<>>>>

Whole == Base \cup {"alembic_version", "foreign keys", "state_version", "project_members",
                    "unique"}

\* What may be left to create of one of them.
Rest == {<<>>, InitialTables, <<"others">>, NewTables, <<"others_new">>, VersionColumn,
         MemberTable, <<"ix_project_id", "ix_user_id">>, <<"ix_user_id">>}

\* What the first h of them leave.
Since(h) == {"alembic_version"}
              \cup (IF h >= 1 THEN Base ELSE {})
              \cup (IF h >= 2 THEN {"foreign keys"} ELSE {})
              \cup (IF h >= 3 THEN {"state_version"} ELSE {})
              \cup (IF h >= 4 THEN {"project_members"} ELSE {})
              \cup (IF h >= 5 THEN {"unique"} ELSE {})

TypeOK ==
  /\ MembersTypeOK
  /\ have \subseteq Whole \cup Indexes \cup New
  /\ version \subseteq 1..Last
  /\ stage \in [Starters -> {"off", "stamp", "stamped", "heads", "between", "revision",
                             "init", "up"}]
  /\ known \in [Starters -> 0..Last]
  /\ todo \in [Starters -> Rest]
  /\ kills \in 0..MaxKills
  /\ {torn, cut, setBack} \subseteq BOOLEAN
  /\ served \subseteq Starters

\* An empty database; one that create_all() made, with or without memberships;
\* one of an earlier release, or of this one, which keeps members operators.
Init ==
  /\ \/ have = {} /\ version = {}
     \/ have \in {Base, Base \cup Indexes \cup {"state_version", "project_members"}}
        /\ version = {}
     \/ \E h \in 1..Last :
          /\ version = {h}
          /\ have = Since(h) \cup (IF h >= 4 THEN Indexes ELSE {})
  /\ role \in IF "users" \in have THEN {r \in [Users -> Roles] : r[FirstAdmin] = "admin"}
              ELSE {[u \in Users |-> "none"]}
  /\ projects = IF "others" \in have THEN Projects ELSE {}
  /\ members \in IF "unique" \in have THEN SUBSET {m \in Pairs : role[m[2]] = "operator"}
                 ELSE IF "project_members" \in have THEN SUBSET Pairs ELSE {{}}
  /\ req = [t \in Threads |-> Idle]
  /\ requests = 0 /\ overlap = FALSE /\ demoted = FALSE
  /\ stage = [s \in Starters |-> "off"]
  /\ known = [s \in Starters |-> 0] /\ todo = [s \in Starters |-> <<>>]
  /\ kills = 0 /\ torn = FALSE /\ cut = FALSE /\ setBack = FALSE /\ served = {}

-----------------------------------------------------------------------------
(* migrate_database and Alembic.                                             *)

Go(s, where) == stage' = [stage EXCEPT ![s] = where]
Fail(s)      == Go(s, "off") /\ UNCHANGED <<have, version, known, todo, role, members, setBack>>

\* _schema_matches_models: all the base tables and no other.
Adoptable == have \ Indexes \in {Base, Base \cup {"state_version"}, Base \cup {"project_members"},
                                 Base \cup {"state_version", "project_members"}}

Look(s) ==
  /\ stage[s] = "off"
  /\ \/ ("alembic_version" \in have \/ have \cap Base = {}) /\ Go(s, "heads")
     \/ "alembic_version" \notin have /\ Adoptable /\ Go(s, "stamp")
  /\ UNCHANGED <<have, version, known, todo, role, members, setBack>>

\* command.stamp: a read of the version, and the version table.
Stamp(s) ==
  /\ stage[s] = "stamp"
  /\ have' = have \cup {"alembic_version"}
  /\ \E k \in IF version = {} THEN {0} ELSE IF 1 \in version THEN {1} ELSE version :
       known' = [known EXCEPT ![s] = k]
  /\ Go(s, "stamped")
  /\ UNCHANGED <<version, todo, role, members, setBack>>

\* A version row is replaced by another one, or inserted; it is the primary key.
Writable(from, to) == (from > 0 => from \in version) /\ to \notin version
Write(from, to) ==
  /\ version' = (version \ {from}) \cup {to}
  /\ setBack' = (setBack \/ \E v \in version : v > to)

\* The row of the stamp: nothing is written if it was there.
StampCommit(s) ==
  /\ stage[s] = "stamped"
  /\ \/ known[s] = 1 /\ Go(s, "heads")
        /\ UNCHANGED <<have, version, known, todo, role, members, setBack>>
     \/ known[s] # 1 /\ ~ Writable(known[s], 1) /\ Fail(s)
     \/ /\ known[s] # 1 /\ Writable(known[s], 1) /\ Write(known[s], 1)
        /\ Go(s, "heads")
        /\ UNCHANGED <<have, known, todo, role, members>>

\* command.upgrade: the version table if it is not there, and the version; of
\* two rows one overlaps the other, and Alembic refuses.
Heads(s) ==
  /\ stage[s] = "heads"
  /\ \/ \E v, w \in version : v # w /\ Fail(s)
     \/ /\ \/ version = {} /\ known' = [known EXCEPT ![s] = 0]
           \/ \E v \in version : version = {v} /\ known' = [known EXCEPT ![s] = v]
        /\ have' = have \cup {"alembic_version"}
        /\ Go(s, "between")
        /\ UNCHANGED <<version, todo, role, members, setBack>>

\* Mutant: the revisions 3 and 4 do not look what is there.
BeginBlindly(s) ==
  /\ stage[s] = "between" /\ known[s] < Last
  /\ Go(s, "revision") /\ todo' = [todo EXCEPT ![s] = Script[known[s] + 1]]
  /\ UNCHANGED <<have, version, known, role, members, setBack>>

\* upgrade() of the next revision begins: 3 looks for its column, and 4 for
\* its table, with which it leaves its indexes out as well.
Begin(s) ==
  /\ stage[s] = "between" /\ known[s] < Last
  /\ Go(s, "revision")
  /\ LET script == Script[known[s] + 1]
     IN todo' = [todo EXCEPT ![s] =
                   IF known[s] \in {2, 3} /\ script[1] \in have THEN <<>> ELSE script]
  /\ UNCHANGED <<have, version, known, role, members, setBack>>

Create(s) ==
  /\ stage[s] = "revision" /\ todo[s] # <<>>
  /\ IF Head(todo[s]) \in have THEN Fail(s)
     ELSE /\ have' = have \cup {Head(todo[s])}
          /\ todo' = [todo EXCEPT ![s] = Tail(@)]
          /\ UNCHANGED <<version, stage, known, role, members, setBack>>

\* 0002 replaces the tables, by copies without the column; 0005 withdraws the
\* memberships of others than operators, and gives all to all if none is left.
Rebuilt == (have \ (New \cup {"state_version"})) \cup {"foreign keys"}
Kept    == {m \in members : role[m[2]] = "operator"}
Granted == IF Kept # {} THEN Kept ELSE {m \in Pairs : m[1] \in projects /\ role[m[2]] = "operator"}

Apply(r) ==
  /\ have' = CASE r = 2 -> Rebuilt [] r = 5 -> have \cup {"unique"} [] OTHER -> have
  /\ members' = IF r = 5 THEN Granted ELSE members

\* Mutant: nobody looks whether the version was the expected one.
CommitUnchecked(s) ==
  /\ stage[s] = "revision" /\ todo[s] = <<>>
  /\ Apply(known[s] + 1) /\ version' = {known[s] + 1}
  /\ known' = [known EXCEPT ![s] = @ + 1]
  /\ Go(s, "between")
  /\ UNCHANGED <<todo, role, setBack>>

\* The transaction of the revision, with the version row.
Commit(s) ==
  /\ stage[s] = "revision" /\ todo[s] = <<>>
  /\ IF ~ Writable(known[s], known[s] + 1) THEN Fail(s)
     ELSE /\ Apply(known[s] + 1) /\ Write(known[s], known[s] + 1)
          /\ known' = [known EXCEPT ![s] = @ + 1]
          /\ Go(s, "between")
          /\ UNCHANGED <<todo, role>>

\* The schema is that of the last revision; the worker asks for no more.
Migrated(s) ==
  /\ stage[s] = "between" /\ known[s] = Last
  /\ Go(s, IF s = Api THEN "init" ELSE "up")
  /\ UNCHANGED <<have, version, known, todo, role, members, setBack>>

-----------------------------------------------------------------------------
(* init_database, and the life of the processes.                             *)

\* Mutant: the first user is an operator.
InitAsOperator(s) ==
  /\ stage[s] = "init"
  /\ role' = IF \E u \in Users : Exists(u) THEN role ELSE [role EXCEPT ![FirstAdmin] = "operator"]
  /\ Go(s, "up")
  /\ UNCHANGED <<have, version, known, todo, members, setBack>>

\* The first administrator, if there is no user: one transaction, which the
\* deletion of old logs has begun before anybody looks.
InitDatabase(s) ==
  /\ stage[s] = "init"
  /\ role' = IF \E u \in Users : Exists(u) THEN role ELSE [role EXCEPT ![FirstAdmin] = "admin"]
  /\ Go(s, "up")
  /\ UNCHANGED <<have, version, known, todo, members, setBack>>

Start(s) ==
  /\ \/ Look(s) \/ Stamp(s) \/ StampCommit(s) \/ Heads(s) \/ Begin(s) \/ Create(s) \/ Commit(s)
     \/ Migrated(s) \/ InitDatabase(s)
  /\ served' = served \cup {r \in {s} : stage'[r] = "up"}
  /\ UNCHANGED <<projects, req, requests, overlap, demoted, kills, torn, cut>>

\* What a starter that is in a revision has yet to create.
Left(s) == IF stage[s] = "revision" THEN {todo[s][i] : i \in DOMAIN todo[s]} ELSE {}

\* The revisions 1 and 2 create what they will not find created, and 4 does not
\* look for its indexes.
Kill(s) ==
  /\ stage[s] # "off" /\ kills < MaxKills
  /\ Go(s, "off") /\ kills' = kills + 1
  /\ torn' = (torn \/ (stage[s] = "stamped" /\ version = {})
                   \/ (stage[s] = "revision" /\ known[s] < 2 /\ todo[s] # Script[known[s] + 1]))
  /\ cut' = (cut \/ ("project_members" \notin Left(s) /\ Left(s) \cap Indexes # {}))
  /\ req' = IF s = Api THEN [t \in Threads |-> Idle] ELSE req
  /\ UNCHANGED <<role, projects, members, requests, overlap, demoted>>
  /\ UNCHANGED <<have, version, known, todo, setBack, served>>

Next ==
  \/ \E s \in Starters : Start(s) \/ Kill(s)
  \/ stage[Api] = "up" /\ Serve /\ UNCHANGED startVars

\* systemd starts what has failed, and a start goes on.
Spec == Init /\ [][Next]_vars /\ \A s \in Starters : WF_vars(Start(s))

-----------------------------------------------------------------------------
(* Properties.                                                               *)

\* A process that is up finds the whole schema, whatever the other one does or
\* has failed to do; a revision applied twice would take the column away.  The
\* indexes of the memberships may still be on their way in the other process,
\* and are lost if that one is killed between them.  (README.md:39; not so
\* after a stamp that came late.)
SchemaWhole ==
  (\E s \in Starters : stage[s] = "up") /\ ~ setBack =>
    /\ version = {Last} /\ Whole \subseteq have
    /\ cut \/ Indexes \subseteq have \cup UNION {Left(s) : s \in Starters}

\* Once a process has been up, no start gives anybody the right to deploy: a
\* second run of revision 5 would give every operator every project.
NoGrantByStart ==
  [][served # {} /\ ~ setBack /\ req' = req =>
       \A u \in Users, p \in Projects :
         Exists(u) /\ (MayDeploy(u, p))' => MayDeploy(u, p)]_vars

\* Once the API has been up the service is never without an administrator,
\* unless one was demoted or two requests overlapped.  (users.py:109,
\* database.py:81; the worker makes none.)
AdminRemains == Api \in served /\ ~ demoted /\ ~ overlap => Admins # {}

\* Members are operators, also in a database that revision 5 found in another
\* state, as long as requests do not overlap.  (projects.py:53, users.py:19.)
MembersAreOperators ==
  served # {} /\ ~ overlap => \A m \in members : role[m[2]] = "operator"

\* Every start comes to its end, also of two at once and after a kill, unless
\* the kill hit a revision that cannot be repeated, or a late stamp left two
\* version rows.
StartsEnd ==
  \A s \in Starters :
    (stage[s] = "off") ~> (stage[s] = "up" \/ torn \/ \E v, w \in version : v # w)
=============================================================================
