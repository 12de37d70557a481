--------------------------- MODULE StartupProofs ---------------------------
(***************************************************************************)
(* What the starts of any number of processes do to the schema, to the     *)
(* right to deploy and to the administrators, for any users, projects,     *)
(* request threads and kills.  Schema says how far each process is and     *)
(* what is there by then, Indexing who still owes the indexes of the       *)
(* memberships, Accounts why an administrator remains, and Membership why  *)
(* members are operators.                                                  *)
(***************************************************************************)
EXTENDS Startup, TLAPS

Migrating == {"stamped", "between", "revision", "init", "up"}

\* The indexes are created after the table they belong to.
TwoIndexes == <<"ix_project_id", "ix_user_id">>
OneIndex   == <<"ix_user_id">>

\* What a process has created of the revision it is in.
Doing(s) ==
  /\ known[s] = 0 =>
       /\ todo[s] \in {InitialTables, <<"others">>, <<>>}
       /\ todo[s] # InitialTables => "users" \in have
       /\ todo[s] = <<>> => "others" \in have
  /\ known[s] = 2 =>
       todo[s] \in {VersionColumn, <<>>} /\ (todo[s] = <<>> => "state_version" \in have)
  /\ known[s] = 3 =>
       /\ todo[s] \in {MemberTable, TwoIndexes, OneIndex, <<>>}
       /\ todo[s] # MemberTable => "project_members" \in have

StartTypes ==
  /\ version \subseteq 1..Last
  /\ known \in [Starters -> 0..Last]
  /\ stage \in [Starters -> {"off", "stamp", "stamped", "heads", "between", "revision",
                             "init", "up"}]
  /\ \A s \in Starters : stage[s] = "revision" => known[s] < Last
  /\ DOMAIN todo = Starters

\* How far a process is.
Place(s) ==
  /\ known[s] = 0 \/ \E v \in version : known[s] <= v
  /\ stage[s] \in {"stamp", "stamped"} => Base \subseteq have
  /\ stage[s] \in Migrating => "alembic_version" \in have
  /\ stage[s] = "revision" => Doing(s)
  /\ stage[s] \in {"init", "up"} => known[s] = Last

Schema ==
  ~ setBack =>
    /\ \A v, w \in version : v = w
    /\ \A v \in version : Since(v) \subseteq have
    /\ served # {} => version = {Last}
    /\ \A s \in Starters : Place(s)

SInv == StartTypes /\ Schema

Elems(x) == {x[i] : i \in DOMAIN x}

\* Between the table of revision 4 and the last of its indexes.
Owes(s) == stage[s] = "revision" /\ todo[s] \in {TwoIndexes, OneIndex}

\* One process at most owes indexes, and does until it has created them or is
\* killed; nobody else creates them.
Indexing ==
  /\ \A s \in Starters :
       Owes(s) => "project_members" \in have /\ Left(s) \cap have = {}
  /\ \A r, s \in Starters : Owes(r) /\ Owes(s) => r = s
  /\ "project_members" \notin have => Indexes \cap have = {}
  /\ "project_members" \in have /\ ~ cut =>
       \A x \in Indexes : x \in have \/ \E s \in Starters : Owes(s) /\ x \in Left(s)

AccountTypes == DOMAIN role = Users /\ DOMAIN req = Threads

\* As long as requests do not overlap and nobody is demoted: where there are
\* users there is an administrator, whom no request under way deletes.
Accounts ==
  ~ demoted /\ ~ overlap =>
    /\ Admins = {} => \A u \in Users : ~ Exists(u)
    /\ Api \in served => Admins # {}
    /\ \A t \in Threads :
         /\ req[t] # Idle => Admins # {}
         /\ req[t].kind = "drop user" => Admins \ {req[t].id} # {}
    /\ \A t1, t2 \in Threads : req[t1] # Idle /\ req[t2] # Idle => t1 = t2

AInv == AccountTypes /\ Accounts

\* Revision 5 has been applied at some time.
Reached ==
  \/ Last \in version \/ served # {}
  \/ \E s \in Starters : known[s] = Last /\ stage[s] \in {"between", "init", "up"}

\* As long as requests do not overlap, what a request has read is still so when
\* it writes, and from revision 5 on the members are operators.
Membership ==
  /\ \A s \in Starters : stage[s] \in {"init", "up"} => known[s] = Last
  /\ \A m \in members : m[2] \in Users
  /\ \A t \in Threads :
       /\ req[t].kind = "project" => req[t].grants \subseteq Users
       /\ req[t].kind = "user" => req[t].id \in Users
  /\ ~ overlap =>
       /\ Reached => \A m \in members : role[m[2]] = "operator"
       /\ \A t1, t2 \in Threads : req[t1] # Idle /\ req[t2] # Idle => t1 = t2
       /\ \A t \in Threads :
            /\ req[t].kind = "project" => \A u \in req[t].grants : role[u] = "operator"
            /\ req[t].kind = "user" =>
                 /\ req[t].grants # {} => req[t].new = "operator"
                 /\ req[t].was # "none" => role[req[t].id] = req[t].was

-----------------------------------------------------------------------------
\* What the tuples of a revision's creations are.
LEMMA Creations ==
  /\ Head(InitialTables) = "users" /\ Tail(InitialTables) = <<"others">>
  /\ Head(<<"others">>) = "others" /\ Tail(<<"others">>) = <<>>
  /\ Head(VersionColumn) = "state_version" /\ Tail(VersionColumn) = <<>>
  /\ Head(MemberTable) = "project_members" /\ Tail(MemberTable) = TwoIndexes
  /\ Head(TwoIndexes) = "ix_project_id" /\ Tail(TwoIndexes) = OneIndex
  /\ Head(OneIndex) = "ix_user_id" /\ Tail(OneIndex) = <<>>
  /\ InitialTables # <<>> /\ <<"others">> # <<>> /\ InitialTables # <<"others">>
  /\ VersionColumn # <<>> /\ MemberTable \notin {<<>>, TwoIndexes, OneIndex}
  /\ Script[1] = InitialTables /\ Script[3] = VersionColumn /\ Script[4] = MemberTable
  /\ VersionColumn[1] = "state_version" /\ MemberTable[1] = "project_members"
  BY DEF InitialTables, VersionColumn, MemberTable, TwoIndexes, OneIndex, Script

\* What each revision adds.
LEMMA SinceEach ==
  /\ Since(1) = {"alembic_version"} \cup Base
  /\ Since(2) = Since(1) \cup {"foreign keys"}
  /\ Since(3) = Since(2) \cup {"state_version"}
  /\ Since(4) = Since(3) \cup {"project_members"}
  /\ Since(5) = Since(4) \cup {"unique"}
  BY DEF Since

\* A process that does nothing keeps its place while the schema grows.
LEMMA PlaceKept ==
  ASSUME StartTypes, NEW r \in Starters, Place(r), version' \subseteq Nat,
         \A v \in version : \E w \in version' : v <= w,
         known'[r] = known[r], stage'[r] = stage[r], todo'[r] = todo[r],
         have \ {"users_new", "others_new", "state_version"} \subseteq have',
         known[r] = 2 /\ "state_version" \in have => "state_version" \in have'
  PROVE  Place(r)'
<1>1. known[r] \in Nat /\ version \subseteq Nat
  BY DEF StartTypes, Last
<1>2. stage[r] = "revision" => Doing(r)'
  BY DEF Place, Doing, InitialTables
<1>3. known'[r] = 0 \/ \E w \in version' : known'[r] <= w
  <2>1. CASE known[r] = 0
    BY <2>1
  <2>2. CASE known[r] # 0
    <3>1. PICK v \in version : known[r] <= v
      BY <2>2 DEF Place
    <3>2. PICK w \in version' : v <= w
      BY <3>1
    <3>3. known[r] <= w
      BY <1>1, <3>1, <3>2
    <3> QED BY <3>3
  <2> QED BY <2>1, <2>2
<1> QED BY <1>2, <1>3 DEF Place, Base

\* Any database the program may find satisfies the schema's part.
LEMMA SchemaInitial == Init => SInv
<1> SUFFICES ASSUME Init PROVE SInv
  OBVIOUS
<1>1. \A v \in version : version = {v} /\ Since(v) \subseteq have /\ v \in 1..Last
  BY DEF Init
<1> QED BY <1>1 DEF Init, SInv, StartTypes, Schema, Place, Migrating, Last

\* Each step of a starter keeps it.
LEMMA SchemaStart ==
  ASSUME SInv, NEW s \in Starters, Start(s)
  PROVE  SInv'
<1> USE DEF SInv, Go
<1>1. served' = served \cup {r \in {s} : stage'[r] = "up"}
  BY DEF Start
<1>2. /\ version \subseteq 1..5 /\ known[s] \in 0..5 /\ Last = 5
      /\ ~ setBack => /\ Place(s)
                      /\ \A v, w \in version : v = w
                      /\ \A v \in version : Since(v) \subseteq have
                      /\ served # {} => version = {Last}
  BY DEF StartTypes, Schema, Last
\* The others, while this one writes or does not.
<1>o. ASSUME ~ setBack, version' \subseteq Nat,
             \A v \in version : \E w \in version' : v <= w,
             \A r \in Starters \ {s} :
               known'[r] = known[r] /\ stage'[r] = stage[r] /\ todo'[r] = todo[r],
             have \ {"users_new", "others_new", "state_version"} \subseteq have',
             \A r \in Starters :
               known[r] = 2 /\ "state_version" \in have => "state_version" \in have',
             NEW r \in Starters, r # s
      PROVE  Place(r)'
  BY <1>o, PlaceKept DEF Schema
\* A step that leaves the version alone and takes nothing away.
<1>g. ASSUME StartTypes', version' = version, have \subseteq have', setBack' = setBack,
             \A r \in Starters \ {s} :
               known'[r] = known[r] /\ stage'[r] = stage[r] /\ todo'[r] = todo[r],
             ~ setBack => Place(s)'
      PROVE  SInv'
  <2> SUFFICES ASSUME ~ setBack PROVE Schema'
    BY <1>g DEF Schema
  <2>1. version \subseteq Nat /\ \A v \in version : v \in Nat /\ v <= v
    BY <1>2
  <2>2. \A r \in Starters : Place(r)'
    BY <1>g, <1>o, <2>1
  <2>3. stage'[s] = "up" => version = {Last}
    <3> SUFFICES ASSUME stage'[s] = "up" PROVE version = {Last}
      OBVIOUS
    <3>1. known'[s] = 5 /\ \E v \in version : 5 <= v
      BY <1>2, <1>g DEF Place
    <3>2. PICK v \in version : v = 5
      BY <1>2, <3>1
    <3> QED BY <1>2, <3>2
  <2>4. served' # {} => version = {Last}
    BY <1>1, <1>2, <2>3
  <2> QED BY <1>2, <1>g, <2>2, <2>4 DEF Schema
<1>f. ASSUME Fail(s) PROVE SInv'
  <2>1. StartTypes'
    BY <1>f DEF Fail, StartTypes
  <2>2. ~ setBack => Place(s)'
    BY <1>2, <1>f DEF Fail, StartTypes, Place, Migrating
  <2> QED BY <1>f, <1>g, <2>1, <2>2 DEF Fail, StartTypes
<1>3. CASE Look(s)
  <2>1. StartTypes'
    BY <1>2, <1>3 DEF Look, StartTypes
  <2>2. Adoptable => Base \subseteq have
    BY DEF Adoptable
  <2>3. ~ setBack => Place(s)'
    BY <1>2, <1>3, <2>2 DEF Look, StartTypes, Place, Migrating
  <2> QED BY <1>3, <1>g, <2>1, <2>3 DEF Look, StartTypes
<1>4. CASE Stamp(s)
  <2>1. PICK k \in {0, 1} \cup version :
          /\ known' = [known EXCEPT ![s] = k]
          /\ k = 0 \/ k \in version
    BY <1>4 DEF Stamp
  <2>2. k \in 0..5
    BY <1>2, <2>1
  <2>3. StartTypes'
    BY <1>2, <1>4, <2>1, <2>2 DEF Stamp, StartTypes
  <2>4. k = 0 \/ \E v \in version : k <= v
    BY <2>1, <2>2
  <2>5. ~ setBack => Place(s)'
    BY <1>2, <1>4, <2>1, <2>4 DEF Stamp, StartTypes, Place, Migrating, Base
  <2> QED BY <1>4, <1>g, <2>1, <2>3, <2>5 DEF Stamp, StartTypes
<1>5. CASE StampCommit(s)
  <2>1. CASE known[s] = 1 /\ Go(s, "heads")
             /\ UNCHANGED <<have, version, known, todo, role, members, setBack>>
    <3>1. StartTypes'
      BY <1>2, <2>1 DEF StartTypes
    <3>2. ~ setBack => Place(s)'
      BY <1>2, <1>5, <2>1 DEF StampCommit, StartTypes, Place, Migrating
    <3> QED BY <1>g, <2>1, <3>1, <3>2 DEF StartTypes
  <2>2. CASE Fail(s)
    BY <1>f, <2>2
  <2>3. CASE /\ Writable(known[s], 1) /\ Write(known[s], 1) /\ Go(s, "heads")
             /\ UNCHANGED <<have, known, todo>> /\ known[s] # 1
    <3>1. version' = (version \ {known[s]}) \cup {1}
      BY <2>3 DEF Write
    <3>2. StartTypes'
      <4>1. \A v \in version' : v \in 1..5
        BY <1>2, <3>1
      <4> QED BY <1>2, <2>3, <4>1 DEF StartTypes
    <3> SUFFICES ASSUME ~ setBack' PROVE Schema'
      BY <3>2 DEF Schema
    <3>3. ~ setBack /\ version = {}
      <4>1. ~ setBack /\ \A v \in version : ~ v > 1
        BY <2>3 DEF Write
      <4>2. \A v \in version : v \in 1..5 /\ v # 1
        BY <1>2, <2>3 DEF Writable
      <4> QED BY <4>1, <4>2
    <3>4. version' = {1} /\ known[s] = 0
      BY <1>2, <2>3, <3>1, <3>3 DEF Writable
    <3>5. Base \subseteq have /\ "alembic_version" \in have
      BY <1>2, <1>5, <3>3 DEF StampCommit, Place, Migrating
    <3>6. Since(1) \subseteq have'
      BY <2>3, <3>5, SinceEach
    <3>7. stage'[s] = "heads" /\ known'[s] = 0
      BY <2>3, <3>4 DEF StartTypes
    <3>8. Place(s)'
      BY <3>7 DEF Place, Migrating
    <3>9. \A r \in Starters : Place(r)'
      BY <1>o, <2>3, <3>3, <3>4, <3>8 DEF StartTypes
    <3>10. served' = {}
      BY <1>1, <1>2, <3>3, <3>7
    <3> QED BY <3>4, <3>6, <3>9, <3>10 DEF Schema
  <2> QED BY <1>5, <2>1, <2>2, <2>3 DEF StampCommit
<1>6. CASE Heads(s)
  <2>1. CASE Fail(s)
    BY <1>f, <2>1
  <2>2. CASE ~ Fail(s)
    <3>1. PICK k \in {0} \cup version : known' = [known EXCEPT ![s] = k]
      BY <1>6, <2>2 DEF Heads
    <3>2. /\ have' = have \cup {"alembic_version"} /\ stage' = [stage EXCEPT ![s] = "between"]
          /\ UNCHANGED <<version, todo, setBack>>
      BY <1>6, <2>2 DEF Heads
    <3>3. k \in 0..5
      BY <1>2
    <3>4. StartTypes'
      BY <1>2, <3>1, <3>2, <3>3 DEF StartTypes
    <3>5. k = 0 \/ \E v \in version : k <= v
      BY <3>3
    <3>6. ~ setBack => Place(s)'
      BY <1>2, <3>1, <3>2, <3>5 DEF StartTypes, Place, Migrating
    <3> QED BY <1>g, <3>1, <3>2, <3>4, <3>6 DEF StartTypes
  <2> QED BY <2>1, <2>2
<1>7. CASE Begin(s)
  <2>1. StartTypes'
    BY <1>2, <1>7 DEF Begin, StartTypes
  <2>2. ~ setBack => Place(s)'
    <3> SUFFICES ASSUME ~ setBack PROVE Place(s)'
      OBVIOUS
    <3>1. /\ stage'[s] = "revision" /\ known' = known /\ have' = have /\ version' = version
          /\ stage[s] = "between" /\ known[s] \in 0..4
      BY <1>2, <1>7 DEF Begin, StartTypes
    <3>2. todo'[s] = IF known[s] \in {2, 3} /\ Script[known[s] + 1][1] \in have THEN <<>>
                     ELSE Script[known[s] + 1]
      BY <1>7 DEF Begin, StartTypes
    <3>3. Doing(s)'
      <4>1. CASE known[s] = 0
        BY <3>1, <3>2, <4>1, Creations DEF Doing
      <4>2. CASE known[s] = 2
        BY <3>1, <3>2, <4>2, Creations DEF Doing
      <4>3. CASE known[s] = 3
        BY <3>1, <3>2, <4>3, Creations DEF Doing
      <4>4. CASE known[s] \notin {0, 2, 3}
        BY <3>1, <4>4 DEF Doing
      <4> QED BY <4>1, <4>2, <4>3, <4>4
    <3> QED BY <1>2, <3>1, <3>3 DEF Place, Migrating
  <2> QED BY <1>7, <1>g, <2>1, <2>2 DEF Begin, StartTypes
<1>8. CASE Create(s)
  <2>1. CASE Head(todo[s]) \in have
    BY <1>8, <1>f, <2>1 DEF Create
  <2>2. CASE Head(todo[s]) \notin have
    <3>1. StartTypes'
      BY <1>2, <1>8, <2>2 DEF Create, StartTypes
    <3>2. ~ setBack => Place(s)'
      <4> SUFFICES ASSUME ~ setBack PROVE Place(s)'
        OBVIOUS
      <4> DEFINE x == todo[s]
      <4>1. /\ have' = have \cup {Head(x)} /\ todo'[s] = Tail(x) /\ x # <<>>
            /\ UNCHANGED <<version, stage, known>> /\ stage[s] = "revision"
        BY <1>8, <2>2 DEF Create, StartTypes
      <4>2. Doing(s)
        BY <1>2, <4>1 DEF Place
      <4> HIDE DEF x
      <4>3. Doing(s)'
        <5>1. CASE known[s] = 0
          <6>1. x \in {InitialTables, <<"others">>}
            BY <4>1, <4>2, <5>1 DEF Doing, x
          <6>2. CASE x = InitialTables
            BY <4>1, <5>1, <6>2, Creations DEF Doing
          <6>3. CASE x = <<"others">>
            <7>1. "users" \in have
              BY <4>2, <5>1, <6>3, Creations DEF Doing, x
            <7>2. /\ todo'[s] = <<>> /\ "others" \in have' /\ "users" \in have'
                  /\ known'[s] = 0
              BY <4>1, <5>1, <6>3, <7>1, Creations
            <7> QED BY <7>2, Creations DEF Doing
          <6> QED BY <6>1, <6>2, <6>3
        <5>2. CASE known[s] = 2
          BY <4>1, <4>2, <5>2, Creations DEF Doing, x
        <5>3. CASE known[s] = 3
          BY <4>1, <4>2, <5>3, Creations DEF Doing, x
        <5>4. CASE known[s] \notin {0, 2, 3}
          BY <4>1, <5>4 DEF Doing
        <5> QED BY <5>1, <5>2, <5>3, <5>4
      <4> QED BY <1>2, <4>1, <4>3 DEF Place, Migrating
    <3> QED BY <1>8, <1>g, <2>2, <3>1, <3>2 DEF Create, StartTypes
  <2> QED BY <2>1, <2>2
<1>9. CASE Commit(s)
  <2>1. CASE ~ Writable(known[s], known[s] + 1)
    BY <1>9, <1>f, <2>1 DEF Commit
  <2>2. CASE Writable(known[s], known[s] + 1)
    <3> DEFINE k == known[s]
    <3>1. /\ Apply(k + 1) /\ Write(k, k + 1) /\ UNCHANGED todo
          /\ known' = [known EXCEPT ![s] = k + 1]
          /\ stage' = [stage EXCEPT ![s] = "between"]
          /\ stage[s] = "revision" /\ todo[s] = <<>> /\ k \in 0..4
      BY <1>2, <1>9, <2>2 DEF Commit, StartTypes
    <3>2. version' = (version \ {k}) \cup {k + 1}
      BY <3>1 DEF Write
    <3> HIDE DEF k
    <3>3. StartTypes'
      BY <1>2, <3>1, <3>2 DEF StartTypes
    <3> SUFFICES ASSUME ~ setBack' PROVE Schema'
      BY <3>3 DEF Schema
    <3>4. ~ setBack /\ Place(s) /\ Doing(s) /\ "alembic_version" \in have
      BY <1>2, <3>1 DEF Write, Place, Migrating
    <3>5. version = IF k = 0 THEN {} ELSE {k}
      <4>1. CASE k = 0
        <5>0. k + 1 = 1
          BY <4>1
        <5>1. \A v \in version : ~ v > 1
          BY <3>1, <5>0 DEF Write
        <5>2. 1 \notin version
          BY <2>2, <4>1 DEF Writable, k
        <5>3. \A v \in version : v \in 1..5 /\ v # 1
          BY <1>2, <5>2
        <5> QED BY <4>1, <5>1, <5>3
      <4>2. CASE k # 0
        <5>1. k \in version
          BY <2>2, <3>1, <4>2 DEF Writable, k
        <5>2. \A v \in version : v = k
          BY <1>2, <3>4, <5>1
        <5> QED BY <4>2, <5>1, <5>2
      <4> QED BY <4>1, <4>2
    <3>6. version' = {k + 1} /\ served = {}
      <4>1. CASE k = 0
        BY <1>2, <3>1, <3>2, <3>4, <3>5, <4>1
      <4>2. CASE k # 0
        <5>1. version = {k} /\ k # 5
          BY <3>1, <3>5, <4>2
        <5> QED BY <1>2, <3>2, <3>4, <5>1
      <4> QED BY <4>1, <4>2
    <3>7. /\ have' = IF k = 1 THEN Rebuilt
                     ELSE IF k = 4 THEN have \cup {"unique"} ELSE have
          /\ k > 0 => Since(k) \subseteq have
      BY <1>2, <3>1, <3>4, <3>5 DEF Apply
    <3>8. Since(k + 1) \subseteq have'
      <4>0. /\ k = 0 => k + 1 = 1
            /\ k = 1 => k + 1 = 2
            /\ k = 2 => k + 1 = 3
            /\ k = 3 => k + 1 = 4
            /\ k = 4 => k + 1 = 5
        OBVIOUS
      <4>1. CASE k = 0
        <5>1. Base \subseteq have /\ have' = have
          BY <3>1, <3>4, <3>7, <4>1, Creations DEF Doing, Base, k
        <5> QED BY <3>4, <4>0, <4>1, <5>1, SinceEach
      <4>2. CASE k = 1
        <5>1. Since(1) \subseteq have /\ have' = Rebuilt
          BY <3>7, <4>2
        <5>2. Since(1) \cap (New \cup {"state_version"}) = {}
          BY SinceEach DEF Base, New
        <5> QED BY <4>0, <4>2, <5>1, <5>2, SinceEach DEF Rebuilt
      <4>3. CASE k = 2
        <5>1. "state_version" \in have /\ have' = have /\ Since(2) \subseteq have
          BY <3>1, <3>4, <3>7, <4>3 DEF Doing, k
        <5> QED BY <4>0, <4>3, <5>1, SinceEach
      <4>4. CASE k = 3
        <5>1. "project_members" \in have /\ have' = have /\ Since(3) \subseteq have
          BY <3>1, <3>4, <3>7, <4>4, Creations DEF Doing, k
        <5> QED BY <4>0, <4>4, <5>1, SinceEach
      <4>5. CASE k = 4
        <5>1. Since(4) \subseteq have /\ have' = have \cup {"unique"}
          BY <3>7, <4>5
        <5> QED BY <4>0, <4>5, <5>1, SinceEach
      <4> QED BY <3>1, <4>1, <4>2, <4>3, <4>4, <4>5
    <3>9. stage'[s] = "between" /\ known'[s] = k + 1
      BY <3>1 DEF StartTypes
    <3>10. "alembic_version" \in have'
      BY <3>4, <3>7 DEF Rebuilt, New
    <3>11. Place(s)'
      BY <3>1, <3>6, <3>9, <3>10 DEF Place
    <3>12. have \ {"users_new", "others_new", "state_version"} \subseteq have'
      BY <3>7 DEF Rebuilt, New
    <3>13. \A r \in Starters : known[r] = 2 /\ "state_version" \in have => "state_version" \in have'
      <4> SUFFICES ASSUME NEW r \in Starters, known[r] = 2 PROVE k # 1
        BY <3>7
      <4>1. \E v \in version : 2 <= v
        BY <3>4 DEF Schema, Place
      <4> QED BY <3>5, <4>1
    <3>14. \A r \in Starters : Place(r)'
      BY <1>o, <3>1, <3>4, <3>5, <3>6, <3>11, <3>12, <3>13 DEF StartTypes
    <3>15. served' = {}
      BY <1>1, <3>6, <3>9
    <3> QED BY <3>6, <3>8, <3>14, <3>15 DEF Schema
  <2> QED BY <2>1, <2>2
<1>10. CASE Migrated(s) \/ InitDatabase(s)
  <2>1. \/ stage[s] = "between" /\ known[s] = Last
        \/ stage[s] = "init"
    BY <1>10 DEF Migrated, InitDatabase
  <2>2. /\ UNCHANGED <<have, version, known, todo, setBack>>
        /\ \E x \in {"init", "up"} : stage' = [stage EXCEPT ![s] = x]
    BY <1>10 DEF Migrated, InitDatabase
  <2>3. StartTypes'
    BY <2>2 DEF StartTypes
  <2>4. ~ setBack => Place(s)'
    BY <1>2, <2>1, <2>2 DEF StartTypes, Place, Migrating
  <2> QED BY <1>g, <2>2, <2>3, <2>4 DEF StartTypes
<1> QED BY <1>3, <1>4, <1>5, <1>6, <1>7, <1>8, <1>9, <1>10 DEF Start

\* Starters, kills and requests keep the schema's part.
LEMMA SchemaStep == SInv /\ [Next]_vars => SInv'
<1> SUFFICES ASSUME SInv, [Next]_vars PROVE SInv'
  OBVIOUS
<1>1. ASSUME NEW s \in Starters, Start(s) PROVE SInv'
  BY <1>1, SchemaStart
<1>2. ASSUME NEW s \in Starters, Kill(s) PROVE SInv'
  BY <1>2 DEF Kill, Go, SInv, StartTypes, Schema, Place, Doing, Migrating
<1>3. CASE UNCHANGED startVars
  BY <1>3 DEF startVars, SInv, StartTypes, Schema, Place, Doing
<1>4. CASE UNCHANGED vars
  BY <1>3, <1>4 DEF vars, startVars
<1> QED BY <1>1, <1>2, <1>3, <1>4 DEF Next

\* The schema's part in every reachable state.
LEMMA SchemaInvariance == Spec => []SInv
BY SchemaInitial, SchemaStep, PTL DEF Spec

-----------------------------------------------------------------------------
\* An idle thread is told from a request by its kind.
LEMMA IdleKind == Idle.kind = "idle"
  BY DEF Idle

\* Any accounts the program may find satisfy the accounts' part.
LEMMA AccountsInitial == Init => AInv
<1>1. SUFFICES ASSUME Init PROVE AInv
  OBVIOUS
<1>2. DOMAIN role = Users /\ DOMAIN req = Threads /\ \A t \in Threads : req[t] = Idle
  BY <1>1 DEF Init
<1>3. role[FirstAdmin] = "admin" \/ \A u \in Users : role[u] = "none"
  BY <1>1 DEF Init
<1>4. Admins = {} => \A u \in Users : ~ Exists(u)
  BY <1>3, AdminAssumption DEF Admins, Exists
<1>5. QED
  BY <1>1, <1>2, <1>4 DEF Init, AInv, AccountTypes, Accounts, Idle

\* Every step keeps the types of the accounts and requests.
LEMMA AccountTypesStep == AccountTypes /\ [Next]_vars => AccountTypes'
<1>1. SUFFICES ASSUME AccountTypes, [Next]_vars PROVE AccountTypes'
  OBVIOUS
<1> USE DEF AccountTypes
<1>2. ASSUME NEW s \in Starters, Start(s) PROVE AccountTypes'
  BY <1>1, <1>2 DEF Start, Look, Stamp, StampCommit, Heads, Begin, Create,
     Commit, Migrated, InitDatabase, Fail
<1>3. ASSUME NEW s \in Starters, Kill(s) PROVE AccountTypes'
  BY <1>1, <1>3 DEF Kill
<1>4. CASE Serve
  BY <1>1, <1>4 DEF Serve, UserRequest, DropUserRequest, ProjectRequest,
     DropProjectRequest, Receive, WriteUser, DropUser, WriteProject, DropProject,
     Refused, Done
<1>5. CASE UNCHANGED vars
  BY <1>1, <1>5 DEF vars, memberVars
<1>6. QED
  BY <1>1, <1>2, <1>3, <1>4, <1>5 DEF Next

\* The API's start makes an administrator where there are no users, and no other
\* step of a start touches the accounts.
LEMMA AccountsStart ==
  ASSUME SInv, AInv, NEW s \in Starters, Start(s)
  PROVE  Accounts'
<1> USE DEF AInv, AccountTypes, Go
<1> SUFFICES ASSUME ~ demoted, ~ overlap PROVE Accounts'
  BY DEF Start, Accounts
<1>1. /\ UNCHANGED <<req, demoted, overlap>>
      /\ served' = served \cup {r \in {s} : stage'[r] = "up"}
  BY DEF Start
<1>2. /\ Admins = {} => \A u \in Users : ~ Exists(u)
      /\ Api \in served => Admins # {}
      /\ \A t \in Threads :
           /\ req[t] # Idle => Admins # {}
           /\ req[t].kind = "drop user" => Admins \ {req[t].id} # {}
      /\ \A t1, t2 \in Threads : req[t1] # Idle /\ req[t2] # Idle => t1 = t2
  BY DEF Accounts
<1>3. DOMAIN stage = Starters
  BY DEF SInv, StartTypes
<1>4. CASE InitDatabase(s)
  <2>1. CASE \E u \in Users : Exists(u)
    <3>1. role' = role /\ Admins # {}
      BY <1>2, <1>4, <2>1 DEF InitDatabase
    <3>2. Admins' = Admins
      BY <3>1 DEF Admins
    <3> QED BY <1>1, <1>2, <3>1, <3>2 DEF Accounts
  <2>2. CASE ~ \E u \in Users : Exists(u)
    <3>1. role' = [role EXCEPT ![FirstAdmin] = "admin"]
      BY <1>4, <2>2 DEF InitDatabase
    <3>2. Admins \subseteq Admins' /\ Admins' # {}
      BY <3>1, AdminAssumption DEF Admins
    <3> QED BY <1>1, <1>2, <3>2 DEF Accounts
  <2> QED BY <2>1, <2>2
<1>5. CASE ~ InitDatabase(s)
  <2>1. role' = role
    BY <1>5 DEF Start, Look, Stamp, StampCommit, Heads, Begin, Create, Commit, Migrated, Fail
  <2>2. stage'[s] = "up" => s # Api
    BY <1>3, <1>5 DEF Start, Look, Stamp, StampCommit, Heads, Begin, Create, Commit, Migrated,
       Fail
  <2>3. UNCHANGED <<Admins, role>> /\ \A u \in Users : Exists(u)' <=> Exists(u)
    BY <2>1 DEF Admins, Exists
  <2>4. Api \in served' => Api \in served
    BY <1>1, <2>2
  <2> QED BY <1>1, <1>2, <2>3, <2>4 DEF Accounts
<1> QED BY <1>4, <1>5

\* Nor does a request delete the last administrator.
LEMMA AccountsServe ==
  ASSUME AInv, Serve, UNCHANGED startVars
  PROVE  Accounts'
<1> USE DEF AInv, AccountTypes, startVars
<1>1. SUFFICES ASSUME ~ demoted', ~ overlap'
               PROVE  Accounts'
  BY DEF Accounts
<1>2. PICK t \in Threads :
        \/ UserRequest(t) \/ DropUserRequest(t) \/ ProjectRequest(t) \/ DropProjectRequest(t)
        \/ WriteUser(t) \/ DropUser(t) \/ WriteProject(t) \/ DropProject(t) \/ Refused(t)
  BY DEF Serve
<1>3. ASSUME NEW r, Receive(t, r), r.kind = "drop user" => Admins \ {r.id} # {}
      PROVE  Accounts'
  <2>1. ~ overlap /\ ~ demoted /\ \A s \in Threads : req[s] = Idle
    BY <1>1, <1>3 DEF Receive
  <2>2. UNCHANGED <<role, Admins>> /\ Admins # {} /\ \A u \in Users : Exists(u)' <=> Exists(u)
    BY <1>3 DEF Receive, Admins, Exists
  <2>3. \A s \in Threads : req'[s] = IF s = t THEN r ELSE Idle
    BY <1>3, <2>1 DEF Receive
  <2>4. Idle.kind # "drop user"
    BY IdleKind
  <2>5. QED
    BY <1>3, <2>2, <2>3, <2>4 DEF Accounts
<1>4. CASE UserRequest(t) \/ ProjectRequest(t) \/ DropProjectRequest(t)
  <2>1. CASE UserRequest(t)
    BY <1>3, <2>1 DEF UserRequest
  <2>2. CASE ProjectRequest(t)
    BY <1>3, <2>2 DEF ProjectRequest
  <2>3. CASE DropProjectRequest(t)
    BY <1>3, <2>3 DEF DropProjectRequest
  <2>4. QED
    BY <1>4, <2>1, <2>2, <2>3
<1>5. CASE DropUserRequest(t)
  BY <1>3, <1>5 DEF DropUserRequest
<1>6. ASSUME req[t] # Idle, Done(t), Admins' # {} PROVE Accounts'
  <2>1. ~ overlap
    BY <1>1, <1>6 DEF Done
  <2>2. CASE demoted
    BY <1>1, <1>2, <1>6, <2>2 DEF Done, WriteUser, DropUser, WriteProject,
       DropProject,
       Refused, UserRequest, DropUserRequest, ProjectRequest, DropProjectRequest, Receive
  <2>3. CASE ~ demoted
    <3>1. \A s \in Threads : s # t => req[s] = Idle
      BY <1>6, <2>1, <2>3 DEF Accounts
    <3>2. \A s \in Threads : req'[s] = Idle
      BY <1>6, <3>1 DEF Done
    <3>3. Idle.kind # "drop user"
      BY IdleKind
    <3>4. QED
      BY <1>6, <3>2, <3>3 DEF Accounts
  <2>4. QED
    BY <2>2, <2>3
<1>7. CASE WriteProject(t) \/ DropProject(t) \/ Refused(t)
  <2>1. req[t] # Idle /\ Done(t) /\ role' = role /\ demoted' = demoted /\ overlap' = overlap
    BY <1>7, IdleKind DEF WriteProject, DropProject, Refused, Done
  <2>2. Admins # {} /\ Admins' = Admins
    BY <1>1, <2>1 DEF Accounts, Admins
  <2>3. QED
    BY <1>6, <2>1, <2>2
<1>8. CASE WriteUser(t)
  <2>1. /\ req[t] # Idle /\ Done(t) /\ overlap' = overlap
        /\ demoted' = (demoted \/ (role[req[t].id] = "admin" /\ role'[req[t].id] # "admin"))
    BY <1>8, IdleKind DEF WriteUser, Done
  <2>2. Admins # {} /\ ~ (role[req[t].id] = "admin" /\ role'[req[t].id] # "admin")
    BY <1>1, <2>1 DEF Accounts
  <2>3. \A u \in Users : u # req[t].id => role'[u] = role[u]
    BY <1>8 DEF WriteUser
  <2>4. Admins \subseteq Admins'
    BY <2>2, <2>3 DEF Admins
  <2>5. QED
    BY <1>6, <2>1, <2>2, <2>4
<1>9. CASE DropUser(t)
  <2>1. /\ req[t] # Idle /\ req[t].kind = "drop user" /\ Done(t)
        /\ demoted' = demoted /\ overlap' = overlap
        /\ role' = [role EXCEPT ![req[t].id] = "none"]
    BY <1>9, IdleKind DEF DropUser, Done
  <2>2. Admins \ {req[t].id} # {}
    BY <1>1, <2>1 DEF Accounts
  <2>3. Admins \ {req[t].id} \subseteq Admins'
    BY <2>1 DEF Admins
  <2>4. QED
    BY <1>6, <2>1, <2>2, <2>3
<1>10. QED
  BY <1>2, <1>4, <1>5, <1>7, <1>8, <1>9

\* Starts, kills and requests keep the accounts' part.
LEMMA AccountsStep == SInv /\ AInv /\ [Next]_vars => AInv'
<1>1. SUFFICES ASSUME SInv, AInv, [Next]_vars PROVE Accounts'
  BY AccountTypesStep DEF AInv
<1>2. ASSUME NEW s \in Starters, Start(s) PROVE Accounts'
  BY <1>1, <1>2, AccountsStart
<1>3. ASSUME NEW s \in Starters, Kill(s) PROVE Accounts'
  <2>1. UNCHANGED <<role, demoted, overlap, served, Admins>>
        /\ \A u \in Users : Exists(u)' <=> Exists(u)
    BY <1>3 DEF Kill, Admins, Exists
  <2>2. \A t \in Threads : req'[t] = req[t] \/ req'[t] = Idle
    BY <1>3 DEF Kill
  <2>3. Idle.kind # "drop user"
    BY IdleKind
  <2>4. QED
    BY <1>1, <2>1, <2>2, <2>3 DEF AInv, Accounts
<1>4. CASE Serve /\ UNCHANGED startVars
  BY <1>1, <1>4, AccountsServe
<1>5. CASE UNCHANGED vars
  BY <1>1, <1>5 DEF vars, memberVars, startVars, AInv, Accounts, Admins, Exists
<1>6. QED
  BY <1>1, <1>2, <1>3, <1>4, <1>5 DEF Next

\* However many requests, starts and kills: once the API has been up, the service
\* is never without an administrator, unless one was demoted or two requests
\* overlapped.
THEOREM AdminStays == Spec => []AdminRemains
<1>1. Init => SInv /\ AInv
  BY SchemaInitial, AccountsInitial
<1>2. SInv /\ AInv /\ [Next]_vars => SInv' /\ AInv'
  BY SchemaStep, AccountsStep
<1>3. AInv => AdminRemains
  BY DEF AInv, Accounts, AdminRemains
<1>4. QED
  BY <1>1, <1>2, <1>3, PTL DEF Spec

-----------------------------------------------------------------------------
\* Every request changes what its thread is at.
LEMMA ServeMoves == AccountTypes /\ Serve => req' # req
<1>1. SUFFICES ASSUME AccountTypes, Serve PROVE req' # req
  OBVIOUS
<1>2. PICK t \in Threads :
        \/ UserRequest(t) \/ DropUserRequest(t) \/ ProjectRequest(t) \/ DropProjectRequest(t)
        \/ WriteUser(t) \/ DropUser(t) \/ WriteProject(t) \/ DropProject(t) \/ Refused(t)
  BY <1>1 DEF Serve
<1>3. ASSUME NEW r, Receive(t, r), r.kind # "idle" PROVE req' # req
  BY <1>1, <1>3 DEF Receive, AccountTypes, Idle
<1>4. CASE UserRequest(t)
  BY <1>3, <1>4 DEF UserRequest
<1>5. CASE DropUserRequest(t)
  BY <1>3, <1>5 DEF DropUserRequest
<1>6. CASE ProjectRequest(t)
  BY <1>3, <1>6 DEF ProjectRequest
<1>7. CASE DropProjectRequest(t)
  BY <1>3, <1>7 DEF DropProjectRequest
<1>8. ASSUME req[t] # Idle, Done(t) PROVE req' # req
  BY <1>1, <1>8 DEF Done, AccountTypes
<1>9. CASE WriteUser(t) \/ DropUser(t) \/ WriteProject(t) \/ DropProject(t) \/ Refused(t)
  BY <1>8, <1>9, IdleKind DEF WriteUser, DropUser, WriteProject, DropProject,
     Refused
<1>10. QED
  BY <1>2, <1>4, <1>5, <1>6, <1>7, <1>9

\* Once a process has been up, no start, repeated or concurrent, gives anybody who
\* exists the right to deploy, unless a late stamp set the version back.
THEOREM NoGrant == Spec => NoGrantByStart
<1> DEFINE A == served # {} /\ ~ setBack /\ req' = req =>
                  \A u \in Users, p \in Projects :
                    Exists(u) /\ (MayDeploy(u, p))' => MayDeploy(u, p)
<1>1. SInv /\ AccountTypes /\ [Next]_vars => [A]_vars
  <2> SUFFICES ASSUME SInv, AccountTypes, Next, served # {}, ~ setBack, req' = req,
                      NEW u \in Users, NEW p \in Projects, Exists(u), MayDeploy(u, p)'
               PROVE  MayDeploy(u, p)
    OBVIOUS
  <2>1. /\ version = {5} /\ known \in [Starters -> 0..5]
        /\ \A s \in Starters : stage[s] = "revision" => known[s] < 5
    BY DEF SInv, Schema, StartTypes, Last
  <2>2. ASSUME NEW s \in Starters, Start(s) PROVE role'[u] = role[u] /\ members' = members
    <3>1. CASE Commit(s)
      <4>1. CASE ~ Writable(known[s], known[s] + 1)
        BY <3>1, <4>1 DEF Commit, Fail
      <4>2. CASE Writable(known[s], known[s] + 1)
        <5>1. Apply(known[s] + 1) /\ role' = role /\ known[s] \in 0..4
          BY <2>1, <3>1, <4>2 DEF Commit
        <5>2. known[s] + 1 # 5
          BY <2>1, <4>2 DEF Writable
        <5> QED BY <5>1, <5>2 DEF Apply
      <4> QED BY <4>1, <4>2
    <3>2. CASE InitDatabase(s)
      BY <3>2 DEF InitDatabase
    <3>3. CASE Look(s) \/ Stamp(s) \/ StampCommit(s) \/ Heads(s) \/ Begin(s) \/ Create(s)
               \/ Migrated(s)
      BY <3>3 DEF Look, Stamp, StampCommit, Heads, Begin, Create, Migrated, Fail
    <3> QED BY <2>2, <3>1, <3>2, <3>3 DEF Start
  <2>3. ASSUME NEW s \in Starters, Kill(s) PROVE role'[u] = role[u] /\ members' = members
    BY <2>3 DEF Kill
  <2>4. ~ Serve
    BY ServeMoves
  <2>5. role'[u] = role[u] /\ members' = members
    BY <2>2, <2>3, <2>4 DEF Next
  <2> QED BY <2>5 DEF MayDeploy
<1>2. Init => SInv /\ AccountTypes
  BY SchemaInitial, AccountsInitial DEF AInv
<1>3. SInv /\ AccountTypes /\ [Next]_vars => SInv' /\ AccountTypes'
  BY SchemaStep, AccountTypesStep
<1>4. QED
  BY <1>1, <1>2, <1>3, PTL DEF Spec, NoGrantByStart

-----------------------------------------------------------------------------
\* Before the first request the memberships' part holds.
LEMMA MembershipInitial == Init => Membership
<1>1. SUFFICES ASSUME Init PROVE Membership
  OBVIOUS
<1>2. \A m \in Pairs : m[2] \in Users
  BY DEF Pairs
<1>3. \A m \in members : m[2] \in Users
  BY <1>1, <1>2 DEF Init
<1>4. Reached => \A m \in members : role[m[2]] = "operator"
  <2>1. Reached => Since(Last) \subseteq have
    BY <1>1 DEF Init, Reached, Last
  <2>2. "unique" \in Since(Last)
    BY SinceEach DEF Last
  <2>3. QED
    BY <1>1, <2>1, <2>2 DEF Init
<1>5. \A t \in Threads : req[t] = Idle
  BY <1>1 DEF Init
<1>6. \A s \in Starters : stage[s] = "off"
  BY <1>1 DEF Init
<1>7. QED
  BY <1>3, <1>4, <1>5, <1>6, IdleKind DEF Membership

\* The memberships after a start: the old ones, or those of revision 5.
LEMMA MembershipStart ==
  ASSUME SInv, AccountTypes, Membership, NEW s \in Starters, Start(s)
  PROVE  Membership'
<1> USE DEF Go
<1>1. /\ UNCHANGED <<req, overlap>>
      /\ served' = served \cup {r \in {s} : stage'[r] = "up"}
  BY DEF Start
<1>2. /\ DOMAIN stage = Starters /\ known \in [Starters -> 0..5] /\ version \subseteq 1..5
      /\ \A r \in Starters : stage[r] = "revision" => known[r] < 5
      /\ \A r \in Starters : stage[r] \in {"init", "up"} => known[r] = 5
      /\ Last = 5
  BY DEF SInv, StartTypes, Membership, Last
<1>3. /\ \A r \in Starters : r # s => stage'[r] = stage[r] /\ known'[r] = known[r]
      /\ stage'[s] \in {"init", "up"} => known'[s] = 5 /\ known[s] = 5
                                       /\ stage[s] \in {"between", "init", "up"}
  <2>1. CASE Look(s) \/ Stamp(s) \/ StampCommit(s) \/ Heads(s) \/ Begin(s) \/ Create(s)
    BY <1>2, <2>1 DEF Look, Stamp, StampCommit, Heads, Begin, Create, Fail
  <2>2. CASE Commit(s) \/ Migrated(s) \/ InitDatabase(s)
    BY <1>2, <2>2 DEF Commit, Migrated, InitDatabase, Fail
  <2> QED BY <2>1, <2>2 DEF Start
<1>4. (\A r \in Starters : stage[r] \in {"init", "up"} => known[r] = Last)'
  BY <1>2, <1>3 DEF Last
<1>5. CASE Commit(s) /\ Writable(known[s], known[s] + 1) /\ known[s] = 4
  <2>1. members' = Granted /\ role' = role
    BY <1>5 DEF Commit, Apply
  <2>2. \A m \in Pairs : m[2] \in Users
    BY DEF Pairs
  <2>3. \A m \in Granted : m[2] \in Users /\ role[m[2]] = "operator"
    BY <2>2 DEF Granted, Kept, Membership
  <2> QED BY <1>1, <1>4, <2>1, <2>3 DEF Membership
<1>6. ASSUME ~ (Commit(s) /\ Writable(known[s], known[s] + 1) /\ known[s] = 4)
      PROVE  members' = members /\ (Reached' => Reached)
  <2>1. ASSUME Commit(s)
        PROVE  /\ members' = members /\ (Last \in version' => Last \in version)
               /\ stage'[s] # "between" \/ known'[s] # Last
    <3>1. CASE Fail(s)
      BY <1>2, <3>1 DEF Fail
    <3>2. CASE ~ Fail(s)
      <4>1. /\ Apply(known[s] + 1) /\ Write(known[s], known[s] + 1)
            /\ known' = [known EXCEPT ![s] = known[s] + 1]
            /\ known[s] \in 0..3
        BY <1>2, <1>6, <2>1, <3>2 DEF Commit
      <4>2. known[s] + 1 # 5 /\ known'[s] = known[s] + 1
        BY <1>2, <4>1
      <4>3. members' = members /\ version' = (version \ {known[s]}) \cup {known[s] + 1}
        BY <4>1, <4>2 DEF Apply, Write
      <4> QED BY <1>2, <4>2, <4>3
    <3> QED BY <3>1, <3>2
  <2>2. ASSUME StampCommit(s)
        PROVE  /\ members' = members /\ (Last \in version' => Last \in version)
               /\ stage'[s] # "between"
    BY <1>2, <2>2 DEF StampCommit, Write, Fail
  <2>3. ASSUME Heads(s)
        PROVE  /\ members' = members /\ version' = version
               /\ stage'[s] = "between" => known'[s] = 0 \/ known'[s] \in version
    BY <1>2, <2>3 DEF Heads, Fail
  <2>4. ASSUME Look(s) \/ Stamp(s) \/ Begin(s) \/ Create(s) \/ Migrated(s) \/ InitDatabase(s)
        PROVE  members' = members /\ version' = version /\ stage'[s] # "between"
    BY <1>2, <2>4 DEF Look, Stamp, Begin, Create, Migrated, InitDatabase, Fail
  <2>5. members' = members /\ (Last \in version' => Last \in version)
    BY <2>1, <2>2, <2>3, <2>4 DEF Start
  <2>6. stage'[s] = "between" /\ known'[s] = Last => Reached
    BY <1>2, <2>1, <2>2, <2>3, <2>4 DEF Start, Reached
  <2>7. stage'[s] \in {"init", "up"} => Reached
    BY <1>2, <1>3 DEF Reached
  <2>8. served' # {} => served # {} \/ stage'[s] = "up"
    BY <1>1
  <2>9. ASSUME Reached' PROVE Reached
    <3>1. CASE Last \in version' \/ served' # {}
      BY <2>5, <2>7, <2>8, <3>1 DEF Reached, Last
    <3>2. CASE \E r \in Starters : known'[r] = Last /\ stage'[r] \in {"between", "init", "up"}
      BY <1>3, <2>6, <2>7, <3>2 DEF Reached
    <3> QED BY <2>9, <3>1, <3>2 DEF Reached, Last
  <2> QED BY <2>5, <2>9
<1>7. CASE role' = role /\ ~ (Commit(s) /\ Writable(known[s], known[s] + 1) /\ known[s] = 4)
  BY <1>1, <1>4, <1>6, <1>7 DEF Membership
<1>8. CASE InitDatabase(s) /\ role' # role
  <2>1. /\ stage[s] = "init" /\ members' = members /\ \A u \in Users : ~ Exists(u)
        /\ role' = [role EXCEPT ![FirstAdmin] = "admin"]
    BY <1>8 DEF InitDatabase
  <2>2. ASSUME NEW u \in Users, role[u] # "none" PROVE role'[u] = role[u]
    BY <2>1, <2>2 DEF Exists
  <2>3. Reached
    BY <1>2, <2>1 DEF Reached
  <2>4. "operator" # "none"
    OBVIOUS
  <2> QED BY <1>1, <1>4, <2>1, <2>2, <2>3, <2>4 DEF Membership
<1>9. role' # role => InitDatabase(s)
  BY DEF Start, Look, Stamp, StampCommit, Heads, Begin, Create, Commit, Migrated, Fail
<1>10. ~ (InitDatabase(s) /\ Commit(s))
  BY DEF InitDatabase, Commit
<1> QED BY <1>5, <1>7, <1>8, <1>9, <1>10

\* A request that is served alone writes what it has checked.
LEMMA MembershipServe ==
  ASSUME AccountTypes, Membership, Serve, UNCHANGED startVars
  PROVE  Membership'
<1> USE DEF AccountTypes
<1>1. /\ (\A s \in Starters : stage[s] \in {"init", "up"} => known[s] = Last)'
      /\ Reached' <=> Reached
  BY DEF Membership, startVars, Reached
<1>2. PICK t \in Threads :
        \/ UserRequest(t) \/ DropUserRequest(t) \/ ProjectRequest(t) \/ DropProjectRequest(t)
        \/ WriteUser(t) \/ DropUser(t) \/ WriteProject(t) \/ DropProject(t) \/ Refused(t)
  BY DEF Serve
<1>3. ASSUME NEW r, Receive(t, r),
             r.kind = "project" => \A u \in r.grants : u \in Users /\ role[u] = "operator",
             r.kind = "user" => /\ r.id \in Users
                                /\ r.grants # {} => r.new = "operator"
                                /\ r.was # "none" => role[r.id] = r.was
      PROVE  Membership'
  <2>1. UNCHANGED <<role, members>> /\ overlap' = (overlap \/ \E s \in Threads : req[s] # Idle)
    BY <1>3 DEF Receive
  <2>2. \A s \in Threads : req'[s] = IF s = t THEN r ELSE req[s]
    BY <1>3 DEF Receive
  <2>3. ~ overlap' => ~ overlap /\ \A s \in Threads : req[s] = Idle
    BY <2>1
  <2>4. QED
    BY <1>1, <1>3, <2>1, <2>2, <2>3, IdleKind DEF Membership
<1>4. CASE UserRequest(t)
  <2>1. PICK u \in Users, new \in Roles : \E grants \in ProjectIds(new) :
          Receive(t, [kind |-> "user", id |-> u, was |-> role[u], new |-> new,
                      grants |-> grants])
    BY <1>4 DEF UserRequest
  <2>2. PICK grants \in ProjectIds(new) :
          Receive(t, [kind |-> "user", id |-> u, was |-> role[u], new |-> new,
                      grants |-> grants])
    BY <2>1
  <2>3. grants # {} => new = "operator"
    BY DEF ProjectIds
  <2> DEFINE r == [kind |-> "user", id |-> u, was |-> role[u], new |-> new,
                   grants |-> grants]
  <2>4. /\ r.kind = "user" /\ r.id = u /\ r.was = role[u] /\ r.new = new
        /\ r.grants = grants /\ Receive(t, r)
    BY <2>2
  <2> HIDE DEF r
  <2>5. QED
    BY <1>3, <2>3, <2>4
<1>5. CASE ProjectRequest(t)
  <2>1. PICK p \in Projects : \E grants \in MemberIds :
          Receive(t, [kind |-> "project", id |-> p, create |-> p \notin projects,
                      grants |-> grants])
    BY <1>5 DEF ProjectRequest
  <2>2. PICK grants \in MemberIds :
          Receive(t, [kind |-> "project", id |-> p, create |-> p \notin projects,
                      grants |-> grants])
    BY <2>1
  <2>3. \A u \in grants : u \in Users /\ role[u] = "operator"
    BY DEF MemberIds
  <2> DEFINE r == [kind |-> "project", id |-> p, create |-> p \notin projects,
                   grants |-> grants]
  <2>4. r.kind = "project" /\ r.grants = grants /\ Receive(t, r)
    BY <2>2
  <2> HIDE DEF r
  <2>5. QED
    BY <1>3, <2>3, <2>4
<1>6. CASE DropUserRequest(t) \/ DropProjectRequest(t)
  BY <1>3, <1>6 DEF DropUserRequest, DropProjectRequest
<1>7. ASSUME req[t] # Idle, Done(t), \A m \in members' : m[2] \in Users,
             ~ overlap => (Reached => \A m \in members' : role'[m[2]] = "operator")
      PROVE  Membership'
  <2>1. ~ overlap => \A s \in Threads : s # t => req[s] = Idle
    BY <1>7 DEF Membership
  <2>2. overlap' = overlap /\ \A s \in Threads : req'[s] = IF s = t THEN Idle ELSE req[s]
    BY <1>7 DEF Done
  <2>3. QED
    BY <1>1, <1>7, <2>1, <2>2, IdleKind DEF Membership
<1>8. CASE Refused(t)
  BY <1>7, <1>8 DEF Refused, Membership
<1>9. CASE DropProject(t)
  BY <1>7, <1>9, IdleKind DEF DropProject, Membership
<1>10. CASE WriteProject(t)
  <2> DEFINE new == {req[t].id} \X req[t].grants
  <2>1. /\ req[t] # Idle /\ req[t].kind = "project" /\ Done(t) /\ role' = role
        /\ members' \subseteq members \cup new
        /\ \A u \in req[t].grants : Exists(u)
    BY <1>10, IdleKind DEF WriteProject
  <2>2. \A m \in new : m[2] \in req[t].grants
    OBVIOUS
  <2>3. \A m \in new : m[2] \in Users /\ (~ overlap => role[m[2]] = "operator")
    BY <2>1, <2>2 DEF Membership
  <2>4. QED
    BY <1>7, <2>1, <2>2, <2>3 DEF Membership
<1>11. CASE DropUser(t)
  <2>1. /\ req[t] # Idle /\ Done(t) /\ members' = members \ Of(req[t].id)
        /\ role' = [role EXCEPT ![req[t].id] = "none"]
    BY <1>11, IdleKind DEF DropUser
  <2>2. \A m \in members' : m \in members /\ m[2] # req[t].id
    BY <2>1 DEF Of
  <2>3. \A m \in members' : m[2] \in Users /\ role'[m[2]] = role[m[2]]
    BY <2>1, <2>2 DEF Membership
  <2>4. QED
    BY <1>7, <2>1, <2>2, <2>3 DEF Membership
<1>12. CASE WriteUser(t)
  <2> DEFINE r == req[t]
  <2>1. /\ r # Idle /\ r.kind = "user" /\ Done(t)
        /\ Exists(r.id) <=> r.was # "none"
        /\ members' = (members \ Of(r.id)) \cup (r.grants \X {r.id})
        /\ role' = IF r.new = r.was THEN role ELSE [role EXCEPT ![r.id] = r.new]
    BY <1>12, IdleKind DEF WriteUser, Synced
  <2>2. ASSUME NEW m \in members'
        PROVE  (m \in members /\ m[2] # r.id) \/ (m[2] = r.id /\ r.grants # {})
    BY <2>1 DEF Of
  <2>3. QED
    <3>1. r.id \in Users
      BY <2>1 DEF Membership
    <3>2. ~ overlap => /\ r.grants # {} => r.new = "operator"
                       /\ r.was # "none" => role[r.id] = r.was
      BY <2>1 DEF Membership
    <3>3. ASSUME NEW u \in Users, u # r.id PROVE role'[u] = role[u]
      BY <2>1, <3>3
    <3>4. ~ overlap /\ r.new = "operator" => role'[r.id] = "operator"
      BY <2>1, <3>1, <3>2
    <3>5. ~ overlap /\ Reached => \A m \in members' : role'[m[2]] = "operator"
      BY <2>2, <3>2, <3>3, <3>4 DEF Membership
    <3>6. \A m \in members' : m[2] \in Users
      BY <2>2, <3>1 DEF Membership
    <3>7. QED
      BY <1>7, <2>1, <3>5, <3>6
<1>13. QED
  BY <1>2, <1>4, <1>5, <1>6, <1>8, <1>9, <1>10, <1>11, <1>12

\* Starts, kills and requests keep the memberships' part.
LEMMA MembershipStep == SInv /\ AccountTypes /\ Membership /\ [Next]_vars => Membership'
<1>1. SUFFICES ASSUME SInv, AccountTypes, Membership, [Next]_vars PROVE Membership'
  OBVIOUS
<1>2. ASSUME NEW s \in Starters, Start(s) PROVE Membership'
  BY <1>1, <1>2, MembershipStart
<1>3. ASSUME NEW s \in Starters, Kill(s) PROVE Membership'
  <2>1. /\ UNCHANGED <<role, members, overlap, version, known, served>>
        /\ \A t \in Threads : req'[t] = req[t] \/ req'[t] = Idle
    BY <1>3 DEF Kill
  <2>2. \A r \in Starters : stage'[r] = stage[r] \/ stage'[r] = "off"
    BY <1>1, <1>3 DEF Kill, Go, SInv, StartTypes
  <2>3. Reached' => Reached
    BY <2>1, <2>2 DEF Reached
  <2>4. QED
    BY <1>1, <2>1, <2>2, <2>3, IdleKind DEF Membership
<1>4. CASE Serve /\ UNCHANGED startVars
  BY <1>1, <1>4, MembershipServe
<1>5. CASE UNCHANGED vars
  BY <1>1, <1>5 DEF vars, memberVars, startVars, Membership, Reached
<1>6. QED
  BY <1>1, <1>2, <1>3, <1>4, <1>5 DEF Next

\* Whatever memberships revision 5 found: once a process is up the members of
\* projects are operators, as long as requests do not overlap.
THEOREM OperatorsOnly == Spec => []MembersAreOperators
<1>1. Init => SInv /\ AccountTypes /\ Membership
  BY SchemaInitial, AccountsInitial, MembershipInitial DEF AInv
<1>2. SInv /\ AccountTypes /\ Membership /\ [Next]_vars =>
        SInv' /\ AccountTypes' /\ Membership'
  BY SchemaStep, AccountTypesStep, MembershipStep
<1>3. Membership => MembersAreOperators
  BY DEF Membership, Reached, MembersAreOperators
<1>4. QED
  BY <1>1, <1>2, <1>3, PTL DEF Spec

-----------------------------------------------------------------------------
(* Types.                                                                    *)

\* The strengthening: who is in a revision has one to apply.
Creating == \A s \in Starters : stage[s] = "revision" => known[s] < Last

\* Creating one thing leaves the rest of the revision.
LEMMA RestShrinks ==
  ASSUME NEW x \in Rest, x # <<>>
  PROVE  Tail(x) \in Rest /\ Head(x) \in Whole \cup Indexes \cup New
<1>1. /\ Head(InitialTables) = "users" /\ Tail(InitialTables) = <<"others">>
      /\ Head(NewTables) = "users_new" /\ Tail(NewTables) = <<"others_new">>
  BY DEF InitialTables, NewTables
<1>2. /\ Head(<<"others">>) = "others" /\ Tail(<<"others">>) = <<>>
      /\ Head(<<"others_new">>) = "others_new" /\ Tail(<<"others_new">>) = <<>>
  OBVIOUS
<1>3. {"users", "others", "users_new", "others_new", "state_version", "project_members",
       "ix_project_id", "ix_user_id"} \subseteq Whole \cup Indexes \cup New
  BY DEF Whole, Base, New, Indexes
<1>4. Rest = {<<>>, InitialTables, <<"others">>, NewTables, <<"others_new">>, VersionColumn,
              MemberTable, TwoIndexes, OneIndex}
  BY DEF Rest, TwoIndexes, OneIndex
<1> QED BY <1>1, <1>2, <1>3, <1>4, Creations

TInv == TypeOK /\ Creating

\* A system that has not been started is of its types.
LEMMA TypesInitial == Init => TInv
<1> SUFFICES ASSUME Init PROVE TInv
  OBVIOUS
<1> USE DEF Init
<1>1. have \subseteq Whole \cup Indexes \cup New /\ version \subseteq 1..Last
  <2>1. Base \cup {"state_version", "project_members"} \subseteq Whole
    BY DEF Whole
  <2>2. \A h \in 1..Last : Since(h) \subseteq Whole
    BY DEF Since, Whole
  <2> QED BY <2>1, <2>2 DEF Last
<1>2. role \in [Users -> Roles \cup {"none"}]
  OBVIOUS
<1>3. projects \subseteq Projects
  OBVIOUS
<1>4. \A m \in members : m[1] \in projects /\ m[2] \in Users /\ Exists(m[2])
  <2>1. CASE members = {}
    BY <2>1
  <2>2. CASE members # {}
    <3>1. have # {}
      BY <2>2
    <3>2. "users" \in have /\ "others" \in have
      <4>1. {"users", "others"} \subseteq Base
        BY DEF Base
      <4>2. ASSUME NEW h \in 1..Last PROVE Base \subseteq Since(h)
        <5>1. h >= 1
          BY DEF Last
        <5> QED BY <5>1 DEF Since
      <4> QED BY <3>1, <4>1, <4>2
    <3>3. members \subseteq Pairs
      BY <2>2
    <3>4. \A u \in Users : role[u] \in Roles
      BY <3>2
    <3>5. "none" \notin Roles
      BY DEF Roles
    <3> QED BY <3>2, <3>3, <3>4, <3>5 DEF Pairs, Exists
  <2> QED BY <2>1, <2>2
<1>5. req \in [Threads -> Request] /\ requests \in 0..MaxRequests
  BY RequestsAssumption DEF Request
<1>6. stage \in [Starters -> {"off"}] /\ known \in [Starters -> 0..Last]
  BY DEF Last
<1>7. todo \in [Starters -> Rest] /\ kills \in 0..MaxKills
  BY KillsAssumption DEF Rest
<1> QED BY <1>1, <1>2, <1>3, <1>4, <1>5, <1>6, <1>7 DEF TInv, TypeOK, MembersTypeOK, Creating

\* A start keeps the types: a revision that is through with its creations has
\* only its transaction left, which makes no user and no project.
LEMMA TypesStart ==
  ASSUME TInv, NEW s \in Starters, Start(s)
  PROVE  TInv'
<1> USE DEF TInv, TypeOK, MembersTypeOK, Go, Creating
<1>h. Last = 5 /\ version \subseteq 1..5 /\ known[s] \in 0..5
  BY DEF Last
\* What all of them leave alone, and what follows for each.
<1>a. /\ projects' = projects /\ req' = req /\ requests' = requests /\ overlap' = overlap
      /\ demoted' = demoted /\ kills' = kills /\ torn' = torn
      /\ cut' = cut /\ served' = served \cup {r \in {s} : stage'[r] = "up"}
  BY DEF Start
<1>b. served' \subseteq Starters
  BY <1>a
<1>g. ASSUME have' \subseteq Whole \cup Indexes \cup New, version' \subseteq 1..5,
             setBack' \in BOOLEAN,
             \E x \in {"off", "stamp", "stamped", "heads", "between", "revision", "init",
                       "up"} : stage' = [stage EXCEPT ![s] = x],
             \E k \in 0..5 : known' = [known EXCEPT ![s] = k],
             \E x \in Rest : todo' = [todo EXCEPT ![s] = x],
             stage'[s] = "revision" => known'[s] < 5,
             role' \in [Users -> Roles \cup {"none"}],
             \A m \in members' : m[1] \in projects /\ m[2] \in Users /\ role'[m[2]] # "none"
      PROVE  TInv'
  <2>1. stage' \in [Starters -> {"off", "stamp", "stamped", "heads", "between", "revision",
                                 "init", "up"}]
    BY <1>g
  <2>2. known' \in [Starters -> 0..5]
    BY <1>g, <1>h
  <2>3. todo' \in [Starters -> Rest]
    BY <1>g
  <2>4. Creating'
    BY <1>g, <1>h
  <2>5. MembersTypeOK'
    BY <1>a, <1>g DEF Exists
  <2> QED BY <1>a, <1>b, <1>g, <1>h, <2>1, <2>2, <2>3, <2>4, <2>5
<1>s. /\ stage = [stage EXCEPT ![s] = stage[s]] /\ known = [known EXCEPT ![s] = known[s]]
      /\ todo = [todo EXCEPT ![s] = todo[s]] /\ todo[s] \in Rest
  OBVIOUS
<1>m. \A m \in members : m[1] \in projects /\ m[2] \in Users /\ role[m[2]] # "none"
  BY DEF Exists
<1>f. ASSUME Fail(s) PROVE TInv'
  BY <1>f, <1>g, <1>h, <1>s, <1>m DEF Fail
<1>v. "alembic_version" \in Whole /\ "foreign keys" \in Whole /\ "unique" \in Whole
  BY DEF Whole
<1>1. CASE Look(s)
  BY <1>1, <1>g, <1>h, <1>s, <1>m DEF Look
<1>2. CASE Stamp(s)
  <2>1. PICK k \in {0, 1} \cup version : known' = [known EXCEPT ![s] = k]
    BY <1>2 DEF Stamp
  <2>2. k \in 0..5
    BY <1>h
  <2> QED BY <1>2, <1>g, <1>h, <1>s, <1>m, <1>v, <2>1, <2>2 DEF Stamp
<1>3. CASE StampCommit(s)
  <2>1. CASE known[s] = 1 /\ Go(s, "heads")
             /\ UNCHANGED <<have, version, known, todo, role, members, setBack>>
    BY <1>3, <1>g, <1>h, <1>s, <1>m, <2>1
  <2>2. CASE Fail(s)
    BY <1>f, <2>2
  <2>3. CASE /\ Write(known[s], 1) /\ Go(s, "heads")
             /\ UNCHANGED <<have, known, todo, role, members>>
    <3>1. setBack' \in BOOLEAN /\ version' = (version \ {known[s]}) \cup {1}
      BY <2>3 DEF Write
    <3>2. version' \subseteq 1..5
      <4>1. \A v \in version : v \in 1..5
        BY <1>h
      <4>2. 1 \in 1..5
        OBVIOUS
      <4> QED BY <3>1, <4>1, <4>2
    <3> QED BY <1>3, <1>g, <1>h, <1>s, <1>m, <2>3, <3>1, <3>2
  <2> QED BY <1>3, <2>1, <2>2, <2>3 DEF StampCommit
<1>4. CASE Heads(s)
  <2>1. CASE Fail(s)
    BY <1>f, <2>1
  <2>2. CASE ~ Fail(s)
    <3>1. PICK k \in {0} \cup version : known' = [known EXCEPT ![s] = k]
      BY <1>4, <2>2 DEF Heads
    <3>2. k \in 0..5
      BY <1>h
    <3>3. /\ have' = have \cup {"alembic_version"} /\ Go(s, "between")
          /\ UNCHANGED <<version, todo, role, members, setBack>>
      BY <1>4, <2>2 DEF Heads
    <3> QED BY <1>g, <1>h, <1>s, <1>m, <1>v, <3>1, <3>2, <3>3
  <2> QED BY <2>1, <2>2
<1>5. CASE Begin(s)
  <2>1. known[s] < 5 /\ known[s] + 1 \in {1, 2, 3, 4, 5}
    BY <1>5, <1>h DEF Begin
  <2>2. \A r \in {1, 2, 3, 4, 5} : Script[r] \in Rest
    BY DEF Script, Rest
  <2>3. Script[known[s] + 1] \in Rest /\ <<>> \in Rest
    BY <2>1, <2>2 DEF Rest
  <2>4. \E x \in Rest : todo' = [todo EXCEPT ![s] = x]
    BY <1>5, <2>3 DEF Begin
  <2> QED BY <1>5, <1>g, <1>h, <1>s, <1>m, <2>1, <2>4 DEF Begin
<1>6. CASE Create(s)
  <2>1. CASE Head(todo[s]) \in have
    BY <1>6, <1>f, <2>1 DEF Create
  <2>2. CASE Head(todo[s]) \notin have
    <3>1. todo[s] \in Rest /\ todo[s] # <<>> /\ known[s] < 5 /\ stage[s] = "revision"
      BY <1>6, <1>h DEF Create
    <3>2. Tail(todo[s]) \in Rest /\ Head(todo[s]) \in Whole \cup Indexes \cup New
      BY <3>1, RestShrinks
    <3>3. have' = have \cup {Head(todo[s])} /\ todo' = [todo EXCEPT ![s] = Tail(todo[s])]
      BY <1>6, <2>2 DEF Create
    <3>4. todo'[s] = Tail(todo[s])
      BY <3>3
    <3> QED BY <1>6, <1>g, <1>h, <1>s, <1>m, <2>2, <3>1, <3>2, <3>3, <3>4 DEF Create
  <2> QED BY <2>1, <2>2
<1>7. CASE Commit(s)
  <2>1. CASE ~ Writable(known[s], known[s] + 1)
    BY <1>7, <1>f, <2>1 DEF Commit
  <2>2. CASE Writable(known[s], known[s] + 1)
    <3>1. /\ Apply(known[s] + 1) /\ Write(known[s], known[s] + 1)
          /\ known' = [known EXCEPT ![s] = known[s] + 1]
          /\ stage' = [stage EXCEPT ![s] = "between"] /\ UNCHANGED <<todo, role>>
          /\ known[s] < 5
      BY <1>7, <1>h, <2>2 DEF Commit
    <3>2. have' \subseteq Whole \cup Indexes \cup New
      BY <1>h, <1>v, <3>1 DEF Apply, Rebuilt
    <3>3. \A m \in members' : m[1] \in projects /\ m[2] \in Users /\ role[m[2]] # "none"
      <4>1. members' \in {members, Granted}
        BY <3>1 DEF Apply
      <4>2. \A m \in Granted : m[1] \in projects /\ m[2] \in Users /\ role[m[2]] # "none"
        BY <1>m DEF Granted, Kept, Pairs
      <4> QED BY <1>m, <4>1, <4>2
    <3>4. known[s] + 1 \in 1..5 /\ known[s] + 1 \in 0..5
      BY <1>h, <3>1
    <3>5. version' \subseteq 1..5 /\ setBack' \in BOOLEAN /\ stage'[s] # "revision"
      BY <1>h, <3>1, <3>4 DEF Write
    <3>6. \E k \in 0..5 : known' = [known EXCEPT ![s] = k]
      BY <3>1, <3>4
    <3>7. \A m \in members' : m[1] \in projects /\ m[2] \in Users /\ role'[m[2]] # "none"
      BY <3>1, <3>3
    <3>8. role' \in [Users -> Roles \cup {"none"}] /\ todo' = [todo EXCEPT ![s] = todo[s]]
      BY <1>s, <3>1
    <3> QED BY <1>g, <1>s, <3>1, <3>2, <3>5, <3>6, <3>7, <3>8
  <2> QED BY <2>1, <2>2
<1>8. CASE Migrated(s)
  BY <1>8, <1>g, <1>h, <1>s, <1>m DEF Migrated
<1>9. CASE InitDatabase(s)
  <2>1. role' = role \/ role' = [role EXCEPT ![FirstAdmin] = "admin"]
    BY <1>9 DEF InitDatabase
  <2>2. role' \in [Users -> Roles \cup {"none"}]
    BY <2>1 DEF Roles
  <2>3. \A m \in members : m[1] \in projects /\ m[2] \in Users /\ role'[m[2]] # "none"
    BY <1>m, <2>1
  <2> QED BY <1>9, <1>g, <1>h, <1>s, <2>2, <2>3 DEF InitDatabase
<1> QED BY <1>1, <1>2, <1>3, <1>4, <1>5, <1>6, <1>7, <1>8, <1>9 DEF Start

\* What a request of a kind carries.
LEMMA RequestFields ==
  ASSUME NEW r \in Request
  PROVE  /\ r.kind = "user" => /\ r.id \in Users /\ r.new \in Roles
                               /\ r.was \in Roles \cup {"none"} /\ r.grants \subseteq Projects
         /\ r.kind = "drop user" => r.id \in Users
         /\ r.kind = "project" => r.id \in Projects /\ r.grants \subseteq Users
         /\ r.kind = "drop project" => r.id \in Projects
BY IdleKind DEF Request

\* A request keeps the foreign keys: what it deletes it detaches, and what it
\* attaches to is there.
LEMMA TypesServe ==
  ASSUME TInv, Serve, UNCHANGED startVars
  PROVE  TInv'
<1> USE DEF TInv, TypeOK, MembersTypeOK
<1>s. MembersTypeOK' => TInv'
  BY DEF startVars, Creating
<1> SUFFICES MembersTypeOK'
  BY <1>s
<1>k. "none" \notin Roles
  BY DEF Roles
<1>m. \A m \in members : m[1] \in projects /\ m[2] \in Users /\ role[m[2]] # "none"
  BY DEF Exists
<1>r. ASSUME NEW t \in Threads, NEW r \in Request, Receive(t, r)
      PROVE  MembersTypeOK'
  <2>1. requests' \in 0..MaxRequests
    BY <1>r, RequestsAssumption DEF Receive
  <2>2. req' \in [Threads -> Request] /\ overlap' \in BOOLEAN
    BY <1>r DEF Receive
  <2> QED BY <1>r, <2>1, <2>2 DEF Receive, Exists
<1>w. ASSUME NEW t \in Threads, Done(t), role' \in [Users -> Roles \cup {"none"}],
             projects' \subseteq Projects, demoted' \in BOOLEAN,
             \A m \in members' : m[1] \in projects' /\ m[2] \in Users /\ role'[m[2]] # "none"
      PROVE  MembersTypeOK'
  <2>1. req' \in [Threads -> Request]
    BY <1>w DEF Done, Request
  <2> QED BY <1>w, <2>1 DEF Done, Exists
<1>1. PICK t \in Threads :
        \/ UserRequest(t) \/ DropUserRequest(t) \/ ProjectRequest(t) \/ DropProjectRequest(t)
        \/ WriteUser(t) \/ DropUser(t) \/ WriteProject(t) \/ DropProject(t) \/ Refused(t)
  BY DEF Serve
<1>q. req[t] \in Request
  OBVIOUS
<1>2. CASE UserRequest(t)
  <2>1. PICK u \in Users, new \in Roles : \E grants \in ProjectIds(new) :
          Receive(t, [kind |-> "user", id |-> u, was |-> role[u], new |-> new,
                      grants |-> grants])
    BY <1>2 DEF UserRequest
  <2>2. ProjectIds(new) \subseteq SUBSET Projects
    BY DEF ProjectIds
  <2>3. role[u] \in Roles \cup {"none"}
    OBVIOUS
  <2>4. \A grants \in ProjectIds(new) :
          [kind |-> "user", id |-> u, was |-> role[u], new |-> new, grants |-> grants] \in Request
    BY <2>2, <2>3 DEF Request
  <2> QED BY <1>r, <2>1, <2>4
<1>3. CASE DropUserRequest(t) \/ DropProjectRequest(t)
  <2>1. \A u \in Users : [kind |-> "drop user", id |-> u] \in Request
    BY DEF Request
  <2>2. \A p \in projects : [kind |-> "drop project", id |-> p] \in Request
    BY DEF Request
  <2> QED BY <1>3, <1>r, <2>1, <2>2 DEF DropUserRequest, DropProjectRequest
<1>4. CASE ProjectRequest(t)
  <2>1. \A p \in Projects, grants \in MemberIds :
          [kind |-> "project", id |-> p, create |-> p \notin projects, grants |-> grants]
            \in Request
    BY DEF Request, MemberIds
  <2> QED BY <1>4, <1>r, <2>1 DEF ProjectRequest
<1>5. CASE WriteUser(t)
  <2> DEFINE r == req[t]
  <2>1. /\ r.id \in Users /\ r.new \in Roles /\ r.grants \subseteq projects
        /\ role' = (IF r.new = r.was THEN role ELSE [role EXCEPT ![r.id] = r.new])
        /\ members' = Synced(r.id, r.grants)
        /\ role[r.id] # "none" <=> r.was # "none"
        /\ projects' = projects /\ Done(t)
    BY <1>5, <1>q, RequestFields DEF WriteUser, Exists
  <2>2. demoted' \in BOOLEAN
    BY <1>5 DEF WriteUser
  <2> HIDE DEF r
  <2>3. role' \in [Users -> Roles \cup {"none"}] /\ role'[r.id] # "none"
    BY <1>k, <2>1
  <2>4. \A m \in members' : m[1] \in projects /\ m[2] \in Users /\ role'[m[2]] # "none"
    <3> SUFFICES ASSUME NEW m \in members'
                 PROVE  m[1] \in projects /\ m[2] \in Users /\ role'[m[2]] # "none"
      OBVIOUS
    <3>1. CASE m \in members \ Of(r.id)
      <4>1. m[2] # r.id /\ m \in members
        BY <3>1 DEF Of
      <4> QED BY <1>m, <2>1, <4>1
    <3>2. CASE m \in r.grants \X {r.id}
      BY <2>1, <2>3, <3>2
    <3> QED BY <2>1, <3>1, <3>2 DEF Synced
  <2> QED BY <1>w, <2>1, <2>2, <2>3, <2>4
<1>6. CASE DropUser(t)
  <2> DEFINE u == req[t].id
  <2>1. /\ u \in Users /\ role' = [role EXCEPT ![u] = "none"] /\ members' = members \ Of(u)
        /\ UNCHANGED <<projects, demoted>> /\ Done(t)
    BY <1>6, <1>q, RequestFields DEF DropUser
  <2> HIDE DEF u
  <2>2. \A m \in members' : m[1] \in projects /\ m[2] \in Users /\ role'[m[2]] # "none"
    BY <1>m, <2>1 DEF Of
  <2> QED BY <1>w, <2>1, <2>2
<1>7. CASE WriteProject(t)
  <2> DEFINE r == req[t]
  <2>1. /\ r.id \in Projects /\ r.grants \subseteq Users /\ \A u \in r.grants : role[u] # "none"
        /\ projects' = projects \cup {r.id}
        /\ members' = (members \ Within(r.id)) \cup ({r.id} \X r.grants)
        /\ UNCHANGED <<role, demoted>> /\ Done(t)
    BY <1>7, <1>q, RequestFields DEF WriteProject, Exists
  <2> HIDE DEF r
  <2>2. \A m \in members' : m[1] \in projects' /\ m[2] \in Users /\ role'[m[2]] # "none"
    BY <1>m, <2>1
  <2> QED BY <1>w, <2>1, <2>2
<1>8. CASE DropProject(t)
  <2> DEFINE p == req[t].id
  <2>1. /\ projects' = projects \ {p} /\ members' = members \ Within(p)
        /\ UNCHANGED <<role, demoted>> /\ Done(t)
    BY <1>8 DEF DropProject
  <2> HIDE DEF p
  <2>2. \A m \in members' : m[1] \in projects' /\ m[2] \in Users /\ role'[m[2]] # "none"
    BY <1>m, <2>1 DEF Within
  <2> QED BY <1>w, <2>1, <2>2
<1>9. CASE Refused(t)
  BY <1>9, <1>m, <1>w DEF Refused
<1> QED BY <1>1, <1>2, <1>3, <1>4, <1>5, <1>6, <1>7, <1>8, <1>9

\* TInv is inductive.
LEMMA TypesStep == TInv /\ [Next]_vars => TInv'
<1> SUFFICES ASSUME TInv, [Next]_vars PROVE TInv'
  OBVIOUS
<1>1. ASSUME NEW s \in Starters, Start(s) PROVE TInv'
  BY <1>1, TypesStart
<1>2. ASSUME NEW s \in Starters, Kill(s) PROVE TInv'
  <2> USE DEF TInv, TypeOK, Creating, Kill, Go
  <2>1. kills' \in 0..MaxKills
    BY <1>2, KillsAssumption
  <2>2. req' \in [Threads -> Request]
    BY <1>2 DEF MembersTypeOK, Request
  <2>3. MembersTypeOK'
    BY <1>2, <2>2 DEF MembersTypeOK, Exists
  <2>4. stage' \in [Starters -> {"off", "stamp", "stamped", "heads", "between", "revision",
                                 "init", "up"}]
    BY <1>2
  <2>5. torn' \in BOOLEAN /\ cut' \in BOOLEAN
    BY <1>2
  <2>6. Creating'
    BY <1>2
  <2> QED BY <1>2, <2>1, <2>3, <2>4, <2>5, <2>6
<1>3. CASE Serve /\ UNCHANGED startVars
  BY <1>3, TypesServe
<1>4. CASE UNCHANGED vars
  BY <1>4 DEF vars, memberVars, startVars, TInv, TypeOK, MembersTypeOK, Exists, Creating
<1> QED BY <1>1, <1>2, <1>3, <1>4 DEF Next

\* The type invariant, with the foreign keys of the memberships in it: whatever
\* requests, starts and kills do, a membership is of a project and a user that
\* are there, and no start creates what is not of the schema.
THEOREM StartupTypes == Spec => []TypeOK
<1>1. TInv => TypeOK
  BY DEF TInv
<1> QED BY <1>1, TypesInitial, TypesStep, PTL DEF Spec

-----------------------------------------------------------------------------
(* The indexes of the memberships.                                           *)

\* What is left of a revision is of the indexes after its table, or of others.
LEMMA Parts ==
  /\ Elems(TwoIndexes) = Indexes /\ Elems(OneIndex) = {"ix_user_id"}
  /\ \A x \in Rest :
       x \in {TwoIndexes, OneIndex} <=> "project_members" \notin Elems(x)
                                          /\ Elems(x) \cap Indexes # {}
<1>1. DOMAIN <<>> = {} /\ DOMAIN OneIndex = {1} /\ DOMAIN VersionColumn = {1}
      /\ DOMAIN <<"others">> = {1} /\ DOMAIN <<"others_new">> = {1}
      /\ DOMAIN InitialTables = {1, 2} /\ DOMAIN NewTables = {1, 2} /\ DOMAIN TwoIndexes = {1, 2}
      /\ DOMAIN MemberTable = {1, 2, 3}
  BY DEF OneIndex, TwoIndexes, VersionColumn, InitialTables, NewTables, MemberTable
<1>2. Elems(TwoIndexes) = Indexes /\ Elems(OneIndex) = {"ix_user_id"}
  BY <1>1 DEF Elems, TwoIndexes, OneIndex, Indexes
<1>3. "project_members" \in Elems(MemberTable)
  BY <1>1 DEF Elems, MemberTable
<1>4. /\ Elems(<<>>) = {} /\ Elems(VersionColumn) = {"state_version"}
      /\ Elems(<<"others">>) = {"others"} /\ Elems(<<"others_new">>) = {"others_new"}
      /\ Elems(InitialTables) = {"users", "others"}
      /\ Elems(NewTables) = {"users_new", "others_new"}
  BY <1>1 DEF Elems, VersionColumn, InitialTables, NewTables
<1>5. Rest = {<<>>, InitialTables, <<"others">>, NewTables, <<"others_new">>, VersionColumn,
              MemberTable, TwoIndexes, OneIndex}
  BY DEF Rest, TwoIndexes, OneIndex
<1> QED BY <1>2, <1>3, <1>4, <1>5 DEF Indexes

\* What is left after one creation is of the indexes alone if that was the table
\* or one of them.
LEMMA PartsShrink ==
  /\ \A x \in Rest \ {<<>>, MemberTable, TwoIndexes} : Tail(x) \notin {TwoIndexes, OneIndex}
  /\ \A x \in Rest \ {<<>>, MemberTable, TwoIndexes, OneIndex} :
       Head(x) \notin Indexes \cup {"project_members"}
<1>1. /\ Head(NewTables) = "users_new" /\ Tail(NewTables) = <<"others_new">>
      /\ Head(<<"others_new">>) = "others_new" /\ Tail(<<"others_new">>) = <<>>
      /\ {<<>>, <<"others">>, <<"others_new">>} \cap {TwoIndexes, OneIndex} = {}
  BY DEF NewTables, TwoIndexes, OneIndex
<1>2. Rest = {<<>>, InitialTables, <<"others">>, NewTables, <<"others_new">>, VersionColumn,
              MemberTable, TwoIndexes, OneIndex}
  BY DEF Rest, TwoIndexes, OneIndex
<1> QED BY <1>1, <1>2, Creations DEF Indexes

\* No revision begins among the indexes.
LEMMA ScriptsBegin == \A r \in 1..5 : Script[r] \notin {TwoIndexes, OneIndex}
<1>1. \A r \in {1, 2, 3, 4, 5} : Script[r] \notin {TwoIndexes, OneIndex}
  BY DEF Script, InitialTables, NewTables, VersionColumn, MemberTable, TwoIndexes, OneIndex
<1> QED BY <1>1

\* A database that is found has the table with its indexes, or neither.
LEMMA IndexingInitial == Init => Indexing
<1> SUFFICES ASSUME Init PROVE Indexing
  OBVIOUS
<1>1. \A s \in Starters : ~ Owes(s)
  BY DEF Init, Owes
<1>2. "project_members" \in have => Indexes \subseteq have
  <2> SUFFICES ASSUME "project_members" \in have PROVE Indexes \subseteq have
    OBVIOUS
  <2>1. CASE \E h \in 1..Last : have = Since(h) \cup (IF h >= 4 THEN Indexes ELSE {})
    <3>1. PICK h \in 1..Last : have = Since(h) \cup (IF h >= 4 THEN Indexes ELSE {})
      BY <2>1
    <3>2. "project_members" \in Since(h) => h >= 4
      BY DEF Since, Base
    <3>3. "project_members" \notin Indexes
      BY DEF Indexes
    <3>4. h >= 4
      BY <3>1, <3>2, <3>3
    <3> QED BY <3>1, <3>4
  <2>2. CASE have \in {{}, Base, Base \cup Indexes \cup {"state_version", "project_members"}}
    BY <2>2 DEF Base
  <2> QED BY <2>1, <2>2 DEF Init
<1>3. "project_members" \notin have => Indexes \cap have = {}
  BY DEF Init, Since, Base, Indexes
<1> QED BY <1>1, <1>2, <1>3 DEF Indexing

\* A step that begins, creates and leaves none of them.
LEMMA IndexingKept ==
  ASSUME Indexing, cut' = cut,
         \A x \in Indexes \cup {"project_members"} : x \in have' <=> x \in have,
         \A r \in Starters : /\ Owes(r)' <=> Owes(r)
                             /\ Owes(r) => todo'[r] = todo[r]
  PROVE  Indexing'
<1>1. \A r \in Starters : Owes(r) => Left(r)' = Left(r) /\ Left(r) \subseteq Indexes
  BY Parts DEF Owes, Left, Elems, Indexes
<1> QED BY <1>1 DEF Indexing

\* Each step of a starter keeps the indexes accounted for.
LEMMA IndexingStart ==
  ASSUME TInv, Indexing, NEW s \in Starters, Start(s)
  PROVE  Indexing'
<1> USE DEF Go
<1>1. /\ DOMAIN stage = Starters /\ DOMAIN todo = Starters /\ cut' = cut
      /\ todo[s] \in Rest /\ known[s] \in 0..5 /\ Last = 5
  BY DEF TInv, TypeOK, Start, Last
<1>2. CASE Look(s) \/ Stamp(s) \/ StampCommit(s) \/ Heads(s) \/ Migrated(s) \/ InitDatabase(s)
  <2>1. /\ todo' = todo /\ have' \in {have, have \cup {"alembic_version"}}
        /\ stage[s] # "revision" /\ \E x \in {"off", "stamp", "stamped", "heads", "between",
                                              "init", "up"} : stage' = [stage EXCEPT ![s] = x]
    BY <1>2 DEF Look, Stamp, StampCommit, Heads, Migrated, InitDatabase, Fail
  <2>2. \A r \in Starters : Owes(r)' <=> Owes(r)
    BY <1>1, <2>1 DEF Owes
  <2> QED BY <1>1, <2>1, <2>2, IndexingKept DEF Indexes
<1>3. CASE Begin(s)
  <2>1. /\ have' = have /\ stage[s] = "between" /\ stage' = [stage EXCEPT ![s] = "revision"]
        /\ known[s] + 1 \in 1..5
        /\ todo' = [todo EXCEPT ![s] = todo'[s]]
        /\ todo'[s] \in {<<>>, Script[known[s] + 1]}
    BY <1>1, <1>3 DEF Begin
  <2>2. todo'[s] \notin {TwoIndexes, OneIndex}
    <3>1. <<>> \notin {TwoIndexes, OneIndex}
      BY DEF TwoIndexes, OneIndex
    <3>2. Script[known[s] + 1] \notin {TwoIndexes, OneIndex}
      BY <2>1, ScriptsBegin
    <3> QED BY <2>1, <3>1, <3>2
  <2>3. \A r \in Starters : /\ Owes(r)' <=> Owes(r)
                            /\ Owes(r) => todo'[r] = todo[r]
    BY <1>1, <2>1, <2>2 DEF Owes
  <2> QED BY <1>1, <2>1, <2>3, IndexingKept
<1>4. CASE Commit(s)
  <2>1. /\ todo' = todo /\ todo[s] = <<>>
        /\ \E x \in {"off", "between"} : stage' = [stage EXCEPT ![s] = x]
        /\ have' \in {have, Rebuilt, have \cup {"unique"}}
    BY <1>4 DEF Commit, Fail, Apply
  <2>2. \A r \in Starters : Owes(r)' <=> Owes(r)
    BY <1>1, <2>1 DEF Owes, TwoIndexes, OneIndex
  <2>3. \A x \in Indexes \cup {"project_members"} : x \in have' <=> x \in have
    BY <2>1 DEF Rebuilt, Indexes, New
  <2> QED BY <1>1, <2>1, <2>2, <2>3, IndexingKept
<1>5. CASE Create(s)
  <2> DEFINE x == todo[s]
  <2>1. stage[s] = "revision" /\ x # <<>> /\ x \in Rest
    BY <1>1, <1>5 DEF Create
  <2>2. CASE Head(x) \in have
    <3>1. ~ Owes(s)
      <4> SUFFICES ASSUME Owes(s) PROVE FALSE
        OBVIOUS
      <4>1. x \in {TwoIndexes, OneIndex} /\ Elems(x) \cap have = {}
        BY <2>1 DEF Indexing, Owes, Left, Elems
      <4> HIDE DEF x
      <4>2. Head(x) \in Elems(x)
        BY <4>1, Creations, Parts DEF Indexes
      <4> QED BY <2>2, <4>1, <4>2
    <3>2. /\ have' = have /\ todo' = todo /\ stage' = [stage EXCEPT ![s] = "off"]
      BY <1>5, <2>2 DEF Create, Fail
    <3>3. \A r \in Starters : Owes(r)' <=> Owes(r)
      BY <1>1, <3>1, <3>2 DEF Owes
    <3> QED BY <1>1, <3>2, <3>3, IndexingKept
  <2>3. CASE Head(x) \notin have
    <3>1. /\ have' = have \cup {Head(x)} /\ todo' = [todo EXCEPT ![s] = Tail(x)]
          /\ stage' = stage
      BY <1>5, <2>3 DEF Create
    <3>2. \A r \in Starters \ {s} : /\ Owes(r)' <=> Owes(r)
                                    /\ Left(r)' = Left(r)
      BY <1>1, <3>1 DEF Owes, Left
    <3>3. Owes(s)' <=> Tail(x) \in {TwoIndexes, OneIndex}
      BY <1>1, <2>1, <3>1 DEF Owes
    <3>4. Left(s)' = Elems(Tail(x)) /\ Left(s) = Elems(x)
      BY <1>1, <2>1, <3>1 DEF Left, Elems
    <3> HIDE DEF x
    <3>5. CASE x = MemberTable
      <4>1. /\ have' = have \cup {"project_members"} /\ "project_members" \notin have
            /\ Owes(s)' /\ Left(s)' = Indexes
        BY <2>3, <3>1, <3>3, <3>4, <3>5, Creations, Parts
      <4>2. (\A r \in Starters : ~ Owes(r)) /\ Indexes \cap have = {}
        BY <4>1 DEF Indexing
      <4>3. (\A r \in Starters : ~ Owes(r) \/ r = s)' /\ Indexes \cap have' = {}
        BY <3>2, <4>1, <4>2 DEF Indexes
      <4> QED BY <4>1, <4>3 DEF Indexing
    <3>6. CASE x \in {TwoIndexes, OneIndex}
      <4>1. Owes(s) /\ "project_members" \in have /\ \A r \in Starters : Owes(r) => r = s
        BY <2>1, <3>6 DEF Indexing, Owes, x
      <4>2. \A r \in Starters : Owes(r)' => r = s
        BY <3>2, <4>1
      <4>3. /\ Left(s) \subseteq Left(s)' \cup {Head(x)} /\ Head(x) \notin Left(s)'
            /\ Left(s)' \subseteq Left(s)
            /\ Owes(s)' \/ Left(s)' = {}
        <5>1. Elems(<<>>) = {}
          BY DEF Elems
        <5>2. CASE x = TwoIndexes
          <6>1. Left(s) = Indexes /\ Left(s)' = {"ix_user_id"} /\ Head(x) = "ix_project_id"
            BY <3>4, <5>2, Creations, Parts
          <6>2. Owes(s)'
            BY <3>3, <5>2, Creations
          <6> QED BY <6>1, <6>2 DEF Indexes
        <5>3. CASE x = OneIndex
          BY <3>3, <3>4, <5>1, <5>3, Creations, Parts
        <5> QED BY <3>6, <5>2, <5>3
      <4>4. Owes(s)' => Left(s)' \cap have' = {}
        BY <3>1, <4>1, <4>3 DEF Indexing
      <4>5. ~ cut => \A i \in Indexes : i \in have \/ i \in Left(s)
        BY <4>1 DEF Indexing
      <4>6. ~ cut => \A i \in Indexes : i \in have' \/ (Owes(s)' /\ i \in Left(s)')
        <5>1. ~ cut => \A i \in Indexes : i \in have' \/ i \in Left(s)'
          <6> SUFFICES ASSUME ~ cut, NEW i \in Indexes PROVE i \in have' \/ i \in Left(s)'
            OBVIOUS
          <6>1. i \in have \/ i \in Left(s)
            BY <4>5
          <6>2. i \in Left(s) => i = Head(x) \/ i \in Left(s)'
            BY <4>3
          <6> QED BY <3>1, <6>1, <6>2
        <5>2. CASE Owes(s)'
          BY <5>1, <5>2
        <5>3. CASE Left(s)' = {}
          BY <5>1, <5>3
        <5> QED BY <4>3, <5>2, <5>3
      <4> QED BY <1>1, <3>1, <4>1, <4>2, <4>4, <4>6 DEF Indexing
    <3>7. CASE x \notin {MemberTable, TwoIndexes, OneIndex}
      <4>1. Head(x) \notin Indexes \cup {"project_members"} /\ ~ Owes(s)'
        BY <2>1, <3>3, <3>7, PartsShrink
      <4>2. ~ Owes(s)
        BY <3>7 DEF Owes, x
      <4>3. \A r \in Starters : /\ Owes(r)' <=> Owes(r)
                                /\ Owes(r) => todo'[r] = todo[r]
        BY <1>1, <3>1, <3>2, <4>1, <4>2
      <4> QED BY <1>1, <3>1, <4>1, <4>3, IndexingKept
    <3> QED BY <3>5, <3>6, <3>7
  <2> QED BY <2>2, <2>3
<1> QED BY <1>2, <1>3, <1>4, <1>5 DEF Start

\* A kill between the table and the last of its indexes is a cut.
LEMMA IndexingKill ==
  ASSUME TInv, Indexing, NEW s \in Starters, Kill(s)
  PROVE  Indexing'
<1>1. /\ DOMAIN stage = Starters /\ todo[s] \in Rest /\ cut \in BOOLEAN
      /\ UNCHANGED <<have, todo>> /\ stage' = [stage EXCEPT ![s] = "off"]
  BY DEF TInv, TypeOK, Kill, Go
<1>2. Owes(s) => cut'
  BY <1>1, Parts DEF Kill, Owes, Left, Elems
<1>3. \A r \in Starters \ {s} : (Owes(r)' <=> Owes(r)) /\ Left(r)' = Left(r)
  BY <1>1 DEF Owes, Left
<1>4. ~ Owes(s)'
  BY <1>1 DEF Owes
<1>5. cut => cut'
  BY DEF Kill
<1> QED BY <1>1, <1>2, <1>3, <1>4, <1>5 DEF Indexing

\* Indexing is inductive.
LEMMA IndexingStep == TInv /\ Indexing /\ [Next]_vars => Indexing'
<1> SUFFICES ASSUME TInv, Indexing, [Next]_vars PROVE Indexing'
  OBVIOUS
<1>1. ASSUME NEW s \in Starters, Start(s) PROVE Indexing'
  BY <1>1, IndexingStart
<1>2. ASSUME NEW s \in Starters, Kill(s) PROVE Indexing'
  BY <1>2, IndexingKill
<1>3. CASE UNCHANGED startVars
  BY <1>3 DEF startVars, Indexing, Owes, Left
<1>4. CASE UNCHANGED vars
  BY <1>3, <1>4 DEF vars, startVars
<1> QED BY <1>1, <1>2, <1>3, <1>4 DEF Next

\* A process that is up, with any number of starters in any order and whatever
\* kills: it finds the schema of the last revision, unless a late stamp set the
\* version back, and the indexes of the memberships there or on their way, unless
\* a kill has cut revision 4 short.
THEOREM WholeSchema == Spec => []SchemaWhole
<1>1. SInv /\ Indexing => SchemaWhole
  <2> SUFFICES ASSUME SInv, Indexing, NEW s \in Starters, stage[s] = "up", ~ setBack
               PROVE  /\ version = {Last} /\ Whole \subseteq have
                      /\ cut \/ Indexes \subseteq have \cup UNION {Left(r) : r \in Starters}
    BY DEF SchemaWhole
  <2>1. known[s] = 5 /\ version \subseteq 1..5
        /\ (\A v, w \in version : v = w) /\ \E v \in version : 5 <= v
    BY DEF SInv, StartTypes, Schema, Place, Last
  <2>2. PICK v \in version : v = 5
    BY <2>1
  <2>3. version = {Last} /\ Since(5) \subseteq have
    BY <2>1, <2>2 DEF SInv, Schema, Last
  <2>4. Whole \subseteq have
    BY <2>3, SinceEach DEF Whole
  <2>5. "project_members" \in have
    BY <2>3, SinceEach
  <2>6. cut \/ Indexes \subseteq have \cup UNION {Left(r) : r \in Starters}
    BY <2>5 DEF Indexing
  <2> QED BY <2>3, <2>4, <2>6
<1> QED BY <1>1, SchemaInvariance, TypesInitial, TypesStep, IndexingInitial, IndexingStep,
           PTL DEF Spec
=============================================================================
