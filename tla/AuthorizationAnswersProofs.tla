--------------------- MODULE AuthorizationAnswersProofs ---------------------
(***************************************************************************)
(* A request that met at most one change is answered as in one state of    *)
(* the tables (AnswersOneState of Authorization), for any tables, any      *)
(* number of requests and of changes.                                      *)
(*                                                                         *)
(* The argument: a change that only adds links, or only removes them,      *)
(* leaves the answer between those of the two states, which the theorems   *)
(* of AuthorizationProofs bound it by.  Any other change replaces one      *)
(* column of one row.  What a walk knows agrees with the state before it   *)
(* as long as no query has asked for that column; the query that does      *)
(* makes it agree with the state after it.  The operations of a permission *)
(* are the only ones asked for twice, and they are overwritten.            *)
(***************************************************************************)
EXTENDS AuthorizationProofs, FiniteSetTheorems

-----------------------------------------------------------------------------
(***************************************************************************)
(* Two states that differ in one column                                    *)
(***************************************************************************)
\* Agreement is about the links that the queries made so far have shown.
LEMMA RolesCarry ==
    ASSUME NEW q \in Walking, NEW G, NEW H, RolesAgree(q, G),
           q.phase = "arrived" \/
             \A r \in Role : <<q.user, r>> \in G <=> <<q.user, r>> \in H,
           \A x \in Loaded(q), r \in Role : <<x, r>> \in G <=> <<x, r>> \in H
    PROVE  RolesAgree(q, H)
<1>1. CASE q.phase = "arrived"
  BY <1>1 DEF RolesAgree, Loaded
<1>2. CASE q.phase # "arrived"
  <2>1. \A r \in Role : <<q.user, r>> \in G <=> <<q.user, r>> \in H
    BY <1>2
  <2>2. \A S \in SUBSET Role : ClosedFor(q, H, S) => ClosedFor(q, G, S)
    BY <2>1 DEF ClosedFor
  <2> QED BY <1>2, <2>1, <2>2 DEF RolesAgree
<1> QED BY <1>1, <1>2

LEMMA HeldCarry ==
    ASSUME NEW q \in Walking, NEW G, NEW H, HeldAgree(q, G),
           \A x \in Listed(q), p \in Permission :
             <<x, p>> \in G <=> <<x, p>> \in H
    PROVE  HeldAgree(q, H)
BY DEF HeldAgree, Walking

LEMMA CoversCarry ==
    ASSUME NEW q \in Walking, NEW G \in SUBSET Link, NEW H \in SUBSET Link,
           NEW P, CoversAgree(q, G, P),
           \A l \in Link : l[1] \in q.held /\ l[1] \notin P
                             => (l \in G <=> l \in H)
    PROVE  CoversAgree(q, H, P)
BY DEF CoversAgree

\* Where two states that differ in column k are the same.
LEMMA SameRoles ==
    ASSUME NEW G, NEW H, NEW k \in Columns, Apart(G, H, k[1], k[2]),
           NEW x \in User \union Role, k # <<x, Role>>, NEW r \in Role
    PROVE  <<x, r>> \in G <=> <<x, r>> \in H
<1>1. <<x, r>> \in Link
  BY DEF Link
<1>2. k[1] # x \/ r \notin k[2]
  BY DisjointAssumption DEF Columns
<1> QED BY <1>1, <1>2 DEF Apart

LEMMA SamePermissions ==
    ASSUME NEW G, NEW H, NEW k \in Columns, Apart(G, H, k[1], k[2]),
           NEW x \in Role, k # <<x, Permission>>, NEW p \in Permission
    PROVE  <<x, p>> \in G <=> <<x, p>> \in H
<1>1. <<x, p>> \in Link
  BY DEF Link
<1>2. k[1] # x \/ p \notin k[2]
  BY DisjointAssumption DEF Columns
<1> QED BY <1>1, <1>2 DEF Apart

LEMMA SameOperations ==
    ASSUME NEW G, NEW H, NEW k \in Columns, Apart(G, H, k[1], k[2]),
           NEW l \in Link, l[1] \in Permission, k # <<l[1], Operation>>
    PROVE  l \in G <=> l \in H
<1>1. k[1] # l[1]
  BY DisjointAssumption DEF Columns
<1> QED BY <1>1 DEF Apart

\* Agreement with G is agreement with H as long as no query has asked for
\* the column in which they differ.
LEMMA RolesUndisturbed ==
    ASSUME NEW q \in Walking, NEW G, NEW H, NEW k \in Columns,
           Apart(G, H, k[1], k[2]), RolesAgree(q, G),
           \A x \in {q.user} \union Loaded(q) : k # <<x, Role>>
    PROVE  RolesAgree(q, H)
<1>1. {q.user} \union Loaded(q) \subseteq User \union Role
  BY DEF Walking, Loaded
<1>2. ASSUME NEW x \in {q.user} \union Loaded(q), NEW r \in Role
      PROVE  <<x, r>> \in G <=> <<x, r>> \in H
  <2>1. x \in User \union Role /\ k # <<x, Role>>
    BY <1>1
  <2> QED BY <2>1, SameRoles
<1> QED BY <1>2, RolesCarry

LEMMA HeldUndisturbed ==
    ASSUME NEW q \in Walking, NEW G, NEW H, NEW k \in Columns,
           Apart(G, H, k[1], k[2]), HeldAgree(q, G),
           \A x \in Listed(q) : k # <<x, Permission>>
    PROVE  HeldAgree(q, H)
<1>1. Listed(q) \subseteq Role
  BY DEF Walking, Listed
<1>2. ASSUME NEW x \in Listed(q), NEW p \in Permission
      PROVE  <<x, p>> \in G <=> <<x, p>> \in H
  <2>1. x \in Role /\ k # <<x, Permission>>
    BY <1>1
  <2> QED BY <2>1, SamePermissions
<1> QED BY <1>2, HeldCarry

LEMMA CoversUndisturbed ==
    ASSUME NEW q \in Walking, NEW G \in SUBSET Link, NEW H \in SUBSET Link,
           NEW k \in Columns, Apart(G, H, k[1], k[2]),
           NEW P, CoversAgree(q, G, P),
           \A x \in q.held : x \notin P => k # <<x, Operation>>
    PROVE  CoversAgree(q, H, P)
<1>1. ASSUME NEW l \in Link, l[1] \in q.held, l[1] \notin P
      PROVE  l \in G <=> l \in H
  <2>1. l[1] \in Permission /\ k # <<l[1], Operation>>
    BY <1>1 DEF Walking
  <2> QED BY <2>1, SameOperations
<1> QED BY <1>1, CoversCarry

LEMMA ApartSymmetric ==
    ASSUME NEW G, NEW H, NEW n, NEW K, Apart(G, H, n, K)
    PROVE  Apart(H, G, n, K)
BY DEF Apart

\* A state is apart from itself.
LEMMA NotApart ==
    ASSUME NEW G
    PROVE  \E k \in Columns : Apart(G, G, k[1], k[2])
<1>1. <<admin, Role>> \in Columns
  BY AdminAssumption DEF Columns
<1> QED BY <1>1 DEF Apart

-----------------------------------------------------------------------------
(***************************************************************************)
(* What each query of the walk adds                                        *)
(***************************************************************************)
RolesAdded(q, G) == [q EXCEPT !.phase = "roles", !.todo = Targets(q.user, G)]

RoleLoaded(q, r) ==
    [q EXCEPT !.phase = "permissions", !.current = r,
              !.todo = @ \ {r}, !.visited = @ \union {r}]

PermissionsOf(q, G) == Targets(q.current, G) \intersect Permission

PermissionsAdded(q, G) ==
    LET P == PermissionsOf(q, G)
    IN  [q EXCEPT !.phase = "parents",
                  !.held = @ \union P,
                  !.covers = {c \in @ : c[1] \notin P}
                             \union {l \in G : l[1] \in P}]

ParentsAdded(q, G) ==
    [q EXCEPT !.phase = "roles",
              !.todo = @ \union {p \in Role : <<q.current, p>> \in G}]

\* On the state it agrees with, a query keeps a walk in agreement.
LEMMA RolesAgreed ==
    ASSUME NEW q \in Walking, NEW G \in SUBSET Link, AgreesWith(q, G),
           q.phase = "arrived"
    PROVE  AgreesWith(RolesAdded(q, G), G)
<1> DEFINE p == RolesAdded(q, G)
<1>1. /\ p.phase = "roles" /\ p.todo = Targets(q.user, G) /\ p.user = q.user
      /\ p.visited = q.visited /\ p.held = q.held /\ p.covers = q.covers
      /\ p.current = q.current
  BY DEF Walking, RolesAdded
<1> HIDE DEF p
<1>2. q.visited = {} /\ q.held = {}
  BY DEF AgreesWith, RolesAgree
<1>3. Loaded(p) = {} /\ Listed(p) = {}
  BY <1>1, <1>2 DEF Loaded, Listed
<1>4. Targets(q.user, G) = {r \in Role : <<q.user, r>> \in G}
  BY DisjointAssumption DEF Targets, Link, Walking, Row
<1>5. RolesAgree(p, G)
  BY <1>1, <1>2, <1>3, <1>4 DEF RolesAgree, ClosedFor
<1>6. HeldAgree(p, G)
  BY <1>1, <1>2, <1>3 DEF HeldAgree
<1>7. CoversAgree(p, G, {})
  BY <1>1 DEF AgreesWith, CoversAgree
<1> QED BY <1>5, <1>6, <1>7 DEF AgreesWith, p

LEMMA PermissionsAgreed ==
    ASSUME NEW q \in Walking, NEW G \in SUBSET Link, q.phase = "permissions",
           RolesAgree(q, G), HeldAgree(q, G),
           CoversAgree(q, G, PermissionsOf(q, G))
    PROVE  AgreesWith(PermissionsAdded(q, G), G)
<1> DEFINE P == PermissionsOf(q, G)
           C == {c \in q.covers : c[1] \notin P} \union {l \in G : l[1] \in P}
           p == PermissionsAdded(q, G)
<1>1. /\ p.phase = "parents" /\ p.todo = q.todo /\ p.user = q.user
      /\ p.visited = q.visited /\ p.held = q.held \union P
      /\ p.covers = C /\ p.current = q.current
  BY DEF Walking, PermissionsAdded
<1>2. P = {x \in Permission : <<q.current, x>> \in G}
  BY DEF PermissionsOf, Targets, Row
<1> HIDE DEF p, P
<1>3. q.current \in q.visited
  BY DEF RolesAgree
<1>4. /\ Loaded(p) = Loaded(q) /\ Listed(p) = q.visited
      /\ Listed(q) = q.visited \ {q.current}
  BY <1>1 DEF Loaded, Listed, Misses
<1>5. RolesAgree(p, G)
  <2>1. \A S : ClosedFor(p, G, S) <=> ClosedFor(q, G, S)
    BY <1>1, <1>4 DEF ClosedFor
  <2> QED BY <1>1, <1>3, <1>4, <2>1 DEF RolesAgree
<1>6. HeldAgree(p, G)
  BY <1>1, <1>2, <1>3, <1>4 DEF HeldAgree
<1>7. CoversAgree(p, G, {})
  <2>1. \A c \in C : c \in G /\ c[1] \in q.held \union P
    BY DEF CoversAgree, P
  <2>2. \A l \in G : l[1] \in q.held \union P => l \in C
    BY DEF CoversAgree, P
  <2> HIDE DEF C
  <2> QED BY <1>1, <2>1, <2>2 DEF CoversAgree
<1> QED BY <1>5, <1>6, <1>7 DEF AgreesWith, p

LEMMA ParentsAgreed ==
    ASSUME NEW q \in Walking, NEW G \in SUBSET Link, AgreesWith(q, G),
           q.phase = "parents"
    PROVE  AgreesWith(ParentsAdded(q, G), G)
<1> DEFINE R == {r \in Role : <<q.current, r>> \in G}
           p == ParentsAdded(q, G)
<1>1. /\ p.phase = "roles" /\ p.todo = q.todo \union R /\ p.user = q.user
      /\ p.visited = q.visited /\ p.held = q.held
      /\ p.covers = q.covers /\ p.current = q.current
  BY DEF Walking, ParentsAdded
<1> HIDE DEF p
<1>2. RolesAgree(q, G) /\ q.current \in q.visited
  BY DEF AgreesWith, RolesAgree
<1>3. /\ Loaded(p) = Loaded(q) \union {q.current}
      /\ Listed(p) = Listed(q)
  BY <1>1, <1>2 DEF Loaded, Listed, Misses
<1>4. RolesAgree(p, G)
  <2>1. ASSUME NEW S \in SUBSET Role, ClosedFor(p, G, S)
        PROVE  p.todo \union p.visited \subseteq S
    <3>1. ClosedFor(q, G, S)
      BY <1>1, <1>3, <2>1 DEF ClosedFor
    <3>2. q.todo \union q.visited \subseteq S
      BY <1>2, <3>1 DEF RolesAgree
    <3>3. R \subseteq S
      BY <1>2, <1>3, <2>1, <3>2 DEF ClosedFor
    <3> QED BY <1>1, <3>2, <3>3
  <2> QED BY <1>1, <1>2, <1>3, <2>1 DEF RolesAgree
<1>5. HeldAgree(p, G) /\ CoversAgree(p, G, {})
  BY <1>1, <1>3 DEF AgreesWith, HeldAgree, CoversAgree
<1> QED BY <1>4, <1>5 DEF AgreesWith, p

-----------------------------------------------------------------------------
(***************************************************************************)
(* A query on H keeps a walk in agreement with G, or with H if it asks for *)
(* the column in which they differ.                                        *)
(***************************************************************************)
\* p agrees with G or H, whichever G it is that q agrees with.
Follows(p, q, H) ==
    \A G \in SUBSET Link, k \in Columns :
        AgreesWith(q, G) /\ Apart(G, H, k[1], k[2])
            => AgreesWith(p, G) \/ AgreesWith(p, H)

\* QueryRoles: nothing was asked for before.
LEMMA RolesFollow ==
    ASSUME NEW q \in Walking, NEW H \in SUBSET Link, q.phase = "arrived"
    PROVE  Follows(RolesAdded(q, H), q, H)
<1> SUFFICES ASSUME NEW G \in SUBSET Link, AgreesWith(q, G)
             PROVE  AgreesWith(RolesAdded(q, H), H)
  BY DEF Follows
<1>1. q.visited = {} /\ q.held = {}
  BY DEF AgreesWith, RolesAgree
<1>2. RolesAgree(q, H)
  BY <1>1, RolesCarry DEF AgreesWith, Loaded
<1>3. HeldAgree(q, H)
  BY <1>1, HeldCarry DEF AgreesWith, Listed
<1>4. CoversAgree(q, H, {})
  BY <1>1, CoversCarry DEF AgreesWith
<1> QED BY <1>2, <1>3, <1>4, RolesAgreed DEF AgreesWith

\* Skip and LoadRole ask for no links.
LEMMA SkipFollows ==
    ASSUME NEW q \in Walking, NEW H, q.phase = "roles",
           NEW r \in q.todo \intersect q.visited
    PROVE  Follows([q EXCEPT !.todo = @ \ {r}], q, H)
<1> DEFINE p == [q EXCEPT !.todo = @ \ {r}]
<1>1. /\ p.phase = "roles" /\ p.todo = q.todo \ {r} /\ p.user = q.user
      /\ p.visited = q.visited /\ p.held = q.held /\ p.covers = q.covers
      /\ p.current = q.current
  BY DEF Walking
<1> HIDE DEF p
<1> SUFFICES ASSUME NEW G, AgreesWith(q, G)
             PROVE  AgreesWith(p, G)
  BY DEF Follows, p
<1>2. /\ p.todo \union p.visited = q.todo \union q.visited
      /\ Loaded(p) = Loaded(q) /\ Listed(p) = Listed(q)
  BY <1>1 DEF Loaded, Listed, Misses
<1>3. RolesAgree(p, G)
  BY <1>1, <1>2 DEF AgreesWith, RolesAgree, ClosedFor
<1>4. HeldAgree(p, G) /\ CoversAgree(p, G, {})
  BY <1>1, <1>2 DEF AgreesWith, HeldAgree, CoversAgree
<1> QED BY <1>3, <1>4 DEF AgreesWith

LEMMA RoleFollows ==
    ASSUME NEW q \in Walking, NEW H, q.phase = "roles",
           NEW r \in q.todo, Loads(q, r)
    PROVE  Follows(RoleLoaded(q, r), q, H)
<1> DEFINE p == RoleLoaded(q, r)
<1>1. /\ p.phase = "permissions" /\ p.todo = q.todo \ {r} /\ p.user = q.user
      /\ p.visited = q.visited \union {r} /\ p.held = q.held
      /\ p.covers = q.covers /\ p.current = r
  BY DEF Walking, RoleLoaded
<1> HIDE DEF p
<1> SUFFICES ASSUME NEW G, AgreesWith(q, G)
             PROVE  AgreesWith(p, G)
  BY DEF Follows, p
<1>2. /\ p.todo \union p.visited = q.todo \union q.visited
      /\ Loaded(p) = Loaded(q) /\ Listed(p) = Listed(q)
  BY <1>1 DEF Loaded, Listed, Misses, Loads
<1>3. RolesAgree(p, G)
  BY <1>1, <1>2 DEF AgreesWith, RolesAgree, ClosedFor
<1>4. HeldAgree(p, G) /\ CoversAgree(p, G, {})
  BY <1>1, <1>2 DEF AgreesWith, HeldAgree, CoversAgree
<1> QED BY <1>3, <1>4 DEF AgreesWith

\* LoadParents: the parents of a role are asked for once.
LEMMA ParentsFollow ==
    ASSUME NEW q \in Walking, NEW H \in SUBSET Link, q.phase = "parents"
    PROVE  Follows(ParentsAdded(q, H), q, H)
<1> SUFFICES ASSUME NEW G \in SUBSET Link, NEW k \in Columns,
                    AgreesWith(q, G), Apart(G, H, k[1], k[2])
             PROVE  AgreesWith(ParentsAdded(q, H), G)
                    \/ AgreesWith(ParentsAdded(q, H), H)
  BY DEF Follows
<1>0. /\ q.current \in Role /\ q.user \in User /\ q.held \subseteq Permission
      /\ Loaded(q) \subseteq Role /\ Listed(q) \subseteq Role
      /\ q.current \notin Loaded(q)
  BY DEF Walking, Loaded, Listed, Misses
<1>1. CASE k = <<q.current, Role>>
  <2>1. /\ Role # Permission /\ \A x \in q.held : x # q.current
        /\ \A x \in {q.user} \union Loaded(q) : x # q.current
    BY <1>0, AdminAssumption, DisjointAssumption
  <2>2. /\ \A x \in {q.user} \union Loaded(q) : k # <<x, Role>>
        /\ \A x \in Listed(q) : k # <<x, Permission>>
        /\ \A x \in q.held : k # <<x, Operation>>
    BY <1>1, <2>1
  <2>3. RolesAgree(q, G) /\ HeldAgree(q, G) /\ CoversAgree(q, G, {})
    BY DEF AgreesWith
  <2>4. RolesAgree(q, H)
    BY <2>2, <2>3, RolesUndisturbed
  <2>5. HeldAgree(q, H)
    BY <2>2, <2>3, HeldUndisturbed
  <2>6. CoversAgree(q, H, {})
    BY <2>2, <2>3, CoversUndisturbed
  <2>7. AgreesWith(q, H)
    BY <2>4, <2>5, <2>6 DEF AgreesWith
  <2> QED BY <2>7, ParentsAgreed
<1>2. CASE k # <<q.current, Role>>
  <2>1. \A r \in Role : <<q.current, r>> \in G <=> <<q.current, r>> \in H
    <3>1. q.current \in User \union Role
      BY <1>0
    <3> QED BY <1>2, <3>1, SameRoles
  <2>2. ParentsAdded(q, H) = ParentsAdded(q, G)
    <3>1. {p \in Role : <<q.current, p>> \in G}
            = {p \in Role : <<q.current, p>> \in H}
      BY <2>1
    <3> QED BY <3>1 DEF ParentsAdded
  <2> QED BY <2>2, ParentsAgreed
<1> QED BY <1>1, <1>2

\* LoadPermissions: the permissions of a role are asked for once, and what
\* was known of their operations is overwritten.
LEMMA PermissionsFollow ==
    ASSUME NEW q \in Walking, NEW H \in SUBSET Link, q.phase = "permissions"
    PROVE  Follows(PermissionsAdded(q, H), q, H)
<1> SUFFICES ASSUME NEW G \in SUBSET Link, NEW k \in Columns,
                    AgreesWith(q, G), Apart(G, H, k[1], k[2])
             PROVE  AgreesWith(PermissionsAdded(q, H), G)
                    \/ AgreesWith(PermissionsAdded(q, H), H)
  BY DEF Follows
<1> DEFINE P == PermissionsOf(q, H)
<1>0. /\ q.current \in Role /\ q.user \in User /\ q.held \subseteq Permission
      /\ Loaded(q) \subseteq Role /\ Listed(q) \subseteq Role
      /\ q.current \notin Listed(q) /\ P \subseteq Permission
  BY DEF Walking, Loaded, Listed, Misses, PermissionsOf
<1>1. P = {x \in Permission : <<q.current, x>> \in H}
      /\ PermissionsOf(q, G) = {x \in Permission : <<q.current, x>> \in G}
  BY DEF PermissionsOf, Targets, Row
<1> HIDE DEF P
\* If the query asks for what differs, nothing else was asked for before.
<1>2. CASE k = <<q.current, Permission>>
           \/ \E x \in P : k = <<x, Operation>>
  <2>1. /\ k[1] \notin User
        /\ \A x \in Role : k # <<x, Role>>
        /\ \A x \in Role : x # q.current => k # <<x, Permission>>
        /\ \A x \in Permission : x \notin P => k # <<x, Operation>>
    BY <1>0, <1>2, AdminAssumption, DisjointAssumption
  <2>2. /\ \A x \in {q.user} \union Loaded(q) : k # <<x, Role>>
        /\ \A x \in Listed(q) : k # <<x, Permission>>
        /\ \A x \in q.held : x \notin P => k # <<x, Operation>>
    BY <1>0, <2>1
  <2>3. RolesAgree(q, G) /\ HeldAgree(q, G) /\ CoversAgree(q, G, P)
    BY DEF AgreesWith, CoversAgree
  <2>4. RolesAgree(q, H)
    BY <2>2, <2>3, RolesUndisturbed
  <2>5. HeldAgree(q, H)
    BY <2>2, <2>3, HeldUndisturbed
  <2>6. CoversAgree(q, H, P)
    BY <2>2, <2>3, CoversUndisturbed
  <2> QED BY <2>4, <2>5, <2>6, PermissionsAgreed DEF P
<1>3. CASE ~(k = <<q.current, Permission>>
             \/ \E x \in P : k = <<x, Operation>>)
  <2>1. \A p \in Permission : <<q.current, p>> \in G <=> <<q.current, p>> \in H
    BY <1>0, <1>3, SamePermissions
  <2>2. PermissionsOf(q, G) = P
    BY <1>1, <2>1
  <2>3. \A l \in Link : l[1] \in P => (l \in G <=> l \in H)
    BY <1>0, <1>3, SameOperations
  <2>4. {l \in G : l[1] \in P} = {l \in H : l[1] \in P}
    BY <2>3
  <2>5. PermissionsAdded(q, H) = PermissionsAdded(q, G)
    BY <2>2, <2>4 DEF PermissionsAdded, P
  <2>6. CoversAgree(q, G, PermissionsOf(q, G))
    BY DEF AgreesWith, CoversAgree
  <2> QED BY <2>5, <2>6, PermissionsAgreed DEF AgreesWith
<1> QED BY <1>2, <1>3

-----------------------------------------------------------------------------
(***************************************************************************)
(* The steps of a walk                                                     *)
(***************************************************************************)
\* A walk whose next state follows agrees with one state again.
LEMMA FollowingAgrees ==
    ASSUME NEW p, NEW q, NEW H, NEW T \in SUBSET SUBSET Link, H \in T,
           Follows(p, q, H),
           \A A \in T : T = {A} => AgreesWith(q, A),
           \A A, B \in T : T = {A, B} =>
             \/ Comparable(A, B)
             \/ ReplacedOne(A, B) /\ \E G \in {A, B} : AgreesWith(q, G)
    PROVE  /\ \A A \in T : T = {A} => AgreesWith(p, A)
           /\ \A A, B \in T : T = {A, B} =>
                \/ Comparable(A, B)
                \/ ReplacedOne(A, B) /\ \E G \in {A, B} : AgreesWith(p, G)
<1>1. ASSUME NEW A \in T, T = {A}
      PROVE  AgreesWith(p, A)
  <2>1. A = H /\ AgreesWith(q, A)
    BY <1>1
  <2>2. PICK k \in Columns : Apart(A, A, k[1], k[2])
    BY NotApart
  <2> QED BY <2>1, <2>2 DEF Follows
<1>2. ASSUME NEW A \in T, NEW B \in T, T = {A, B}, ~Comparable(A, B)
      PROVE  ReplacedOne(A, B) /\ \E G \in {A, B} : AgreesWith(p, G)
  <2>1. ReplacedOne(A, B) /\ \E G \in {A, B} : AgreesWith(q, G)
    BY <1>2
  <2>2. PICK G \in {A, B} : AgreesWith(q, G)
    BY <2>1
  <2>3. \E k \in Columns : Apart(G, H, k[1], k[2])
    <3>1. CASE G = H
      BY <3>1, NotApart
    <3>2. CASE G # H
      <4>1. PICK k \in Columns : Apart(A, B, k[1], k[2])
        BY <2>1 DEF ReplacedOne
      <4>2. Apart(B, A, k[1], k[2])
        BY <4>1, ApartSymmetric
      <4>3. CASE G = A /\ H = B
        BY <4>1, <4>3
      <4>4. CASE G = B /\ H = A
        BY <4>2, <4>4
      <4> QED BY <1>2, <2>2, <3>2, <4>3, <4>4
    <3> QED BY <3>1, <3>2
  <2>4. AgreesWith(p, G) \/ AgreesWith(p, H)
    BY <2>2, <2>3 DEF Follows
  <2> QED BY <1>2, <2>1, <2>2, <2>4
<1> QED BY <1>1, <1>2

LEMMA GotoKeepsAgreement ==
    ASSUME IInv, WalksAgreeWithOne, NEW w \in Walker, walk[w] # Idle, NEW p,
           Goto(w, p), Follows(p, walk[w], link)
    PROVE  WalksAgreeWithOne'
<1>1. /\ walk' = [walk EXCEPT ![w] = p] /\ seen' = seen
      /\ walk \in [Walker -> Walking \union {Idle}]
      /\ seen[w] \in SUBSET SUBSET Link
  BY DEF Goto, IInv, TypeOK
<1>2. link \in seen[w] /\ AgreesWithOne(w)
  BY DEF IInv, WalksKnow, WalksAgreeWithOne
<1>3. AgreesWithOne(w)'
  <2>1. walk'[w] = p /\ seen'[w] = seen[w]
    BY <1>1
  <2>2. /\ IsFiniteSet(seen[w])
        /\ \A A \in seen[w] : seen[w] = {A} => AgreesWith(p, A)
        /\ \A A, B \in seen[w] : seen[w] = {A, B} =>
             \/ Comparable(A, B)
             \/ ReplacedOne(A, B) /\ \E G \in {A, B} : AgreesWith(p, G)
    <3>1. /\ IsFiniteSet(seen[w])
          /\ \A A \in seen[w] : seen[w] = {A} => AgreesWith(walk[w], A)
          /\ \A A, B \in seen[w] : seen[w] = {A, B} =>
               \/ Comparable(A, B)
               \/ ReplacedOne(A, B) /\ \E G \in {A, B} : AgreesWith(walk[w], G)
      BY <1>2 DEF AgreesWithOne
    <3> DEFINE T == seen[w]
               q == walk[w]
    <3>2. T \in SUBSET SUBSET Link /\ link \in T
      BY <1>1, <1>2
    <3> HIDE DEF T, q
    <3>3. /\ \A A \in T : T = {A} => AgreesWith(p, A)
          /\ \A A, B \in T : T = {A, B} =>
               \/ Comparable(A, B)
               \/ ReplacedOne(A, B) /\ \E G \in {A, B} : AgreesWith(p, G)
      BY <3>1, <3>2, FollowingAgrees DEF T, q
    <3> QED BY <3>1, <3>3 DEF T
  <2> QED BY <2>1, <2>2 DEF AgreesWithOne
<1>4. ASSUME NEW v \in Walker, v # w, walk'[v] # Idle
      PROVE  AgreesWithOne(v)'
  <2>1. walk'[v] = walk[v] /\ seen'[v] = seen[v]
    BY <1>1, <1>4
  <2>2. AgreesWithOne(v)
    BY <1>4, <2>1 DEF WalksAgreeWithOne
  <2> QED BY <2>1, <2>2 DEF AgreesWithOne
<1> QED BY <1>3, <1>4 DEF WalksAgreeWithOne

LEMMA ReturnKeepsAgreement ==
    ASSUME IInv, WalksAgreeWithOne, NEW w \in Walker, Return(w)
    PROVE  WalksAgreeWithOne'
<1>1. /\ walk' = [walk EXCEPT ![w] = Idle] /\ seen' = [seen EXCEPT ![w] = {}]
      /\ walk \in [Walker -> Walking \union {Idle}]
      /\ seen \in [Walker -> SUBSET SUBSET Link]
  BY DEF Return, IInv, TypeOK
<1>2. SUFFICES ASSUME NEW v \in Walker, walk'[v] # Idle
               PROVE  AgreesWithOne(v)'
  BY DEF WalksAgreeWithOne
<1>3. walk'[v] = walk[v] /\ seen'[v] = seen[v]
  BY <1>1, <1>2
<1>4. AgreesWithOne(v)
  BY <1>2, <1>3 DEF WalksAgreeWithOne
<1> QED BY <1>3, <1>4 DEF AgreesWithOne

\* Nothing is known of any state yet.
LEMMA ArriveKeepsAgreement ==
    ASSUME IInv, WalksAgreeWithOne, NEW w \in Walker, NEW u \in User,
           NEW o \in Operation, Arrive(w, u, o)
    PROVE  WalksAgreeWithOne'
<1> DEFINE q == [phase |-> "arrived", user |-> u, op |-> o, todo |-> {},
                 visited |-> {}, current |-> AdminRole, held |-> {},
                 covers |-> {}]
<1>1. /\ walk' = [walk EXCEPT ![w] = q] /\ seen' = [seen EXCEPT ![w] = {link}]
      /\ walk \in [Walker -> Walking \union {Idle}]
      /\ seen \in [Walker -> SUBSET SUBSET Link]
  BY DEF Arrive, IInv, TypeOK
<1>2. AgreesWith(q, link)
  <2>1. /\ q.phase = "arrived" /\ q.todo = {} /\ q.visited = {}
        /\ q.held = {} /\ q.covers = {}
    OBVIOUS
  <2> HIDE DEF q
  <2>2. Loaded(q) = {} /\ Listed(q) = {}
    BY <2>1 DEF Loaded, Listed
  <2> QED BY <2>1, <2>2 DEF AgreesWith, RolesAgree, HeldAgree, CoversAgree
<1> HIDE DEF q
<1>3. AgreesWithOne(w)'
  <2>1. walk'[w] = q /\ seen'[w] = {link} /\ IsFiniteSet({link})
    BY <1>1, FS_Singleton
  <2> QED BY <1>2, <2>1 DEF AgreesWithOne, Comparable
<1>4. ASSUME NEW v \in Walker, v # w, walk'[v] # Idle
      PROVE  AgreesWithOne(v)'
  <2>1. walk'[v] = walk[v] /\ seen'[v] = seen[v]
    BY <1>1, <1>4
  <2>2. AgreesWithOne(v)
    BY <1>4, <2>1 DEF WalksAgreeWithOne
  <2> QED BY <2>1, <2>2 DEF AgreesWithOne
<1> QED BY <1>3, <1>4 DEF WalksAgreeWithOne

LEMMA WalkKeepsAgreement ==
    ASSUME IInv, WalksAgreeWithOne, NEW w \in Walker, Walk(w) \/ Fails(w)
    PROVE  WalksAgreeWithOne'
<1> DEFINE q == walk[w]
<1>0. q # Idle => q \in Walking /\ link \in SUBSET Link
  BY LinkIsBetween
<1>1. CASE QueryRoles(w)
  <2>1. q # Idle /\ q.phase = "arrived" /\ Goto(w, RolesAdded(q, link))
    BY <1>1 DEF QueryRoles, In, RolesAdded
  <2> QED BY <1>0, <2>1, RolesFollow, GotoKeepsAgreement
<1>2. CASE Skip(w)
  <2>1. PICK r \in q.todo \intersect q.visited :
          Goto(w, [q EXCEPT !.todo = @ \ {r}])
    BY <1>2 DEF Skip
  <2>2. q # Idle /\ q.phase = "roles"
    BY <1>2 DEF Skip, In
  <2>3. Follows([q EXCEPT !.todo = @ \ {r}], q, link)
    BY <1>0, <2>2, SkipFollows
  <2> QED BY <2>1, <2>2, <2>3, GotoKeepsAgreement
<1>3. CASE LoadRole(w)
  <2>1. PICK r \in q.todo :
          Loads(q, r) /\ (Goto(w, RoleLoaded(q, r)) \/ Return(w))
    BY <1>3 DEF LoadRole, RoleLoaded
  <2>2. q # Idle /\ q.phase = "roles"
    BY <1>3 DEF LoadRole, In
  <2>3. Follows(RoleLoaded(q, r), q, link)
    BY <1>0, <2>1, <2>2, RoleFollows
  <2> QED BY <2>1, <2>2, <2>3, GotoKeepsAgreement, ReturnKeepsAgreement
<1>4. CASE LoadPermissions(w)
  <2>1. /\ q # Idle /\ q.phase = "permissions"
        /\ Goto(w, PermissionsAdded(q, link))
    BY <1>4 DEF LoadPermissions, In, PermissionsAdded, PermissionsOf
  <2> QED BY <1>0, <2>1, PermissionsFollow, GotoKeepsAgreement
<1>5. CASE LoadParents(w)
  <2>1. q # Idle /\ q.phase = "parents" /\ Goto(w, ParentsAdded(q, link))
    BY <1>5 DEF LoadParents, In, ParentsAdded, ParentsOf
  <2> QED BY <1>0, <2>1, ParentsFollow, GotoKeepsAgreement
<1>6. CASE Reply(w) \/ Fails(w)
  BY <1>6, ReturnKeepsAgreement DEF Reply, Fails
<1> QED BY <1>1, <1>2, <1>3, <1>4, <1>5, <1>6 DEF Walk

-----------------------------------------------------------------------------
(***************************************************************************)
(* The changes                                                             *)
(***************************************************************************)
\* Every change only adds links, only removes them, or replaces one column.
LEMMA ReplacedIsApart ==
    ASSUME NEW k \in Columns, NEW T \in SUBSET k[2]
    PROVE  OneChange(link, Replaced(k[1], k[2], T))
<1>1. Apart(link, Replaced(k[1], k[2], T), k[1], k[2])
  BY DEF Apart, Replaced
<1> QED BY <1>1 DEF OneChange, ReplacedOne

LEMMA ChangeIsOne ==
    ASSUME IInv, Change
    PROVE  \E G : Commit(G) /\ OneChange(link, G)
<1>1. ASSUME NEW k \in Columns, NEW T \in SUBSET k[2],
             Commit(Replaced(k[1], k[2], T))
      PROVE  \E G : Commit(G) /\ OneChange(link, G)
  BY <1>1, ReplacedIsApart
<1>2. ASSUME NEW n, Delete(n)
      PROVE  \E G : Commit(G) /\ OneChange(link, G)
  <2> DEFINE G == {l \in link : n \notin {l[1], l[2]}}
  <2>1. G \subseteq link
    OBVIOUS
  <2>2. Commit(G)
    BY <1>2 DEF Delete
  <2> HIDE DEF G
  <2> QED BY <2>1, <2>2 DEF OneChange, Comparable
<1>3. ASSUME NEW S, Commit(link \union S)
      PROVE  \E G : Commit(G) /\ OneChange(link, G)
  BY <1>3 DEF OneChange, Comparable
<1>4. ASSUME NEW u \in User,
             CreateUser(u) \/ UpdateUser(u) \/ DeleteUser(u) \/ AssignUserRoles(u)
      PROVE  \E G : Commit(G) /\ OneChange(link, G)
  <2>1. <<u, Role>> \in Columns
    BY DEF Columns
  <2>2. CASE \E R \in SUBSET Role : Commit(Replaced(u, Role, R))
    BY <1>1, <2>1, <2>2
  <2>3. CASE Commit(link)
    BY <2>3 DEF OneChange, Comparable
  <2>4. CASE CreateUser(u)
    BY <2>2, <2>4 DEF CreateUser, Asked
  <2>5. CASE UpdateUser(u)
    BY <2>2, <2>3, <2>5 DEF UpdateUser, Asked
  <2>6. CASE AssignUserRoles(u)
    BY <2>2, <2>6, AdminAssumption DEF AssignUserRoles, RolesOf, Asked
  <2>7. CASE DeleteUser(u)
    BY <1>2, <2>7 DEF DeleteUser
  <2> QED BY <1>4, <2>4, <2>5, <2>6, <2>7
<1>5. ASSUME NEW r \in Role,
             CreateRole(r) \/ DeleteRole(r) \/ SetRoleInheritances(r)
             \/ AssignRolePermissions(r)
      PROVE  \E G : Commit(G) /\ OneChange(link, G)
  <2>1. <<r, Role>> \in Columns /\ <<r, Permission>> \in Columns
    BY DEF Columns
  <2>2. CASE \E R \in SUBSET Role : Commit(Replaced(r, Role, R))
    BY <1>1, <2>1, <2>2
  <2>3. CASE \E P \in SUBSET Permission : Commit(Replaced(r, Permission, P))
    BY <1>1, <2>1, <2>3
  <2>4. CASE CreateRole(r)
    BY <1>3, <2>4 DEF CreateRole
  <2>5. CASE SetRoleInheritances(r)
    BY <2>2, <2>5 DEF SetRoleInheritances, Asked
  <2>6. CASE AssignRolePermissions(r)
    BY <2>3, <2>6 DEF AssignRolePermissions, Asked
  <2>7. CASE DeleteRole(r)
    BY <1>2, <2>7 DEF DeleteRole
  <2> QED BY <1>5, <2>4, <2>5, <2>6, <2>7
<1>6. ASSUME NEW p \in Permission,
             CreatePermission(p) \/ UpdatePermission(p) \/ DeletePermission(p)
      PROVE  \E G : Commit(G) /\ OneChange(link, G)
  <2>1. <<p, Operation>> \in Columns
    BY DEF Columns
  <2>2. CASE \E O \in SUBSET Operation : Commit(Replaced(p, Operation, O))
    BY <1>1, <2>1, <2>2
  <2>3. CASE CreatePermission(p) \/ UpdatePermission(p)
    BY <2>2, <2>3 DEF CreatePermission, UpdatePermission, Asked
  <2>4. CASE DeletePermission(p)
    BY <1>2, <2>4 DEF DeletePermission
  <2> QED BY <1>6, <2>3, <2>4
<1>7. CASE BootstrapRole \/ BootstrapAdmin
  BY <1>3, <1>7 DEF BootstrapRole, BootstrapAdmin
<1> QED BY <1>4, <1>5, <1>6, <1>7 DEF Change

\* A request that has seen two states when a third comes has seen more than
\* one change, and nothing more is claimed of it.
LEMMA CommitKeepsAgreement ==
    ASSUME IInv, WalksAgreeWithOne, NEW G, Commit(G), OneChange(link, G)
    PROVE  WalksAgreeWithOne'
<1>1. SUFFICES ASSUME NEW w \in Walker, walk'[w] # Idle
               PROVE  AgreesWithOne(w)'
  BY DEF WalksAgreeWithOne
<1> DEFINE q == walk[w]
           T == seen[w]
<1>2. walk'[w] = q /\ q # Idle /\ seen'[w] = T \union {G}
  BY <1>1 DEF Commit
<1>3. link \in T /\ AgreesWithOne(w)
  BY <1>2 DEF IInv, WalksKnow, WalksAgreeWithOne
<1>4. /\ IsFiniteSet(T)
      /\ \A A \in T : T = {A} => AgreesWith(q, A)
      /\ \A A, B \in T : T = {A, B} =>
           \/ Comparable(A, B)
           \/ ReplacedOne(A, B) /\ \E H \in {A, B} : AgreesWith(q, H)
  BY <1>3 DEF AgreesWithOne
<1> HIDE DEF q, T
<1>5. CASE G \in T
  <2>1. T \union {G} = T
    BY <1>5
  <2>2. walk'[w] = q /\ seen'[w] = T
    BY <1>2, <2>1
  <2> QED BY <1>4, <2>2 DEF AgreesWithOne
<1>6. CASE G \notin T
  <2>1. IsFiniteSet(T \union {G})
    BY <1>4, FS_AddElement
  <2>2. ASSUME NEW A, T \union {G} = {A}
        PROVE  FALSE
    BY <1>3, <1>6, <2>2
  <2>3. ASSUME NEW A, NEW B, T \union {G} = {A, B}
        PROVE  \/ Comparable(A, B)
               \/ ReplacedOne(A, B) /\ \E H \in {A, B} : AgreesWith(q, H)
    <3>1. /\ T = {link} /\ link # G
          /\ A \in {link, G} /\ B \in {link, G}
          /\ link \in {A, B} /\ G \in {A, B}
      <4>1. /\ A \in T \union {G} /\ B \in T \union {G}
            /\ link \in {A, B} /\ G \in {A, B} /\ link # G
        BY <1>3, <1>6, <2>3
      <4>2. \A x \in T : x # G /\ (x = A \/ x = B)
        BY <1>6, <2>3
      <4>3. \A x \in T : x = link
        BY <4>1, <4>2
      <4> QED BY <1>3, <4>1, <4>3
    <3>2. AgreesWith(q, link)
      BY <1>4, <3>1
    <3>3. OneChange(A, B)
      <4>1. OneChange(G, link)
        BY ApartSymmetric DEF OneChange, Comparable, ReplacedOne
      <4>2. (A = link /\ B = G) \/ (A = G /\ B = link)
        BY <3>1
      <4> QED BY <4>1, <4>2
    <3> QED BY <3>1, <3>2, <3>3 DEF OneChange
  <2> DEFINE V == T \union {G}
  <2>4. /\ \A A \in V : V = {A} => AgreesWith(q, A)
        /\ \A A, B \in V : V = {A, B} =>
             \/ Comparable(A, B)
             \/ ReplacedOne(A, B) /\ \E H \in {A, B} : AgreesWith(q, H)
    BY <2>2, <2>3
  <2>5. walk'[w] = q /\ seen'[w] = V
    BY <1>2
  <2> HIDE DEF V
  <2> QED BY <2>1, <2>4, <2>5 DEF AgreesWithOne, V
<1> QED BY <1>5, <1>6

LEMMA InitAgreement == Init => WalksAgreeWithOne
BY DEF Init, WalksAgreeWithOne

LEMMA NextAgreement ==
    IInv /\ WalksAgreeWithOne /\ [Next]_vars => WalksAgreeWithOne'
<1> SUFFICES ASSUME IInv, WalksAgreeWithOne, [Next]_vars
             PROVE  WalksAgreeWithOne'
  OBVIOUS
<1>1. CASE Change
  BY <1>1, ChangeIsOne, CommitKeepsAgreement
<1>2. CASE \E w \in Walker, u \in User, o \in Operation : Arrive(w, u, o)
  BY <1>2, ArriveKeepsAgreement
<1>3. CASE \E w \in Walker : Walk(w) \/ Fails(w)
  BY <1>3, WalkKeepsAgreement
<1>4. CASE UNCHANGED vars
  BY <1>4 DEF vars, WalksAgreeWithOne, AgreesWithOne
<1> QED BY <1>1, <1>2, <1>3, <1>4 DEF Next

-----------------------------------------------------------------------------
(***************************************************************************)
(* The theorems                                                            *)
(***************************************************************************)
\* While the tables were in at most two states since a request arrived, what
\* collectRolePermissions has gathered is what it would have on one of them.
THEOREM WalksAgreeWithOneAlways == Spec => []WalksAgreeWithOne
<1> QED BY InitAgreement, NextAgreement, AuthorizationInvariant, PTL DEF Spec

\* A walk that agrees with a state has found all its links and no others.
LEMMA AgreementKnows ==
    ASSUME NEW q \in Walking, NEW G, AgreesWith(q, G), q.phase = "roles"
    PROVE  FoundOn(q, G) /\ KnowsAllOf(q, G)
<1>1. /\ RolesAgree(q, G) /\ HeldAgree(q, G) /\ CoversAgree(q, G, {})
      /\ Loaded(q) = q.visited /\ Listed(q) = q.visited
  BY DEF AgreesWith, Loaded, Listed, Misses
<1>2. FoundOn(q, G)
  <2>1. \A S \in SUBSET Role :
          Inherited(S, G, q.user) => q.todo \union q.visited \subseteq S
    BY <1>1 DEF RolesAgree, ClosedFor, Inherited
  <2> QED BY <1>1, <2>1 DEF FoundOn, HeldAgree, CoversAgree
<1>3. KnowsAllOf(q, G)
  <2>1. \A p \in q.held, o \in Operation : <<p, o>> \in G => <<p, o>> \in q.covers
    BY <1>1 DEF CoversAgree
  <2> QED BY <1>1, <2>1 DEF KnowsAllOf, RolesAgree, HeldAgree
<1> QED BY <1>2, <1>3

\* A set of at most two elements.
LEMMA AtMostTwo ==
    ASSUME NEW T, IsFiniteSet(T), Cardinality(T) <= 2, NEW a \in T
    PROVE  \E b \in T : T = {a, b}
<1>1. /\ IsFiniteSet(T \ {a}) /\ Cardinality(T \ {a}) = Cardinality(T) - 1
      /\ Cardinality(T) \in Nat /\ Cardinality(T \ {a}) \in Nat
  BY FS_RemoveElement, FS_CardinalityType
<1>2. Cardinality(T \ {a}) = 0 \/ Cardinality(T \ {a}) = 1
  BY <1>1
<1>3. CASE Cardinality(T \ {a}) = 0
  BY <1>1, <1>3, FS_EmptySet
<1>4. CASE Cardinality(T \ {a}) = 1
  <2>1. PICK b : T \ {a} = {b}
    BY <1>1, <1>4, FS_Singleton
  <2> QED BY <2>1
<1> QED BY <1>2, <1>3, <1>4

LEMMA AnswersByInvariants == IInv /\ WalksAgreeWithOne => AnswersOneState
<1> SUFFICES ASSUME IInv, WalksAgreeWithOne, NEW w \in Walker,
                    Complete(w), Cardinality(seen[w]) <= 2
             PROVE  \E G \in seen[w] : HasPermission(walk[w]) <=> GrantedIn(w, G)
  BY DEF AnswersOneState, HasPermission, GrantedIn, Granted
<1> DEFINE q == walk[w]
           T == seen[w]
<1>1. /\ q # Idle /\ q \in Walking /\ q.phase = "roles" /\ q.todo = {}
      /\ link \in T /\ AgreesWithOne(w)
  BY LinkIsBetween DEF Complete, In, WalksAgreeWithOne, IInv, WalksKnow
<1>2. PICK A \in T : T = {link, A}
  BY <1>1, AtMostTwo DEF AgreesWithOne
<1>3. CASE Comparable(link, A)
  <2>1. Sometime(w) = link \union A /\ Throughout(w) = link \intersect A
    BY <1>2 DEF Sometime, Throughout
  <2>2. \/ Sometime(w) \in T /\ Throughout(w) \in T
    BY <1>2, <1>3, <2>1 DEF Comparable
  <2>3. HasPermission(q) => GrantedIn(w, Sometime(w))
    BY AllowedByIInv DEF AllowedOnLinksSeen
  <2>4. ~HasPermission(q) => ~GrantedIn(w, Throughout(w))
    BY RefusedByIInv DEF RefusedForLackOfLinks
  <2> QED BY <2>2, <2>3, <2>4
<1>4. CASE ~Comparable(link, A)
  <2>1. PICK G \in T : AgreesWith(q, G)
    BY <1>1, <1>2, <1>4 DEF AgreesWithOne
  <2>2. FoundOn(q, G) /\ KnowsAllOf(q, G)
    BY <1>1, <2>1, AgreementKnows
  <2>3. HasPermission(q) => GrantedIn(w, G)
    BY <1>1, <2>2, FoundGrants DEF GrantedIn
  <2>4. ~HasPermission(q) => ~GrantedIn(w, G)
    BY <1>1, <2>2, KnownRefuses DEF GrantedIn
  <2> QED BY <2>3, <2>4
<1> QED BY <1>3, <1>4

\* A request that met at most one change is answered as before or after it.
THEOREM AnswersOneStateAlways == Spec => []AnswersOneState
<1> QED BY AuthorizationInvariant, WalksAgreeWithOneAlways, AnswersByInvariants, PTL

-----------------------------------------------------------------------------
(***************************************************************************)
(* Why a walk ends: every step counts down a number of two digits.         *)
(***************************************************************************)
LEMMA OneFewer ==
    ASSUME NEW S, IsFiniteSet(S), NEW x \in S
    PROVE  Cardinality(S \ {x}) < Cardinality(S)
<1>1. Cardinality(S) \in Nat /\ Cardinality(S \ {x}) = Cardinality(S) - 1
  BY FS_CardinalityType, FS_RemoveElement
<1> QED BY <1>1

\* A larger leading part outweighs any digit.
LEMMA LeadingPartWins ==
    ASSUME NEW b \in Nat, NEW m \in Nat, NEW n \in Nat, m < n,
           NEW y \in Nat, y < b
    PROVE  b * m + y < b * n
<1>1. b * m \in Nat /\ b * n \in Nat /\ b * (n - m - 1) \in Nat
  OBVIOUS
<1>2. b * n = b * m + b + b * (n - m - 1)
  OBVIOUS
<1> QED BY <1>1, <1>2

\* The two digits of a request.
LEMMA Digits ==
    ASSUME IsFiniteSet(Role), NEW q \in Walking
    PROVE  /\ Roles \in Nat /\ Base \in Nat /\ Base = Roles + 3
           /\ IsFiniteSet(Role \ q.visited) /\ IsFiniteSet(q.todo)
           /\ Cardinality(Role \ q.visited) \in Nat
           /\ Cardinality(Role \ q.visited) <= Roles
           /\ Cardinality(q.todo) \in Nat /\ Cardinality(q.todo) <= Roles
           /\ ForThisRole(q) \in Nat /\ ForThisRole(q) < Base
<1>1. Roles \in Nat /\ Base \in Nat /\ Base = Roles + 3
  BY FS_CardinalityType DEF Roles, Base
<1>2. ASSUME NEW T \in SUBSET Role
      PROVE  IsFiniteSet(T) /\ Cardinality(T) \in Nat /\ Cardinality(T) <= Roles
  <2>1. IsFiniteSet(T) /\ Cardinality(T) <= Roles
    BY FS_Subset DEF Roles
  <2> QED BY <2>1, FS_CardinalityType
<1>3. q.todo \subseteq Role /\ Role \ q.visited \subseteq Role
  BY DEF Walking
<1>4. q.phase \in {"arrived", "roles", "permissions", "parents"}
  BY DEF Walking
<1>5. Cardinality(q.todo) \in Nat /\ Cardinality(q.todo) <= Roles
  BY <1>2, <1>3
<1>6. ForThisRole(q) \in Nat /\ ForThisRole(q) < Base
  BY <1>1, <1>4, <1>5 DEF ForThisRole
<1> QED BY <1>1, <1>2, <1>3, <1>5, <1>6

LEMMA FewerStepsLeft ==
    ASSUME IsFiniteSet(Role), NEW q \in Walking, NEW r \in Walking,
           \/ Cardinality(Role \ r.visited) < Cardinality(Role \ q.visited)
           \/ r.visited = q.visited /\ ForThisRole(r) < ForThisRole(q)
    PROVE  StepsLeft(r) < StepsLeft(q)
<1> DEFINE b == Base
           x == Cardinality(Role \ q.visited)
           y == ForThisRole(q)
           x2 == Cardinality(Role \ r.visited)
           y2 == ForThisRole(r)
<1>1. b \in Nat /\ x \in Nat /\ y \in Nat /\ x2 \in Nat /\ y2 \in Nat /\ y2 < b
  BY Digits
<1>2. StepsLeft(q) = b * x + y /\ StepsLeft(r) = b * x2 + y2
  BY DEF StepsLeft
<1>3. x2 < x \/ (x2 = x /\ y2 < y)
  OBVIOUS
<1> HIDE DEF b, x, y, x2, y2
<1>4. b * x \in Nat /\ b * x2 \in Nat
  BY <1>1
<1>5. CASE x2 < x
  <2>1. b * x2 + y2 < b * x
    BY <1>1, <1>5, LeadingPartWins
  <2> QED BY <1>1, <1>2, <1>4, <2>1
<1>6. CASE x2 = x /\ y2 < y
  <2>1. b * x2 = b * x
    BY <1>6
  <2> QED BY <1>1, <1>2, <1>4, <1>6, <2>1
<1> QED BY <1>3, <1>5, <1>6

LEMMA FewSteps ==
    ASSUME IsFiniteSet(Role), NEW q \in Walking
    PROVE  StepsLeft(q) < Base * (Roles + 1)
<1> DEFINE x == Cardinality(Role \ q.visited)
           y == ForThisRole(q)
<1>1. /\ Base \in Nat /\ Roles \in Nat /\ x \in Nat /\ x < Roles + 1
      /\ y \in Nat /\ y < Base
  BY Digits
<1>2. StepsLeft(q) = Base * x + y
  BY DEF StepsLeft
<1> HIDE DEF x, y
<1> QED BY <1>1, <1>2, LeadingPartWins

\* What the walk of w becomes, and that it is alone in its step.
LEMMA OneWalks ==
    ASSUME TypeOK, NEW w \in Walker, NEW q, Goto(w, q) \/ (Return(w) /\ q = Idle)
    PROVE  /\ walk'[w] = q
           /\ \A v \in Walker \ {w} : walk'[v] = walk[v]
BY DEF TypeOK, Goto, Return

\* A query that the request goes on after leaves it fewer steps.
LEMMA WalkCounts ==
    ASSUME IsFiniteSet(Role), IInv, TypeOK', NEW w \in Walker, Walk(w)
    PROVE  /\ \A v \in Walker \ {w} : walk'[v] = walk[v]
           /\ walk'[w] = Idle \/ StepsLeft(walk'[w]) < StepsLeft(walk[w])
<1> DEFINE q == walk[w]
           r == walk'[w]
<1>1. q \in Walking \union {Idle} /\ r \in Walking \union {Idle} /\ TypeOK
  BY DEF IInv, TypeOK
<1>2. CASE QueryRoles(w)
  <2>1. /\ q # Idle /\ q.phase = "arrived"
        /\ Goto(w, [q EXCEPT !.phase = "roles", !.todo = Targets(q.user, link)])
    BY <1>2 DEF QueryRoles, In
  <2>2. /\ r = [q EXCEPT !.phase = "roles", !.todo = Targets(q.user, link)]
        /\ \A v \in Walker \ {w} : walk'[v] = walk[v]
    BY <1>1, <2>1, OneWalks
  <2> HIDE DEF q, r
  <2>3. q \in Walking /\ r.visited = q.visited /\ r.phase = "roles"
    BY <1>1, <2>1, <2>2 DEF Walking
  <2>4. CASE r \in Walking
    <3>1. /\ Roles \in Nat
          /\ Cardinality(r.todo) \in Nat /\ Cardinality(r.todo) <= Roles
      BY <2>4, Digits
    <3>2. ForThisRole(r) < ForThisRole(q)
      BY <2>1, <2>3, <3>1 DEF ForThisRole
    <3> QED BY <2>2, <2>3, <2>4, <3>2, FewerStepsLeft DEF q, r
  <2> QED BY <1>1, <2>2, <2>4 DEF q, r
<1>3. CASE Skip(w)
  <2>1. PICK x \in q.todo \intersect q.visited :
            Goto(w, [q EXCEPT !.todo = @ \ {x}])
    BY <1>3 DEF Skip
  <2>2. /\ q # Idle /\ q.phase = "roles"
        /\ r = [q EXCEPT !.todo = @ \ {x}]
        /\ \A v \in Walker \ {w} : walk'[v] = walk[v]
    BY <1>1, <1>3, <2>1, OneWalks DEF Skip, In
  <2> HIDE DEF q, r
  <2>3. /\ q \in Walking /\ r \in Walking /\ r.visited = q.visited
        /\ r.phase = "roles" /\ r.todo = q.todo \ {x}
    BY <1>1, <2>2 DEF Walking
  <2>4. Cardinality(r.todo) < Cardinality(q.todo)
    BY <2>1, <2>3, Digits, OneFewer
  <2>5. ForThisRole(r) < ForThisRole(q)
    BY <2>2, <2>3, <2>4 DEF ForThisRole
  <2> QED BY <2>2, <2>3, <2>5, FewerStepsLeft DEF q, r
<1>4. CASE LoadRole(w)
  <2>1. PICK x \in q.todo :
          /\ x \notin q.visited
          /\ IF x \in rows
             THEN Goto(w, [q EXCEPT !.phase = "permissions", !.current = x,
                             !.todo = @ \ {x}, !.visited = @ \union {x}])
             ELSE Return(w)
    BY <1>4 DEF LoadRole, Loads
  <2>2. q # Idle
    BY <1>4 DEF LoadRole, In
  <2>3. CASE x \notin rows
    BY <1>1, <2>1, <2>3, OneWalks
  <2>4. CASE x \in rows
    <3>1. /\ r = [q EXCEPT !.phase = "permissions", !.current = x,
                           !.todo = @ \ {x}, !.visited = @ \union {x}]
          /\ \A v \in Walker \ {w} : walk'[v] = walk[v]
      BY <1>1, <2>1, <2>4, OneWalks
    <3> HIDE DEF q, r
    <3>2. /\ q \in Walking /\ r \in Walking /\ x \in Role
          /\ Role \ r.visited = (Role \ q.visited) \ {x}
      BY <1>1, <2>1, <2>2, <3>1 DEF Walking
    <3>3. Cardinality(Role \ r.visited) < Cardinality(Role \ q.visited)
      BY <2>1, <3>2, Digits, OneFewer
    <3> QED BY <3>1, <3>2, <3>3, FewerStepsLeft DEF q, r
  <2> QED BY <2>3, <2>4
<1>5. CASE LoadPermissions(w)
  <2>1. PICK H, C : Goto(w, [q EXCEPT !.phase = "parents", !.held = H, !.covers = C])
    BY <1>5 DEF LoadPermissions
  <2>2. /\ q # Idle /\ q.phase = "permissions"
        /\ r = [q EXCEPT !.phase = "parents", !.held = H, !.covers = C]
        /\ \A v \in Walker \ {w} : walk'[v] = walk[v]
    BY <1>1, <1>5, <2>1, OneWalks DEF LoadPermissions, In
  <2> HIDE DEF q, r
  <2>3. q \in Walking /\ r.visited = q.visited /\ r.phase = "parents"
    BY <1>1, <2>2 DEF Walking
  <2>4. CASE r \in Walking
    <3>1. /\ Roles \in Nat
          /\ Cardinality(r.todo) \in Nat /\ Cardinality(r.todo) <= Roles
      BY <2>4, Digits
    <3>2. ForThisRole(r) < ForThisRole(q)
      BY <2>2, <2>3, <3>1 DEF ForThisRole
    <3> QED BY <2>2, <2>3, <2>4, <3>2, FewerStepsLeft DEF q, r
  <2> QED BY <1>1, <2>2, <2>4 DEF q, r
<1>6. CASE LoadParents(w)
  <2>1. PICK T : Goto(w, [q EXCEPT !.phase = "roles", !.todo = T])
    BY <1>6 DEF LoadParents
  <2>2. /\ q # Idle /\ q.phase = "parents"
        /\ r = [q EXCEPT !.phase = "roles", !.todo = T]
        /\ \A v \in Walker \ {w} : walk'[v] = walk[v]
    BY <1>1, <1>6, <2>1, OneWalks DEF LoadParents, In
  <2> HIDE DEF q, r
  <2>3. q \in Walking /\ r.visited = q.visited /\ r.phase = "roles"
    BY <1>1, <2>2 DEF Walking
  <2>4. CASE r \in Walking
    <3>1. /\ Roles \in Nat
          /\ Cardinality(r.todo) \in Nat /\ Cardinality(r.todo) <= Roles
      BY <2>4, Digits
    <3>2. ForThisRole(r) < ForThisRole(q)
      BY <2>2, <2>3, <3>1 DEF ForThisRole
    <3> QED BY <2>2, <2>3, <2>4, <3>2, FewerStepsLeft DEF q, r
  <2> QED BY <1>1, <2>2, <2>4 DEF q, r
<1>7. CASE Reply(w)
  BY <1>1, <1>7, OneWalks DEF Reply
<1> QED BY <1>2, <1>3, <1>4, <1>5, <1>6, <1>7 DEF Walk

\* Changes of the tables leave the walks alone.
LEMMA ChangeWalksNot ==
    ASSUME Change
    PROVE  walk' = walk
BY DEF Change, CreateUser, UpdateUser, DeleteUser, AssignUserRoles, CreateRole,
       DeleteRole, SetRoleInheritances, AssignRolePermissions, CreatePermission,
       UpdatePermission, DeletePermission, BootstrapRole, BootstrapAdmin, Delete,
       Commit

LEMMA StepCounts ==
    ASSUME IsFiniteSet(Role), IInv, [Next]_vars, NEW w \in Walker, walk[w] # Idle
    PROVE  IF Walk(w)
           THEN walk'[w] = Idle \/ StepsLeft(walk'[w]) < StepsLeft(walk[w])
           ELSE walk'[w] \in {walk[w], Idle}
<1>1. TypeOK /\ TypeOK'
  BY NextIInv DEF IInv
<1>2. CASE Walk(w)
  BY <1>1, <1>2, WalkCounts
<1>3. ASSUME ~Walk(w) PROVE walk'[w] \in {walk[w], Idle}
  <2>1. CASE Change
    BY <2>1, ChangeWalksNot
  <2>2. ASSUME NEW v \in Walker, NEW u \in User, NEW o \in Operation, Arrive(v, u, o)
        PROVE  walk'[w] = walk[w]
    BY <1>1, <2>2 DEF Arrive, TypeOK
  <2>3. ASSUME NEW v \in Walker, Walk(v)
        PROVE  walk'[w] = walk[w]
    BY <1>1, <1>3, <2>3, WalkCounts
  <2>4. ASSUME NEW v \in Walker, Fails(v)
        PROVE  walk'[w] \in {walk[w], Idle}
    BY <1>1, <2>4, OneWalks DEF Fails
  <2>5. CASE UNCHANGED vars
    BY <2>5 DEF vars
  <2> QED BY <2>1, <2>2, <2>3, <2>4, <2>5 DEF Next
<1> QED BY <1>2, <1>3

\* A request makes a number of queries bounded by the number of roles, and
\* every one leaves it fewer to make, on cyclic roles and on tables that
\* change under it: what is left of AuthorizationEnds is that its goroutine
\* runs on.
THEOREM WalksEnd ==
    ASSUME IsFiniteSet(Role)
    PROVE  Spec => []WalksAreShort /\ EveryStepCounts
<1>1. IInv => WalksAreShort
  BY FewSteps DEF IInv, TypeOK, WalksAreShort
<1>2. IInv /\ [Next]_vars =>
        [\A w \in Walker : walk[w] # Idle =>
           IF Walk(w)
           THEN walk'[w] = Idle \/ StepsLeft(walk'[w]) < StepsLeft(walk[w])
           ELSE walk'[w] \in {walk[w], Idle}]_vars
  BY StepCounts
<1> QED BY <1>1, <1>2, AuthorizationInvariant, PTL DEF Spec, EveryStepCounts
=============================================================================
