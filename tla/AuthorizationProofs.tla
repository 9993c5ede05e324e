------------------------ MODULE AuthorizationProofs ------------------------
(***************************************************************************)
(* Theorems about Authorization, for any users, roles, permissions and     *)
(* operations, any number of requests and of changes, and links of any     *)
(* shape, cyclic ones included.                                            *)
(*                                                                         *)
(* The argument: what a walk knows lies between the links that were there  *)
(* all the time since it arrived and those that were there at some time.   *)
(* A change can only add to the second and take from the first, so what    *)
(* was learnt before it stays true; a query reads a state that lies        *)
(* between the two as well.  Once nothing is left to load, the visited     *)
(* roles are closed under inheritance along the lasting links.             *)
(***************************************************************************)
EXTENDS Authorization, TLAPS

-----------------------------------------------------------------------------
(***************************************************************************)
(* What a walk knows                                                       *)
(***************************************************************************)
\* A change leaves what a walk knows as it is (Commit).
LEMMA KnowledgeLasts ==
    ASSUME NEW q \in Walking, NEW U, NEW E, NEW V, NEW D,
           WalkKnows(q, U, E), U \subseteq V, D \subseteq E
    PROVE  WalkKnows(q, V, D)
<1>1. FoundOn(q, V)
  BY DEF WalkKnows, FoundOn, Inherited
<1>2. KnowsAllOf(q, D)
  BY DEF WalkKnows, KnowsAllOf, Misses
<1> QED BY <1>1, <1>2 DEF WalkKnows

\* A request that arrives knows nothing yet.
LEMMA ArrivedKnows ==
    ASSUME NEW q \in Walking, q.phase = "arrived", q.todo = {},
           q.visited = {}, q.held = {}, q.covers = {}, NEW U, NEW E
    PROVE  WalkKnows(q, U, E)
BY DEF WalkKnows, FoundOn, KnowsAllOf

\* The roles of the user (QueryRoles).
LEMMA RolesKnown ==
    ASSUME NEW q \in Walking, NEW G \in SUBSET Link, NEW U, NEW E,
           WalkKnows(q, U, E), E \subseteq G, G \subseteq U,
           q.phase = "arrived"
    PROVE  LET p == [q EXCEPT !.phase = "roles", !.todo = Targets(q.user, G)]
           IN  p \in Walking /\ WalkKnows(p, U, E)
<1> DEFINE p == [q EXCEPT !.phase = "roles", !.todo = Targets(q.user, G)]
<1>1. Targets(q.user, G) \subseteq Role
  BY DisjointAssumption DEF Targets, Link, Walking, Row
<1>2. /\ p.phase = "roles" /\ p.todo = Targets(q.user, G) /\ p.user = q.user
      /\ p.visited = {} /\ p.held = q.held /\ p.covers = q.covers
      /\ p \in Walking
  BY <1>1 DEF Walking, WalkKnows
<1> HIDE DEF p
<1>3. FoundOn(p, U)
  <2>1. \A r \in p.todo : <<q.user, r>> \in U
    BY <1>2 DEF Targets
  <2>2. ASSUME NEW S \in SUBSET Role, Inherited(S, U, p.user)
        PROVE  p.todo \union p.visited \subseteq S
    BY <1>1, <1>2, <2>1, <2>2 DEF Inherited
  <2> QED BY <1>2, <2>2 DEF FoundOn, WalkKnows
<1>4. KnowsAllOf(p, E)
  <2>1. \A r \in Role : <<q.user, r>> \in E => r \in p.todo
    BY <1>2 DEF Targets, Row
  <2> QED BY <1>2, <2>1 DEF KnowsAllOf, WalkKnows
<1> QED BY <1>2, <1>3, <1>4 DEF WalkKnows, p

\* A role that is skipped was visited (Skip).
LEMMA SkippedKnown ==
    ASSUME NEW q \in Walking, NEW U, NEW E, WalkKnows(q, U, E),
           q.phase = "roles", NEW r \in q.todo \intersect q.visited
    PROVE  LET p == [q EXCEPT !.todo = @ \ {r}]
           IN  p \in Walking /\ WalkKnows(p, U, E)
<1> DEFINE p == [q EXCEPT !.todo = @ \ {r}]
<1>1. /\ p.phase = "roles" /\ p.todo = q.todo \ {r} /\ p.user = q.user
      /\ p.visited = q.visited /\ p.held = q.held /\ p.covers = q.covers
      /\ p.current = q.current /\ p \in Walking
  BY DEF Walking
<1> HIDE DEF p
<1>2. p.todo \union p.visited = q.todo \union q.visited
  BY <1>1
<1>3. FoundOn(p, U)
  BY <1>1, <1>2 DEF FoundOn, WalkKnows
<1>4. KnowsAllOf(p, E)
  BY <1>1, <1>2 DEF KnowsAllOf, WalkKnows, Misses
<1> QED BY <1>1, <1>3, <1>4 DEF WalkKnows, p

\* The next role (LoadRole).
LEMMA RoleKnown ==
    ASSUME NEW q \in Walking, NEW U, NEW E, WalkKnows(q, U, E),
           q.phase = "roles", NEW r \in q.todo, Loads(q, r)
    PROVE  LET p == [q EXCEPT !.phase = "permissions", !.current = r,
                              !.todo = @ \ {r}, !.visited = @ \union {r}]
           IN  p \in Walking /\ WalkKnows(p, U, E)
<1> DEFINE p == [q EXCEPT !.phase = "permissions", !.current = r,
                          !.todo = @ \ {r}, !.visited = @ \union {r}]
<1>1. /\ p.phase = "permissions" /\ p.todo = q.todo \ {r} /\ p.user = q.user
      /\ p.visited = q.visited \union {r} /\ p.held = q.held
      /\ p.covers = q.covers /\ p.current = r /\ p \in Walking
  BY DEF Walking
<1> HIDE DEF p
<1>2. p.todo \union p.visited = q.todo \union q.visited
  BY <1>1
<1>3. FoundOn(p, U)
  BY <1>1, <1>2 DEF FoundOn, WalkKnows
<1>4. KnowsAllOf(p, E)
  <2>1. \A x \in q.visited :
          /\ \A s \in Role : <<x, s>> \in E => s \in q.todo \union q.visited
          /\ \A s \in Permission : <<x, s>> \in E => s \in q.held
    BY DEF KnowsAllOf, WalkKnows, Misses
  <2> QED BY <1>1, <1>2, <2>1 DEF KnowsAllOf, WalkKnows, Misses
<1> QED BY <1>1, <1>3, <1>4 DEF WalkKnows, p

\* Its permissions, and what they cover now (LoadPermissions).
LEMMA PermissionsKnown ==
    ASSUME NEW q \in Walking, NEW G \in SUBSET Link, NEW U, NEW E,
           WalkKnows(q, U, E), E \subseteq G, G \subseteq U,
           q.phase = "permissions"
    PROVE  LET P == Targets(q.current, G) \intersect Permission
               p == [q EXCEPT !.phase = "parents",
                       !.held = @ \union P,
                       !.covers = {c \in @ : c[1] \notin P}
                                  \union {l \in G : l[1] \in P}]
           IN  p \in Walking /\ WalkKnows(p, U, E)
<1> DEFINE P == Targets(q.current, G) \intersect Permission
           C == {c \in q.covers : c[1] \notin P} \union {l \in G : l[1] \in P}
           p == [q EXCEPT !.phase = "parents", !.held = @ \union P, !.covers = C]
<1>1. C \subseteq Permission \X Operation
  <2>1. \A l \in G : l[1] \in Permission => l \in Permission \X Operation
    BY DisjointAssumption DEF Link
  <2> QED BY <2>1 DEF Walking
<1>2. /\ p.phase = "parents" /\ p.todo = q.todo /\ p.user = q.user
      /\ p.visited = q.visited /\ p.held = q.held \union P
      /\ p.covers = C /\ p.current = q.current /\ p \in Walking
  BY <1>1 DEF Walking
<1>3. FoundOn(p, U)
  <2>1. C \subseteq U
    BY DEF WalkKnows, FoundOn
  <2>2. \A x \in P : <<q.current, x>> \in U /\ q.current \in q.visited
    BY DEF Targets, WalkKnows
  <2> HIDE DEF p, C, P
  <2>3. \A x \in q.held : \E y \in q.visited : <<y, x>> \in U
    BY DEF WalkKnows, FoundOn
  <2> QED BY <1>2, <2>1, <2>2, <2>3 DEF FoundOn, WalkKnows
<1>4. KnowsAllOf(p, E)
  <2>1. \A x \in q.held \union P, o \in Operation :
          <<x, o>> \in E => <<x, o>> \in C
    BY DEF WalkKnows, KnowsAllOf
  <2>2. \A x \in Permission : <<q.current, x>> \in E => x \in P
    BY DEF Targets, Row
  <2> HIDE DEF p, C, P
  <2>3. \A x \in q.visited :
          /\ x = q.current \/ \A s \in Role :
               <<x, s>> \in E => s \in q.todo \union q.visited
          /\ x = q.current \/ \A s \in Permission : <<x, s>> \in E => s \in q.held
    BY DEF KnowsAllOf, WalkKnows, Misses
  <2>4. \A r \in Role : <<q.user, r>> \in E => r \in q.todo \union q.visited
    BY DEF KnowsAllOf, WalkKnows
  <2> QED BY <1>2, <2>1, <2>2, <2>3, <2>4 DEF KnowsAllOf, Misses
<1> HIDE DEF p, C
<1>5. p \in Walking /\ WalkKnows(p, U, E)
  BY <1>2, <1>3, <1>4 DEF WalkKnows
<1> QED BY <1>5 DEF p, C

\* Its parents (LoadParents).
LEMMA ParentsKnown ==
    ASSUME NEW q \in Walking, link \in SUBSET Link, NEW U, NEW E,
           WalkKnows(q, U, E), E \subseteq link, link \subseteq U,
           q.phase = "parents"
    PROVE  LET p == [q EXCEPT !.phase = "roles",
                              !.todo = @ \union ParentsOf(q.current)]
           IN  p \in Walking /\ WalkKnows(p, U, E)
<1> DEFINE p == [q EXCEPT !.phase = "roles",
                          !.todo = @ \union ParentsOf(q.current)]
<1>1. /\ p.phase = "roles" /\ p.todo = q.todo \union ParentsOf(q.current)
      /\ p.user = q.user /\ p.visited = q.visited /\ p.held = q.held
      /\ p.covers = q.covers /\ p.current = q.current /\ p \in Walking
  BY DEF Walking, ParentsOf
<1> HIDE DEF p
<1>2. q.current \in q.visited
  BY DEF WalkKnows
<1>3. FoundOn(p, U)
  <2>1. ASSUME NEW S \in SUBSET Role, Inherited(S, U, p.user)
        PROVE  p.todo \union p.visited \subseteq S
    <3>1. q.todo \union q.visited \subseteq S
      BY <1>1, <2>1 DEF FoundOn, WalkKnows
    <3>2. ParentsOf(q.current) \subseteq S
      BY <1>2, <2>1, <3>1 DEF Inherited, ParentsOf
    <3> QED BY <1>1, <3>1, <3>2
  <2> QED BY <1>1, <2>1 DEF FoundOn, WalkKnows
<1>4. KnowsAllOf(p, E)
  <2>1. \A r \in Role : <<q.current, r>> \in E => r \in p.todo
    BY <1>1 DEF ParentsOf
  <2>2. \A x \in q.visited :
          /\ x = q.current \/ \A s \in Role :
               <<x, s>> \in E => s \in q.todo \union q.visited
          /\ \A s \in Permission : <<x, s>> \in E => s \in q.held
    BY DEF KnowsAllOf, WalkKnows, Misses
  <2>3. \A r \in Role : <<q.user, r>> \in E => r \in q.todo \union q.visited
    BY DEF KnowsAllOf, WalkKnows
  <2>4. \A x \in q.held, o \in Operation : <<x, o>> \in E => <<x, o>> \in q.covers
    BY DEF KnowsAllOf, WalkKnows
  <2> QED BY <1>1, <2>1, <2>2, <2>3, <2>4 DEF KnowsAllOf
<1> QED BY <1>1, <1>3, <1>4 DEF WalkKnows, p

-----------------------------------------------------------------------------
(***************************************************************************)
(* Each action preserves the invariant.                                    *)
(***************************************************************************)
LEMMA InitIInv == Init => IInv
<1> SUFFICES ASSUME Init PROVE IInv
  OBVIOUS
<1>1. rows \in SUBSET Row /\ Protected \subseteq rows /\ spent = rows
  BY DEF Init
<1>2. <<admin, AdminRole>> \in link /\ link \in SUBSET Link
  BY AdminAssumption DEF Init, Link
<1>3. TypeOK
  BY <1>1, <1>2 DEF Init, TypeOK
<1>4. WalksKnow
  BY DEF Init, WalksKnow
<1> QED BY <1>1, <1>2, <1>3, <1>4 DEF IInv, OnlyUpdateUserStrips, AdminKeepsRole

\* A commit leaves what the walks know as it is.
LEMMA CommitKeepsWalks ==
    ASSUME TypeOK, WalksKnow, NEW G \in SUBSET Link, Commit(G)
    PROVE  /\ WalksKnow' /\ link' = G
           /\ walk' \in [Walker -> Walking \union {Idle}]
           /\ seen' \in [Walker -> SUBSET SUBSET Link]
           /\ commits' \in Nat
<1>1. /\ link' = G /\ walk' = walk /\ commits' = commits + 1
      /\ seen' = [w \in Walker |-> IF walk[w] = Idle THEN {}
                                   ELSE seen[w] \union {G}]
  BY DEF Commit
<1>2. /\ walk' \in [Walker -> Walking \union {Idle}]
      /\ seen' \in [Walker -> SUBSET SUBSET Link]
      /\ commits' \in Nat
  BY <1>1 DEF TypeOK
<1>3. ASSUME NEW w \in Walker, walk'[w] # Idle
      PROVE  link' \in seen'[w]
             /\ WalkKnows(walk'[w], Sometime(w)', Throughout(w)')
  <2>1. walk'[w] = walk[w] /\ walk[w] # Idle /\ seen'[w] = seen[w] \union {G}
    BY <1>1, <1>3
  <2>2. walk[w] \in Walking /\ link \in seen[w]
        /\ WalkKnows(walk[w], Sometime(w), Throughout(w))
    BY <2>1 DEF TypeOK, WalksKnow
  <2>3. Sometime(w) \subseteq Sometime(w)'
    BY <2>1 DEF Sometime
  <2>4. Throughout(w)' \subseteq Throughout(w)
    BY <1>1, <2>1, <2>2 DEF Throughout
  <2>5. WalkKnows(walk[w], Sometime(w)', Throughout(w)')
    BY <2>2, <2>3, <2>4, KnowledgeLasts
  <2> QED BY <1>1, <2>1, <2>5
<1> QED BY <1>1, <1>2, <1>3 DEF WalksKnow

\* What every change has to show: rows it may take, links it may make, and
\* that admin keeps its role or UpdateUser is to blame.
LEMMA CommitKeepsIInv ==
    ASSUME IInv, NEW G \in SUBSET Link, Commit(G),
           rows' \in SUBSET Row, spent' \in SUBSET Row, stripped' \in BOOLEAN,
           Protected \subseteq rows', rows' \subseteq spent',
           ~stripped' => <<admin, AdminRole>> \in G
    PROVE  IInv'
<1>1. TypeOK /\ WalksKnow
  BY DEF IInv
<1>2. WalksKnow' /\ link' = G /\ walk' \in [Walker -> Walking \union {Idle}]
      /\ seen' \in [Walker -> SUBSET SUBSET Link] /\ commits' \in Nat
  BY <1>1, CommitKeepsWalks
<1>3. TypeOK'
  BY <1>2 DEF TypeOK
<1>4. OnlyUpdateUserStrips'
  BY <1>2 DEF OnlyUpdateUserStrips, AdminKeepsRole
<1> QED BY <1>2, <1>3, <1>4 DEF IInv, Protected

\* The links of one row are replaced.
LEMMA ReplacedLinks ==
    ASSUME TypeOK, NEW n, NEW Kind, NEW T, {n} \X T \subseteq Link
    PROVE  /\ Replaced(n, Kind, T) \in SUBSET Link
           /\ n # admin /\ <<admin, AdminRole>> \in link
                => <<admin, AdminRole>> \in Replaced(n, Kind, T)
BY DEF Replaced, TypeOK

\* What is asked for are links.
LEMMA AskedLinks ==
    ASSUME NEW n, NEW Kind, NEW T \in Asked(n, Kind)
    PROVE  {n} \X T \subseteq Link
BY DEF Asked

LEMMA Ids ==
    ASSUME NEW r \in Role, NEW p \in Permission
    PROVE  r # admin /\ p # admin /\ p # AdminRole
BY AdminAssumption, DisjointAssumption

LEMMA DeleteKeepsIInv ==
    ASSUME IInv, NEW n \in Row \ Protected, Delete(n)
    PROVE  IInv'
<1> DEFINE G == {l \in link : n \notin {l[1], l[2]}}
<1>1. /\ Commit(G) /\ rows' = rows \ {n} /\ spent' = spent
      /\ stripped' = stripped
  BY DEF Delete
<1>2. G \in SUBSET Link /\ n # admin /\ n # AdminRole
  BY DEF IInv, TypeOK, Protected
<1>3. ~stripped => <<admin, AdminRole>> \in G
  BY <1>2 DEF IInv, OnlyUpdateUserStrips, AdminKeepsRole
<1>4. /\ rows' \in SUBSET Row /\ spent' \in SUBSET Row /\ stripped' \in BOOLEAN
      /\ Protected \subseteq rows' /\ rows' \subseteq spent'
  BY <1>1 DEF IInv, TypeOK
<1> HIDE DEF G
<1> QED BY <1>1, <1>2, <1>3, <1>4, CommitKeepsIInv

\* An action that replaces links of one row other than admin.
LEMMA ReplaceKeepsIInv ==
    ASSUME IInv, NEW n, n # admin, NEW Kind, NEW T \in Asked(n, Kind),
           NEW K, Commit(Replaced(n, K, T)), stripped' = stripped,
           rows' \in SUBSET Row, spent' \in SUBSET Row,
           Protected \subseteq rows', rows' \subseteq spent'
    PROVE  IInv'
<1>1. {n} \X T \subseteq Link
  BY AskedLinks
<1>2. /\ Replaced(n, K, T) \in SUBSET Link
      /\ <<admin, AdminRole>> \in link
           => <<admin, AdminRole>> \in Replaced(n, K, T)
  BY <1>1, ReplacedLinks DEF IInv
<1>3. ~stripped' => <<admin, AdminRole>> \in Replaced(n, K, T)
  BY <1>2 DEF IInv, OnlyUpdateUserStrips, AdminKeepsRole
<1>4. stripped' \in BOOLEAN
  BY DEF IInv, TypeOK
<1> QED BY <1>2, <1>3, <1>4, CommitKeepsIInv

LEMMA InsertedRows ==
    ASSUME IInv, NEW n \in Row, Insert(n)
    PROVE  /\ n \notin Protected
           /\ rows' \in SUBSET Row /\ spent' \in SUBSET Row
           /\ Protected \subseteq rows' /\ rows' \subseteq spent'
BY DEF IInv, TypeOK, Insert

LEMMA SameRows ==
    ASSUME IInv, UNCHANGED <<rows, spent>>
    PROVE  /\ rows' \in SUBSET Row /\ spent' \in SUBSET Row
           /\ Protected \subseteq rows' /\ rows' \subseteq spent'
BY DEF IInv, TypeOK

LEMMA CreateUserKeepsIInv ==
    ASSUME IInv, NEW u \in User, CreateUser(u)
    PROVE  IInv'
<1>1. PICK R \in Asked(u, Role) : Commit(Replaced(u, Role, R))
  BY DEF CreateUser
<1>2. Insert(u) /\ stripped' = stripped /\ u \in Row
  BY DEF CreateUser, Row
<1>3. u # admin
  BY <1>2, InsertedRows DEF Protected
<1> QED BY <1>1, <1>2, <1>3, InsertedRows, ReplaceKeepsIInv

LEMMA UpdateUserKeepsIInv ==
    ASSUME IInv, NEW u \in User, UpdateUser(u)
    PROVE  IInv'
<1>1. PICK R \in Asked(u, Role) :
        /\ Commit(IF R = {} THEN link ELSE Replaced(u, Role, R))
        /\ stripped' = (stripped \/ (u = admin /\ R # {} /\ AdminRole \notin R))
  BY DEF UpdateUser
<1> DEFINE G == IF R = {} THEN link ELSE Replaced(u, Role, R)
<1>2. {u} \X R \subseteq Link
  BY AskedLinks
<1>3. /\ Replaced(u, Role, R) \in SUBSET Link
      /\ u # admin /\ <<admin, AdminRole>> \in link
           => <<admin, AdminRole>> \in Replaced(u, Role, R)
  BY <1>2, ReplacedLinks DEF IInv
<1>4. u = admin /\ AdminRole \in R
        => <<admin, AdminRole>> \in Replaced(u, Role, R)
  BY DEF Replaced
<1>5. G \in SUBSET Link
  BY <1>3 DEF IInv, TypeOK
<1>6. stripped \in BOOLEAN /\ (~stripped => <<admin, AdminRole>> \in link)
  BY DEF IInv, TypeOK, OnlyUpdateUserStrips, AdminKeepsRole
<1>7. stripped' \in BOOLEAN /\ (~stripped' => <<admin, AdminRole>> \in G)
  BY <1>1, <1>3, <1>4, <1>6
<1>8. UNCHANGED <<rows, spent>>
  BY DEF UpdateUser
<1>9. Commit(G)
  BY <1>1
<1> HIDE DEF G
<1> QED BY <1>5, <1>7, <1>8, <1>9, SameRows, CommitKeepsIInv

LEMMA AssignUserRolesKeepsIInv ==
    ASSUME IInv, NEW u \in User, AssignUserRoles(u)
    PROVE  IInv'
<1>1. PICK R \in Asked(u, Role) : Commit(Replaced(u, Role, RolesOf(u, R)))
  BY DEF AssignUserRoles
<1>2. {u} \X RolesOf(u, R) \subseteq Link
  BY AskedLinks, AdminAssumption DEF RolesOf, Link
<1>3. Replaced(u, Role, RolesOf(u, R)) \in SUBSET Link
  BY <1>2, ReplacedLinks DEF IInv
<1>4. <<admin, AdminRole>> \in link
        => <<admin, AdminRole>> \in Replaced(u, Role, RolesOf(u, R))
  <2>1. CASE u = admin
    BY <2>1 DEF Replaced, RolesOf
  <2>2. CASE u # admin
    BY <1>2, <2>2, ReplacedLinks DEF IInv
  <2> QED BY <2>1, <2>2
<1>5. /\ stripped' \in BOOLEAN
      /\ ~stripped' => <<admin, AdminRole>> \in Replaced(u, Role, RolesOf(u, R))
  BY <1>4 DEF IInv, TypeOK, OnlyUpdateUserStrips, AdminKeepsRole, AssignUserRoles
<1>6. UNCHANGED <<rows, spent>>
  BY DEF AssignUserRoles
<1> QED BY <1>1, <1>3, <1>5, <1>6, SameRows, CommitKeepsIInv

LEMMA CreateRoleKeepsIInv ==
    ASSUME IInv, NEW r \in Role, CreateRole(r)
    PROVE  IInv'
<1>1. PICK P \in Asked(r, Permission), R \in SUBSET Role :
        Commit(link \union ({r} \X (P \union R)))
  BY DEF CreateRole
<1>2. {r} \X P \subseteq Link /\ {r} \X R \subseteq Link
  BY AskedLinks DEF Link
<1>3. link \union ({r} \X (P \union R)) \in SUBSET Link
  BY <1>2 DEF IInv, TypeOK
<1>4. Insert(r) /\ stripped' = stripped /\ r \in Row
  BY DEF CreateRole, Row
<1>5. /\ stripped' \in BOOLEAN
      /\ ~stripped' => <<admin, AdminRole>> \in link \union ({r} \X (P \union R))
  BY <1>4 DEF IInv, TypeOK, OnlyUpdateUserStrips, AdminKeepsRole
<1> QED BY <1>1, <1>3, <1>4, <1>5, InsertedRows, CommitKeepsIInv

LEMMA RoleLinksKeepIInv ==
    ASSUME IInv, NEW r \in Role,
           SetRoleInheritances(r) \/ AssignRolePermissions(r)
    PROVE  IInv'
<1>1. \/ \E P \in Asked(r, Role \ {r}) : Commit(Replaced(r, Role, P))
      \/ \E P \in Asked(r, Permission) : Commit(Replaced(r, Permission, P))
  BY DEF SetRoleInheritances, AssignRolePermissions
<1>2. UNCHANGED <<rows, spent>> /\ stripped' = stripped
  BY DEF SetRoleInheritances, AssignRolePermissions
<1>3. r # admin
  BY AdminAssumption, DisjointAssumption
<1> QED BY <1>1, <1>2, <1>3, SameRows, ReplaceKeepsIInv

LEMMA PermissionKeepsIInv ==
    ASSUME IInv, NEW p \in Permission,
           CreatePermission(p) \/ UpdatePermission(p)
    PROVE  IInv'
<1>1. PICK O \in Asked(p, Operation) : Commit(Replaced(p, Operation, O))
  BY DEF CreatePermission, UpdatePermission
<1>2. p \in Row /\ p # admin
  BY AdminAssumption, DisjointAssumption DEF Row
<1>3. stripped' = stripped
  BY DEF CreatePermission, UpdatePermission
<1>4. Insert(p) \/ UNCHANGED <<rows, spent>>
  BY DEF CreatePermission, UpdatePermission
<1> QED BY <1>1, <1>2, <1>3, <1>4, InsertedRows, SameRows, ReplaceKeepsIInv

LEMMA DeletionsKeepIInv ==
    ASSUME IInv,
           \/ \E u \in User : DeleteUser(u)
           \/ \E r \in Role : DeleteRole(r)
           \/ \E p \in Permission : DeletePermission(p)
    PROVE  IInv'
<1>1. PICK n \in Row \ Protected : Delete(n)
  BY AdminAssumption, DisjointAssumption
     DEF DeleteUser, DeleteRole, DeletePermission, MayDeleteUser, Row, Protected
<1> QED BY <1>1, DeleteKeepsIInv

LEMMA BootstrapKeepsIInv ==
    ASSUME IInv, BootstrapRole \/ BootstrapAdmin
    PROVE  IInv'
<1>1. UNCHANGED <<rows, spent>>
  BY DEF BootstrapRole, BootstrapAdmin
<1>2. CASE BootstrapRole
  <2> DEFINE G == link \union ({AdminRole} \X SystemPermission)
  <2>1. G \in SUBSET Link
    BY AdminAssumption DEF IInv, TypeOK, Link
  <2>2. stripped' \in BOOLEAN /\ (~stripped' => <<admin, AdminRole>> \in G)
    BY <1>2 DEF BootstrapRole, IInv, TypeOK, OnlyUpdateUserStrips, AdminKeepsRole
  <2>3. Commit(G)
    BY <1>2 DEF BootstrapRole
  <2> HIDE DEF G
  <2> QED BY <1>1, <2>1, <2>2, <2>3, SameRows, CommitKeepsIInv
<1>3. CASE BootstrapAdmin
  <2> DEFINE G == link \union {<<admin, AdminRole>>}
  <2>1. G \in SUBSET Link
    BY AdminAssumption DEF IInv, TypeOK, Link
  <2>2. stripped' \in BOOLEAN /\ <<admin, AdminRole>> \in G
    BY <1>3 DEF BootstrapAdmin
  <2>3. Commit(G)
    BY <1>3 DEF BootstrapAdmin
  <2> HIDE DEF G
  <2> QED BY <1>1, <2>1, <2>2, <2>3, SameRows, CommitKeepsIInv
<1> QED BY <1>2, <1>3

LEMMA ChangeKeepsIInv ==
    ASSUME IInv, Change
    PROVE  IInv'
BY CreateUserKeepsIInv, UpdateUserKeepsIInv, AssignUserRolesKeepsIInv,
   CreateRoleKeepsIInv, RoleLinksKeepIInv, PermissionKeepsIInv,
   DeletionsKeepIInv, BootstrapKeepsIInv DEF Change

-----------------------------------------------------------------------------
\* A walk moves on by itself, knowing more.
LEMMA GotoKeepsIInv ==
    ASSUME IInv, NEW w \in Walker, walk[w] # Idle, NEW q \in Walking,
           Goto(w, q), WalkKnows(q, Sometime(w), Throughout(w))
    PROVE  IInv'
<1>1. /\ walk' = [walk EXCEPT ![w] = q] /\ UNCHANGED <<seen, tables>>
      /\ walk \in [Walker -> Walking \union {Idle}]
  BY DEF Goto, IInv, TypeOK
<1>2. UNCHANGED <<rows, spent, link, stripped, commits, seen>>
  BY <1>1 DEF tables
<1>3. /\ \A v \in Walker : walk'[v] = IF v = w THEN q ELSE walk[v]
      /\ walk' \in [Walker -> Walking \union {Idle}]
  BY <1>1
<1>4. \A v \in Walker : Sometime(v)' = Sometime(v) /\ Throughout(v)' = Throughout(v)
  BY <1>2 DEF Sometime, Throughout
<1>5. \A v \in Walker : walk[v] # Idle =>
        link \in seen[v] /\ WalkKnows(walk[v], Sometime(v), Throughout(v))
  BY DEF IInv, WalksKnow
<1>6. \A v \in Walker : walk'[v] # Idle =>
        link' \in seen'[v] /\ WalkKnows(walk'[v], Sometime(v)', Throughout(v)')
  <2>1. ASSUME NEW v \in Walker, walk'[v] # Idle
        PROVE  link' \in seen'[v]
               /\ WalkKnows(walk'[v], Sometime(v)', Throughout(v)')
    <3>1. CASE v = w
      BY <1>2, <1>3, <1>4, <1>5, <3>1
    <3>2. CASE v # w
      BY <1>2, <1>3, <1>4, <1>5, <2>1, <3>2
    <3> QED BY <3>1, <3>2
  <2> QED BY <2>1
<1>7. TypeOK' /\ Protected \subseteq rows' /\ rows' \subseteq spent'
      /\ OnlyUpdateUserStrips'
  BY <1>2, <1>3 DEF IInv, TypeOK, OnlyUpdateUserStrips, AdminKeepsRole
<1> QED BY <1>6, <1>7 DEF IInv, WalksKnow, Protected

\* The state a query shows lies between what was there all the time and what
\* was there at some time.
LEMMA LinkIsBetween ==
    ASSUME IInv, NEW w \in Walker, walk[w] # Idle
    PROVE  /\ Throughout(w) \subseteq link /\ link \subseteq Sometime(w)
           /\ link \in SUBSET Link /\ walk[w] \in Walking
           /\ WalkKnows(walk[w], Sometime(w), Throughout(w))
BY DEF IInv, TypeOK, WalksKnow, Throughout, Sometime

LEMMA ReturnKeepsIInv ==
    ASSUME IInv, NEW w \in Walker, Return(w)
    PROVE  IInv'
<1>1. /\ walk' = [walk EXCEPT ![w] = Idle] /\ seen' = [seen EXCEPT ![w] = {}]
      /\ UNCHANGED <<rows, spent, link, stripped, commits>>
  BY DEF Return, tables
<1>2. TypeOK
  BY DEF IInv
<1>3. TypeOK'
  BY <1>1, <1>2 DEF TypeOK
<1>4. \A v \in Walker : walk'[v] # Idle =>
        v # w /\ walk'[v] = walk[v] /\ seen'[v] = seen[v]
  BY <1>1, <1>2 DEF TypeOK
<1>5. \A v \in Walker : walk'[v] # Idle =>
        Sometime(v)' = Sometime(v) /\ Throughout(v)' = Throughout(v)
  BY <1>1, <1>4 DEF Sometime, Throughout
<1>6. WalksKnow'
  BY <1>1, <1>4, <1>5 DEF IInv, WalksKnow
<1> QED BY <1>1, <1>3, <1>6 DEF IInv, Protected, OnlyUpdateUserStrips, AdminKeepsRole

LEMMA ArriveKeepsIInv ==
    ASSUME IInv, NEW w \in Walker, NEW u \in User, NEW o \in Operation,
           Arrive(w, u, o)
    PROVE  IInv'
<1> DEFINE q == [phase |-> "arrived", user |-> u, op |-> o, todo |-> {},
                 visited |-> {}, current |-> AdminRole, held |-> {},
                 covers |-> {}]
<1>1. q \in Walking
  BY AdminAssumption DEF Walking
<1>2. \A U, E : WalkKnows(q, U, E)
  BY <1>1, ArrivedKnows
<1>3. /\ walk' = [walk EXCEPT ![w] = q] /\ seen' = [seen EXCEPT ![w] = {link}]
      /\ UNCHANGED <<rows, spent, link, stripped, commits>>
  BY DEF Arrive, tables
<1> HIDE DEF q
<1>4. TypeOK
  BY DEF IInv
<1>5. TypeOK'
  BY <1>1, <1>3, <1>4 DEF TypeOK
<1>6. \A v \in Walker :
        IF v = w THEN walk'[v] = q /\ seen'[v] = {link}
                 ELSE walk'[v] = walk[v] /\ seen'[v] = seen[v]
  BY <1>3, <1>4 DEF TypeOK
<1>7. \A v \in Walker : v # w =>
        Sometime(v)' = Sometime(v) /\ Throughout(v)' = Throughout(v)
  BY <1>3, <1>6 DEF Sometime, Throughout
<1>8. WalksKnow'
  <2>1. ASSUME NEW v \in Walker, walk'[v] # Idle
        PROVE  link' \in seen'[v]
               /\ WalkKnows(walk'[v], Sometime(v)', Throughout(v)')
    <3>1. CASE v = w
      BY <1>2, <1>3, <1>6, <3>1
    <3>2. CASE v # w
      BY <1>3, <1>6, <1>7, <2>1, <3>2 DEF IInv, WalksKnow
    <3> QED BY <3>1, <3>2
  <2> QED BY <2>1 DEF WalksKnow
<1> QED BY <1>3, <1>5, <1>8 DEF IInv, Protected, OnlyUpdateUserStrips, AdminKeepsRole

LEMMA WalkKeepsIInv ==
    ASSUME IInv, NEW w \in Walker, Walk(w) \/ Fails(w)
    PROVE  IInv'
<1>1. CASE QueryRoles(w)
  <2> DEFINE p == [walk[w] EXCEPT !.phase = "roles",
                                  !.todo = Targets(walk[w].user, link)]
  <2>1. walk[w] # Idle /\ walk[w].phase = "arrived" /\ Goto(w, p)
    BY <1>1 DEF QueryRoles, In
  <2>2. p \in Walking /\ WalkKnows(p, Sometime(w), Throughout(w))
    BY <2>1, LinkIsBetween, RolesKnown
  <2> HIDE DEF p
  <2> QED BY <2>1, <2>2, GotoKeepsIInv
<1>2. CASE Skip(w)
  <2>1. PICK r \in walk[w].todo \intersect walk[w].visited :
          Goto(w, [walk[w] EXCEPT !.todo = @ \ {r}])
    BY <1>2 DEF Skip
  <2> DEFINE p == [walk[w] EXCEPT !.todo = @ \ {r}]
  <2>2. walk[w] # Idle /\ walk[w].phase = "roles" /\ Goto(w, p)
    BY <1>2, <2>1 DEF Skip, In
  <2>3. p \in Walking /\ WalkKnows(p, Sometime(w), Throughout(w))
    BY <2>2, LinkIsBetween, SkippedKnown
  <2> HIDE DEF p
  <2> QED BY <2>2, <2>3, GotoKeepsIInv
<1>3. CASE LoadRole(w)
  <2>1. PICK r \in walk[w].todo :
          /\ Loads(walk[w], r)
          /\ IF r \in rows
             THEN Goto(w, [walk[w] EXCEPT
                    !.phase = "permissions", !.current = r,
                    !.todo = @ \ {r}, !.visited = @ \union {r}])
             ELSE Return(w)
    BY <1>3 DEF LoadRole
  <2> DEFINE p == [walk[w] EXCEPT
                     !.phase = "permissions", !.current = r,
                     !.todo = @ \ {r}, !.visited = @ \union {r}]
  <2>2. walk[w] # Idle /\ walk[w].phase = "roles"
    BY <1>3 DEF LoadRole, In
  <2>3. p \in Walking /\ WalkKnows(p, Sometime(w), Throughout(w))
    BY <2>1, <2>2, LinkIsBetween, RoleKnown
  <2>4. Goto(w, p) \/ Return(w)
    BY <2>1
  <2> HIDE DEF p
  <2> QED BY <2>2, <2>3, <2>4, GotoKeepsIInv, ReturnKeepsIInv
<1>4. CASE LoadPermissions(w)
  <2> DEFINE P == Targets(walk[w].current, link) \intersect Permission
             p == [walk[w] EXCEPT
                     !.phase = "parents", !.held = @ \union P,
                     !.covers = {c \in @ : c[1] \notin P}
                                \union {l \in link : l[1] \in P}]
  <2>1. walk[w] # Idle /\ walk[w].phase = "permissions" /\ Goto(w, p)
    BY <1>4 DEF LoadPermissions, In
  <2>2. p \in Walking /\ WalkKnows(p, Sometime(w), Throughout(w))
    BY <2>1, LinkIsBetween, PermissionsKnown
  <2> HIDE DEF p
  <2> QED BY <2>1, <2>2, GotoKeepsIInv
<1>5. CASE LoadParents(w)
  <2> DEFINE p == [walk[w] EXCEPT
                     !.phase = "roles",
                     !.todo = @ \union ParentsOf(walk[w].current)]
  <2>1. walk[w] # Idle /\ walk[w].phase = "parents" /\ Goto(w, p)
    BY <1>5 DEF LoadParents, In
  <2>2. p \in Walking /\ WalkKnows(p, Sometime(w), Throughout(w))
    BY <2>1, LinkIsBetween, ParentsKnown
  <2> HIDE DEF p
  <2> QED BY <2>1, <2>2, GotoKeepsIInv
<1>6. CASE Reply(w) \/ Fails(w)
  BY <1>6, ReturnKeepsIInv DEF Reply, Fails
<1> QED BY <1>1, <1>2, <1>3, <1>4, <1>5, <1>6 DEF Walk

LEMMA NextIInv == IInv /\ [Next]_vars => IInv'
<1> SUFFICES ASSUME IInv, [Next]_vars PROVE IInv'
  OBVIOUS
<1>1. CASE Change
  BY <1>1, ChangeKeepsIInv
<1>2. CASE \E w \in Walker, u \in User, o \in Operation : Arrive(w, u, o)
  BY <1>2, ArriveKeepsIInv
<1>3. CASE \E w \in Walker : Walk(w) \/ Fails(w)
  BY <1>3, WalkKeepsIInv
<1>4. CASE UNCHANGED vars
  <2>1. UNCHANGED <<rows, spent, link, walk, seen, stripped, commits>>
    BY <1>4 DEF vars
  <2>2. \A w \in Walker :
          Sometime(w)' = Sometime(w) /\ Throughout(w)' = Throughout(w)
    BY <2>1 DEF Sometime, Throughout
  <2> QED BY <2>1, <2>2 DEF IInv, TypeOK, WalksKnow, OnlyUpdateUserStrips,
             AdminKeepsRole, Protected
<1> QED BY <1>1, <1>2, <1>3, <1>4 DEF Next

-----------------------------------------------------------------------------
(***************************************************************************)
(* The theorems                                                            *)
(***************************************************************************)
\* What Authorize knows lies between the lasting and the passing links, and
\* the protected rows stay, whatever requests run and in whatever order.
THEOREM AuthorizationInvariant == Spec => []IInv
<1> QED BY InitIInv, NextIInv, PTL DEF Spec

\* A walk that allows found a chain of links, each seen by one of its queries
\* (hasPermission after collectRolePermissions).
LEMMA FoundGrants ==
    ASSUME NEW q \in Walking, NEW U, FoundOn(q, U), HasPermission(q)
    PROVE  Granted(U, q.user, q.op)
<1> SUFFICES ASSUME NEW S \in SUBSET Role, Inherited(S, U, q.user)
             PROVE  \E r \in S : Gives(U, r, q.op)
  BY DEF Granted
<1>2. q.visited \subseteq S
  BY DEF FoundOn
<1>3. CASE AdminRole \in q.visited
  BY <1>2, <1>3 DEF Gives
<1>4. CASE \E p \in q.held : p \in SystemPermission \/ <<p, q.op>> \in q.covers
  <2>1. PICK p \in q.held : p \in SystemPermission \/ <<p, q.op>> \in q.covers
    BY <1>4
  <2>2. PICK x \in q.visited : <<x, p>> \in U
    BY DEF FoundOn
  <2>3. p \in Permission /\ (p \in SystemPermission \/ <<p, q.op>> \in U)
    BY <2>1 DEF FoundOn, Walking
  <2> QED BY <1>2, <2>2, <2>3 DEF Gives
<1> QED BY <1>3, <1>4 DEF HasPermission

LEMMA AllowedByIInv == IInv => AllowedOnLinksSeen
<1> SUFFICES ASSUME IInv, NEW w \in Walker, Complete(w), HasPermission(walk[w])
             PROVE  GrantedIn(w, Sometime(w))
  BY DEF AllowedOnLinksSeen
<1>1. walk[w] \in Walking /\ FoundOn(walk[w], Sometime(w))
  BY LinkIsBetween DEF Complete, In, WalkKnows
<1> QED BY <1>1, FoundGrants DEF GrantedIn

\* A complete walk that refuses has visited a set of roles closed under
\* inheritance along the lasting links, none of which gives the operation.
LEMMA KnownRefuses ==
    ASSUME NEW q \in Walking, NEW E, KnowsAllOf(q, E),
           q.phase = "roles", q.todo = {}, ~HasPermission(q)
    PROVE  ~Granted(E, q.user, q.op)
<1>2. /\ \A r \in Role : <<q.user, r>> \in E => r \in q.visited
      /\ \A x \in q.visited, r \in Role : <<x, r>> \in E => r \in q.visited
      /\ \A x \in q.visited, p \in Permission : <<x, p>> \in E => p \in q.held
      /\ \A p \in q.held, o \in Operation : <<p, o>> \in E => <<p, o>> \in q.covers
  BY DEF KnowsAllOf, Misses
<1>3. Inherited(q.visited, E, q.user) /\ q.visited \in SUBSET Role
  BY <1>2 DEF Inherited, Walking
<1>4. ASSUME NEW x \in q.visited PROVE ~Gives(E, x, q.op)
  BY <1>2 DEF Gives, HasPermission, Walking
<1> QED BY <1>3, <1>4 DEF Granted

LEMMA RefusedByIInv == IInv => RefusedForLackOfLinks
<1> SUFFICES ASSUME IInv, NEW w \in Walker, Complete(w), ~HasPermission(walk[w])
             PROVE  ~GrantedIn(w, Throughout(w))
  BY DEF RefusedForLackOfLinks
<1>1. /\ walk[w] \in Walking /\ KnowsAllOf(walk[w], Throughout(w))
      /\ walk[w].phase = "roles" /\ walk[w].todo = {}
  BY LinkIsBetween DEF Complete, In, WalkKnows
<1> QED BY <1>1, KnownRefuses DEF GrantedIn

\* Whatever changes under it, a request is allowed only on links that were
\* there at some time since it arrived.
THEOREM AllowedOnLinksSeenAlways == Spec => []AllowedOnLinksSeen
<1> QED BY AuthorizationInvariant, AllowedByIInv, PTL

\* ... and is refused only if no grant was there all the time.
THEOREM RefusedForLackOfLinksAlways == Spec => []RefusedForLackOfLinks
<1> QED BY AuthorizationInvariant, RefusedByIInv, PTL

\* Only UpdateUser takes the Admin role from admin.
THEOREM OnlyUpdateUserStripsAdmin == Spec => []OnlyUpdateUserStrips
<1>1. IInv => OnlyUpdateUserStrips
  BY DEF IInv
<1> QED BY <1>1, AuthorizationInvariant, PTL
=============================================================================
