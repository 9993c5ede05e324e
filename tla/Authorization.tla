---------------------------- MODULE Authorization ----------------------------
(***************************************************************************)
(* What a request may do: internal/biz/auth.go (Authorize, hasPermission), *)
(* internal/data/auth.go (EffectivePermissions, collectRolePermissions)    *)
(* and the requests that change users, roles and permissions under it.     *)
(*                                                                         *)
(* Authorize is a walk of the tables by single SELECTs: the user, its      *)
(* roles, and then for every role it has not visited the role itself, its  *)
(* permissions and its parents.  No transaction holds them together, so    *)
(* the walk may see one part of the tables before a change and another     *)
(* part after it.                                                          *)
(*                                                                         *)
(* Abstractions: the tables are the ones ReadEnt shows (with a read        *)
(* replica, the changes in the order they arrive there).  A row of         *)
(* auth_user_roles, auth_role_parents or auth_role_permissions is a link,  *)
(* and so is every operation a permission's pattern covers.  Service       *)
(* accounts are walked by the same collectRolePermissions after a lookup   *)
(* of their own (ServiceAccounts).  Whether a user is disabled is asked    *)
(* once, on arrival, and is left open.  Ids are never reused.              *)
(***************************************************************************)
EXTENDS Naturals, FiniteSets

CONSTANTS
    User, Role, Permission, Operation,
    admin,              \* the user of BootstrapAdmin
    AdminRole,          \* the role named Admin
    SystemPermission,   \* the permissions system:*, which cover everything
    Walker,             \* requests being authorized at once
    Possible,           \* links that requests may ask for
    MaxChanges          \* bound: commits to the tables

ASSUME AdminAssumption ==
    /\ admin \in User /\ AdminRole \in Role
    /\ SystemPermission \subseteq Permission
    /\ MaxChanges \in Nat

\* Ids of different tables are different.
ASSUME DisjointAssumption ==
    /\ User \intersect Role = {} /\ User \intersect Permission = {}
    /\ Role \intersect Permission = {} /\ Role \intersect Operation = {}

VARIABLES
    rows,       \* the users, roles and permissions there are
    spent,      \* ... and ever were
    link,       \* the join tables, and what permissions cover
    walk,       \* the requests being authorized
    seen,       \* history: the link tables since the request arrived
    stripped,   \* history: UpdateUser took Admin from admin, no start since
    commits     \* number of changes so far

vars == <<rows, spent, link, walk, seen, stripped, commits>>

(***************************************************************************)
(* Types                                                                   *)
(***************************************************************************)
Row == User \union Role \union Permission

Link == (User \X Role) \union (Role \X Role) \union (Role \X Permission)
        \union (Permission \X Operation)

Protected == {admin, AdminRole} \union SystemPermission

Idle == [phase |-> "idle"]

\* A request inside Authorize: the roles still to load, the visited map, the
\* role being loaded, the roles and permissions collected, and what each
\* permission covered when it was last loaded.
Walking ==
    [phase : {"arrived", "roles", "permissions", "parents"},
     user : User, op : Operation, todo : SUBSET Role, visited : SUBSET Role,
     current : Role, held : SUBSET Permission,
     covers : SUBSET (Permission \X Operation)]

TypeOK ==
    /\ rows \in SUBSET Row
    /\ spent \in SUBSET Row
    /\ link \in SUBSET Link
    /\ walk \in [Walker -> Walking \union {Idle}]
    /\ seen \in [Walker -> SUBSET SUBSET Link]
    /\ stripped \in BOOLEAN
    /\ commits \in Nat

Targets(n, G) == {t \in Row \union Operation : <<n, t>> \in G}

(***************************************************************************)
(* Some state the requests can have left behind: any users, roles and      *)
(* permissions beside the protected ones, with any links.  Even cycles of  *)
(* roles are possible (RoleGraph).                                         *)
(***************************************************************************)
Init ==
    /\ rows \in {N \in SUBSET Row : Protected \subseteq N}
    /\ spent = rows
    /\ link \in {G \union {<<admin, AdminRole>>} :
                   G \in SUBSET {l \in Possible \intersect Link :
                                   {l[1], l[2]} \subseteq rows \union Operation}}
    /\ walk = [w \in Walker |-> Idle]
    /\ seen = [w \in Walker |-> {}]
    /\ stripped = FALSE
    /\ commits = 0

-----------------------------------------------------------------------------
(***************************************************************************)
(* Changes.  Each is one transaction; one that names a row that is not     *)
(* there fails on a foreign key and changes nothing.                       *)
(***************************************************************************)
\* The links become G.
Commit(G) ==
    /\ commits' = commits + 1
    /\ link' = G
    /\ seen' = [w \in Walker |->
                  IF walk[w] = Idle THEN {} ELSE seen[w] \union {G}]
    /\ walk' = walk

\* The links after those from n to things of a kind are replaced.
Replaced(n, Kind, T) ==
    {l \in link : l[1] # n \/ l[2] \notin Kind} \union ({n} \X T)

\* Links a request may ask for: to rows that exist.
Asked(n, Kind) ==
    {T \in SUBSET (Kind \intersect (rows \union Operation)) :
       {n} \X T \subseteq Possible \intersect Link}

\* The bound on the changes; row n is there to be changed.
MayChange == commits < MaxChanges
Present(n) == MayChange /\ n \in rows

Insert(n) ==
    /\ MayChange /\ n \notin spent
    /\ rows' = rows \union {n}
    /\ spent' = spent \union {n}

\* Deleting a row takes its links with it (ON DELETE CASCADE).
Delete(n) ==
    /\ Present(n)
    /\ rows' = rows \ {n}
    /\ Commit({l \in link : n \notin {l[1], l[2]}})
    /\ UNCHANGED <<spent, stripped>>

\* CreateUser; UpsertLDAPUser makes a user without roles.
CreateUser(u) ==
    /\ Insert(u)
    /\ \E R \in Asked(u, Role) : Commit(Replaced(u, Role, R))
    /\ UNCHANGED stripped

\* The roles are replaced as they are given, unless the list is empty.
UpdateUser(u) ==
    /\ Present(u)
    /\ \E R \in Asked(u, Role) :
         /\ Commit(IF R = {} THEN link ELSE Replaced(u, Role, R))
         /\ stripped' = (stripped \/ (u = admin /\ R # {} /\ AdminRole \notin R))
    /\ UNCHANGED <<rows, spent>>

\* Mutant: the system user is not told apart from the others.
MayDeleteAnyUser(u) == TRUE

MayDeleteUser(u) == u # admin

DeleteUser(u) == MayDeleteUser(u) /\ Delete(u)

\* Mutant: the roles are assigned as they are given.
RolesAsGiven(u, R) == R

\* The system user's list gets the Admin role if it lacks it.
RolesOf(u, R) == IF u = admin THEN R \union {AdminRole} ELSE R

AssignUserRoles(u) ==
    /\ Present(u)
    /\ \E R \in Asked(u, Role) : Commit(Replaced(u, Role, RolesOf(u, R)))
    /\ UNCHANGED <<rows, spent, stripped>>

\* The parents are not validated, and may include the role itself.
CreateRole(r) ==
    /\ Insert(r)
    /\ \E P \in Asked(r, Permission), R \in {T \in SUBSET Role :
           T \subseteq rows \union {r} /\ {r} \X T \subseteq Possible} :
         Commit(link \union ({r} \X (P \union R)))
    /\ UNCHANGED stripped

DeleteRole(r) == r # AdminRole /\ Delete(r)

\* The update of SetRoleInheritances.  Its validation reads what may change
\* before the update (RoleGraph): it only refuses the role itself for good.
SetRoleInheritances(r) ==
    /\ Present(r)
    /\ \E P \in Asked(r, Role \ {r}) : Commit(Replaced(r, Role, P))
    /\ UNCHANGED <<rows, spent, stripped>>

AssignRolePermissions(r) ==
    /\ Present(r)
    /\ \E P \in Asked(r, Permission) : Commit(Replaced(r, Permission, P))
    /\ UNCHANGED <<rows, spent, stripped>>

CreatePermission(p) ==
    /\ Insert(p)
    /\ \E O \in Asked(p, Operation) : Commit(Replaced(p, Operation, O))
    /\ UNCHANGED stripped

UpdatePermission(p) ==
    /\ Present(p)
    /\ \E O \in Asked(p, Operation) : Commit(Replaced(p, Operation, O))
    /\ UNCHANGED <<rows, spent, stripped>>

DeletePermission(p) == p \notin SystemPermission /\ Delete(p)

\* A start ensures that Admin has the system permission ...
BootstrapRole ==
    /\ MayChange
    /\ Commit(link \union ({AdminRole} \X SystemPermission))
    /\ UNCHANGED <<rows, spent, stripped>>

\* ... and, in a later statement, that admin has Admin.
BootstrapAdmin ==
    /\ MayChange
    /\ Commit(link \union {<<admin, AdminRole>>})
    /\ stripped' = FALSE
    /\ UNCHANGED <<rows, spent>>

Change ==
    \/ \E u \in User : CreateUser(u) \/ UpdateUser(u) \/ DeleteUser(u)
                       \/ AssignUserRoles(u)
    \/ \E r \in Role : CreateRole(r) \/ DeleteRole(r)
                       \/ SetRoleInheritances(r) \/ AssignRolePermissions(r)
    \/ \E p \in Permission : CreatePermission(p) \/ UpdatePermission(p)
                             \/ DeletePermission(p)
    \/ BootstrapRole \/ BootstrapAdmin

-----------------------------------------------------------------------------
(***************************************************************************)
(* The walk of Authorize, one query a step                                 *)
(***************************************************************************)
tables == <<rows, spent, link, stripped, commits>>

Goto(w, q) ==
    /\ walk' = [walk EXCEPT ![w] = q]
    /\ UNCHANGED seen
    /\ UNCHANGED tables

\* FindUserByID finds the user, and that it is enabled.
Arrive(w, u, o) ==
    /\ walk[w] = Idle
    /\ u \in rows
    /\ walk' = [walk EXCEPT ![w] =
         [phase |-> "arrived", user |-> u, op |-> o, todo |-> {},
          visited |-> {}, current |-> AdminRole, held |-> {}, covers |-> {}]]
    /\ seen' = [seen EXCEPT ![w] = {link}]
    /\ UNCHANGED tables

In(w, phase) == walk[w] # Idle /\ walk[w].phase = phase

\* The request is answered, or a query failed and it ends with an error.
Return(w) ==
    /\ walk' = [walk EXCEPT ![w] = Idle]
    /\ seen' = [seen EXCEPT ![w] = {}]
    /\ UNCHANGED tables

\* The user's roles.
QueryRoles(w) ==
    /\ In(w, "arrived")
    /\ Goto(w, [walk[w] EXCEPT !.phase = "roles",
                               !.todo = Targets(walk[w].user, link)])

\* A role visited before is not loaded again.
Skip(w) ==
    /\ In(w, "roles")
    /\ \E r \in walk[w].todo \intersect walk[w].visited :
         Goto(w, [walk[w] EXCEPT !.todo = @ \ {r}])

\* Mutant: the visited map is not consulted.
LoadsAnything(q, r) == TRUE

Loads(q, r) == r \notin q.visited

\* The role's own row; one that has gone fails the whole request.
LoadRole(w) ==
    /\ In(w, "roles")
    /\ \E r \in walk[w].todo :
         /\ Loads(walk[w], r)
         /\ IF r \in rows
            THEN Goto(w, [walk[w] EXCEPT
                   !.phase = "permissions", !.current = r,
                   !.todo = @ \ {r}, !.visited = @ \union {r}])
            ELSE Return(w)

\* The permissions the role has, and what they cover; one that was loaded
\* before is overwritten.
LoadPermissions(w) ==
    /\ In(w, "permissions")
    /\ LET q == walk[w]
           P == Targets(q.current, link) \intersect Permission
       IN  Goto(w, [q EXCEPT
             !.phase = "parents",
             !.held = @ \union P,
             !.covers = {c \in @ : c[1] \notin P}
                        \union {l \in link : l[1] \in P}])

\* Mutant: the roles that inherit from it instead.
ChildrenOf(r) == {c \in Role : <<c, r>> \in link}

\* Mutant: a role passes nothing on.
NoParents(r) == {}

ParentsOf(r) == {p \in Role : <<r, p>> \in link}

LoadParents(w) ==
    /\ In(w, "parents")
    /\ Goto(w, [walk[w] EXCEPT
         !.phase = "roles",
         !.todo = @ \union ParentsOf(walk[w].current)])

\* Every role within reach is loaded.
Complete(w) == In(w, "roles") /\ walk[w].todo = {}

\* hasPermission
HasPermission(q) ==
    \/ AdminRole \in q.visited
    \/ \E p \in q.held : p \in SystemPermission \/ <<p, q.op>> \in q.covers

Reply(w) == Complete(w) /\ Return(w)

Fails(w) == walk[w] # Idle /\ ~Complete(w) /\ Return(w)

Walk(w) == QueryRoles(w) \/ Skip(w) \/ LoadRole(w) \/ LoadPermissions(w)
           \/ LoadParents(w) \/ Reply(w)

Next ==
    \/ Change
    \/ \E w \in Walker, u \in User, o \in Operation : Arrive(w, u, o)
    \/ \E w \in Walker : Walk(w) \/ Fails(w)

Spec == Init /\ [][Next]_vars

\* The handler's goroutine runs on and its queries return.
FairSpec == Spec /\ \A w \in Walker : WF_vars(Walk(w))

-----------------------------------------------------------------------------
(***************************************************************************)
(* Properties                                                              *)
(***************************************************************************)
\* Role r alone gives operation o.
Gives(G, r, o) ==
    \/ r = AdminRole
    \/ \E p \in Permission : /\ <<r, p>> \in G
                             /\ p \in SystemPermission \/ <<p, o>> \in G

\* S holds the roles of u and with every role those it inherits from.
Inherited(S, G, u) ==
    \A r \in Role : (<<u, r>> \in G \/ \E c \in S : <<c, r>> \in G) => r \in S

\* What docs/auth-permission-design.md (lines 70 to 74) calls effective
\* permissions, in one state G of the tables: u has o iff no set of roles
\* that is closed under inheritance and holds those of u can do without it.
Granted(G, u, o) ==
    \A S \in SUBSET Role :
        Inherited(S, G, u) => \E r \in S : Gives(G, r, o)

GrantedIn(w, G) == Granted(G, walk[w].user, walk[w].op)

\* The links that were there at some time, and all the time, since w arrived.
Sometime(w) == UNION seen[w]
Throughout(w) == {l \in link : \A G \in seen[w] : l \in G}

\* A request is allowed only on links that were all there at some time since
\* it arrived: a grant withdrawn before, however often it was seen by earlier
\* requests, helps no later one (Authorize keeps nothing between requests).
AllowedOnLinksSeen ==
    \A w \in Walker :
        Complete(w) /\ HasPermission(walk[w]) => GrantedIn(w, Sometime(w))

\* A request is refused only if no grant was there all the time: changes
\* elsewhere in the tables, while the roles are walked one by one, never
\* make collectRolePermissions overlook one that is left alone.
RefusedForLackOfLinks ==
    \A w \in Walker :
        Complete(w) /\ ~HasPermission(walk[w]) =>
            ~GrantedIn(w, Throughout(w))

\* With at most one change on the way the answer is that of the tables before
\* or after it, although some of the queries of EffectivePermissions ran
\* before and others after: it takes two changes to mix.
AnswersOneState ==
    \A w \in Walker :
        Complete(w) /\ Cardinality(seen[w]) <= 2 =>
            \E G \in seen[w] : HasPermission(walk[w]) = GrantedIn(w, G)

\* Authorize ends, although the tables change under it and inheritance may
\* be cyclic.
AuthorizationEnds == \A w \in Walker : walk[w] # Idle ~> walk[w] = Idle

\* "The admin user must keep the Admin role"
\* (docs/auth-permission-design.md, line 14).
AdminKeepsRole == <<admin, AdminRole>> \in link

\* Of all the requests that change users and roles only UpdateUser takes the
\* Admin role from admin, and the next start gives it back.
OnlyUpdateUserStrips == ~stripped => AdminKeepsRole
(***************************************************************************)
(* The inductive invariant                                                 *)
(***************************************************************************)
\* What a walk has found, it found on links of U: every set closed under
\* inheritance along U holds the roles it knows.
FoundOn(q, U) ==
    /\ \A S \in SUBSET Role :
          Inherited(S, U, q.user) => q.todo \union q.visited \subseteq S
    /\ \A p \in q.held : \E x \in q.visited : <<x, p>> \in U
    /\ q.covers \subseteq U

\* A walk misses nothing of E: the roles of its user, the parents and the
\* permissions of a role it has loaded, what these cover.
Misses(q, x, phases) == x = q.current /\ q.phase \in phases

KnowsAllOf(q, E) ==
    /\ q.phase = "arrived" \/
         \A r \in Role : <<q.user, r>> \in E => r \in q.todo \union q.visited
    /\ \A x \in q.visited :
         /\ Misses(q, x, {"permissions", "parents"}) \/
              \A r \in Role : <<x, r>> \in E => r \in q.todo \union q.visited
         /\ Misses(q, x, {"permissions"}) \/
              \A p \in Permission : <<x, p>> \in E => p \in q.held
    /\ \A p \in q.held, o \in Operation : <<p, o>> \in E => <<p, o>> \in q.covers

WalkKnows(q, U, E) ==
    /\ q.phase \in {"permissions", "parents"} => q.current \in q.visited
    /\ q.phase = "arrived" => q.visited = {}
    /\ FoundOn(q, U)
    /\ KnowsAllOf(q, E)

WalksKnow ==
    \A w \in Walker : walk[w] # Idle =>
        link \in seen[w] /\ WalkKnows(walk[w], Sometime(w), Throughout(w))

\* What the queries of Authorize have shown so far, and the protected rows.
IInv ==
    /\ TypeOK
    /\ Protected \subseteq rows /\ rows \subseteq spent
    /\ WalksKnow
    /\ OnlyUpdateUserStrips

-----------------------------------------------------------------------------
(***************************************************************************)
(* One state                                                               *)
(*                                                                         *)
(* As long as the tables were in at most two states since a request        *)
(* arrived, its walk agrees with one of them: the two differ by a single   *)
(* change, which either only adds or only removes links, or replaces the   *)
(* links of one row to rows of one table.  Of the latter kind one query    *)
(* shows either all or nothing, and what a second query shows overwrites   *)
(* what the first one did (the operations of a permission).                *)
(***************************************************************************)
\* The roles whose parents, and whose permissions, were loaded.
Loaded(q) == {x \in q.visited : ~Misses(q, x, {"permissions", "parents"})}
Listed(q) == {x \in q.visited : ~Misses(q, x, {"permissions"})}

\* S holds what the queries made so far would lead to on G.
ClosedFor(q, G, S) ==
    \A r \in Role :
        (<<q.user, r>> \in G \/ \E x \in S \intersect Loaded(q) : <<x, r>> \in G)
            => r \in S

RolesAgree(q, G) ==
    /\ q.phase \in {"permissions", "parents"} => q.current \in q.visited
    /\ q.phase = "arrived" => q.todo = {} /\ q.visited = {} /\ q.held = {}
    /\ q.phase # "arrived" =>
         \A r \in Role : <<q.user, r>> \in G => r \in q.todo \union q.visited
    /\ \A x \in Loaded(q), r \in Role :
         <<x, r>> \in G => r \in q.todo \union q.visited
    /\ \A S \in SUBSET Role :
         ClosedFor(q, G, S) => q.todo \union q.visited \subseteq S

HeldAgree(q, G) ==
    /\ \A p \in q.held : \E x \in Listed(q) : <<x, p>> \in G
    /\ \A x \in Listed(q), p \in Permission : <<x, p>> \in G => p \in q.held

\* ... of the permissions other than those of P.
CoversAgree(q, G, P) ==
    /\ \A c \in q.covers : c[1] \notin P => c \in G /\ c[1] \in q.held
    /\ \A l \in G : l[1] \in q.held /\ l[1] \notin P => l \in q.covers

\* The walk is where it would be had the tables been G all the time.
AgreesWith(q, G) == RolesAgree(q, G) /\ HeldAgree(q, G) /\ CoversAgree(q, G, {})

\* G and H differ in the links from n to the rows of K at most.
Apart(G, H, n, K) ==
    \A l \in Link : l[1] # n \/ l[2] \notin K => (l \in G <=> l \in H)

\* The columns of the join tables that one change replaces.
Columns == (User \X {Role}) \union (Role \X {Role, Permission})
           \union (Permission \X {Operation})

ReplacedOne(G, H) == \E k \in Columns : Apart(G, H, k[1], k[2])

Comparable(G, H) == G \subseteq H \/ H \subseteq G

OneChange(G, H) == Comparable(G, H) \/ ReplacedOne(G, H)

AgreesWithOne(w) ==
    /\ IsFiniteSet(seen[w])
    /\ \A A \in seen[w] : seen[w] = {A} => AgreesWith(walk[w], A)
    /\ \A A, B \in seen[w] : seen[w] = {A, B} =>
         \/ Comparable(A, B)
         \/ ReplacedOne(A, B) /\ \E G \in {A, B} : AgreesWith(walk[w], G)

\* What holds of every request while AnswersOneState is open.
WalksAgreeWithOne == \A w \in Walker : walk[w] # Idle => AgreesWithOne(w)

(***************************************************************************)
(* Why a walk ends                                                         *)
(***************************************************************************)
\* How many steps a request has left at most: a number of two digits to a
\* base that leaves room for the queries of one role and the roles to load
\* after it.  It counts the roles that may still be loaded, and what there is
\* to do for the present one.
Roles == Cardinality(Role)
Base == Roles + 3

ForThisRole(q) ==
    CASE q.phase = "permissions" -> Roles + 2
      [] q.phase \in {"arrived", "parents"} -> Roles + 1
      [] q.phase = "roles" -> Cardinality(q.todo)

StepsLeft(q) == Base * Cardinality(Role \ q.visited) + ForThisRole(q)

\* No request is ever further from its answer than that, however many roles
\* and links are added while it walks.
WalksAreShort ==
    \A w \in Walker : walk[w] # Idle => StepsLeft(walk[w]) < Base * (Roles + 1)

\* Every query brings the request nearer to its answer, and no change of the
\* tables takes it further away (collectRolePermissions).
EveryStepCounts ==
    [][\A w \in Walker : walk[w] # Idle =>
         IF Walk(w)
         THEN walk'[w] = Idle \/ StepsLeft(walk'[w]) < StepsLeft(walk[w])
         ELSE walk'[w] \in {walk[w], Idle}]_vars
=============================================================================
