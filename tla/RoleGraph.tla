------------------------------ MODULE RoleGraph ------------------------------
(***************************************************************************)
(* The role inheritance graph of internal/data/auth.go: roles, the table   *)
(* auth_role_parents, and the requests that change them.                   *)
(*                                                                         *)
(* A role is created with its parents in one insert, deleted (its edges    *)
(* cascade), or given a new set of parents.  The last is the interesting   *)
(* one: SetRoleInheritances first walks the ancestors of every wanted      *)
(* parent, one query per role and every query on ReadEnt, and only then    *)
(* updates WriteEnt, in a transaction of its own.  Nothing ties the walk   *)
(* to the update, so whatever another request commits in between, and      *)
(* whatever a read replica has not seen yet, is not part of what was       *)
(* validated.                                                              *)
(*                                                                         *)
(* Abstractions: names, descriptions and permissions are left out; a role  *)
(* is its id, and an id (auto increment) is never reused.  The recursion   *)
(* of roleReaches is a set of roles still to visit: which of them is       *)
(* visited next is not the code's to choose (the query has no ORDER BY).   *)
(***************************************************************************)
EXTENDS Naturals, FiniteSets

CONSTANTS
    Role,         \* ids a role may ever have
    Protected,    \* roles that exist from the start and DeleteRole refuses
    Writer,       \* concurrent SetRoleInheritances requests
    ReadReplica   \* TRUE iff read_sources names another database

ASSUME ProtectedAssumption == Protected \subseteq Role
ASSUME ReplicaAssumption == ReadReplica \in BOOLEAN

VARIABLES
    roles,     \* the roles in auth_roles (WriteEnt)
    spent,     \* every id handed out so far
    parents,   \* auth_role_parents (WriteEnt): the parents of each role
    replica,   \* what the read replica holds
    request,   \* the SetRoleInheritances requests in progress
    clean,     \* history: no edge can have escaped this request's walk
    raced      \* history: some update was made by a request that was not clean

vars == <<roles, spent, parents, replica, request, clean, raced>>

(***************************************************************************)
(* Types                                                                   *)
(***************************************************************************)
Graph == [roles : SUBSET Role, parents : [Role -> SUBSET Role]]

Idle == [phase |-> "idle"]

\* A request inside validateRoleInheritance: parents not looked at yet
\* (todo), the walk from the current one (stack, visited), and the roles
\* the earlier walks have visited (cleared).  The code forgets the last;
\* it is kept to state what the walks have established.
Validating ==
    [phase : {"validating"}, role : Role, want : SUBSET Role,
     todo : SUBSET Role, stack : SUBSET Role,
     visited : SUBSET Role, cleared : SUBSET Role]

TypeOK ==
    /\ roles \in SUBSET Role
    /\ spent \in SUBSET Role
    /\ parents \in [Role -> SUBSET Role]
    /\ replica \in Graph
    /\ request \in [Writer -> Validating \union {Idle}]
    /\ clean \in [Writer -> BOOLEAN]
    /\ raced \in BOOLEAN

(***************************************************************************)
(* The databases                                                           *)
(***************************************************************************)
Primary == [roles |-> roles, parents |-> parents]

\* NewData opens a second client only when a read source is configured.
ReadEnt == IF ReadReplica THEN replica ELSE Primary

Init ==
    /\ roles = Protected
    /\ spent = Protected
    /\ parents = [r \in Role |-> {}]
    /\ replica = Primary
    /\ request = [w \in Writer |-> Idle]
    /\ clean = [w \in Writer |-> TRUE]
    /\ raced = FALSE

\* The read replica catches up.
Replicate ==
    /\ ReadReplica
    /\ replica # Primary
    /\ replica' = Primary
    /\ UNCHANGED <<roles, spent, parents, request, clean, raced>>

\* parents after the edges of r are replaced by edges to P
WithParents(r, P) == [parents EXCEPT ![r] = P]

\* Mutant: the edges to a deleted role stay behind.
WithoutRoleOwnEdgesOnly(r) == [parents EXCEPT ![r] = {}]

\* parents after every edge from and to r is gone (ON DELETE CASCADE)
WithoutRole(r) ==
    [x \in Role |-> IF x = r THEN {} ELSE parents[x] \ {r}]

\* The requests whose walk the edges of r to P may have escaped.
Disturbed(r, P) ==
    IF P \subseteq parents[r] THEN {} ELSE {w \in Writer : request[w] # Idle}

(***************************************************************************)
(* CreateRole: validateRoleInheritance with role id 0 looks at nothing, so *)
(* a parent list may even hold the id the new row is about to get.         *)
(***************************************************************************)
CreateRoleParents(r) == SUBSET (roles \union {r})

CreateRole(r) ==
    /\ r \notin spent
    /\ \E P \in CreateRoleParents(r) :
          /\ parents' = WithParents(r, P)
          /\ clean' = [w \in Writer |-> clean[w] /\ w \notin Disturbed(r, P)]
    /\ roles' = roles \union {r}
    /\ spent' = spent \union {r}
    /\ UNCHANGED <<replica, request, raced>>

(***************************************************************************)
(* DeleteRole looks the role up on ReadEnt and deletes it on WriteEnt.     *)
(***************************************************************************)
Deletable(r) == r \in ReadEnt.roles /\ r \notin Protected

DeleteRole(r) ==
    /\ Deletable(r)
    /\ r \in roles
    /\ roles' = roles \ {r}
    /\ parents' = WithoutRole(r)
    /\ UNCHANGED <<spent, replica, request, clean, raced>>

(***************************************************************************)
(* SetRoleInheritances                                                     *)
(***************************************************************************)
\* The replica, if there is one, misses no edge.
ReadsEveryEdge == \A x \in Role : parents[x] \subseteq ReadEnt.parents[x]

SetRoleInheritances(w, r, P) ==
    /\ request[w] = Idle
    /\ request' = [request EXCEPT ![w] =
          [phase |-> "validating", role |-> r, want |-> P, todo |-> P,
           stack |-> {}, visited |-> {}, cleared |-> {}]]
    /\ clean' = [clean EXCEPT ![w] = ReadsEveryEdge]
    /\ UNCHANGED <<roles, spent, parents, replica, raced>>

IsValidating(w) == request[w].phase = "validating"

\* An error or a verdict returns from the handler and changes nothing.
Abandon(w) ==
    /\ request' = [request EXCEPT ![w] = Idle]
    /\ clean' = [clean EXCEPT ![w] = TRUE]
    /\ UNCHANGED <<roles, spent, parents, replica, raced>>

\* validateRoleInheritance turns to the next wanted parent: the role itself
\* is refused, any other is walked from with an empty visited map.
NextParent(w) ==
    /\ IsValidating(w)
    /\ request[w].stack = {}
    /\ \E p \in request[w].todo :
          IF p = request[w].role
          THEN Abandon(w)
          ELSE /\ request' = [request EXCEPT
                     ![w].todo = @ \ {p},
                     ![w].stack = {p},
                     ![w].visited = {},
                     ![w].cleared = @ \union request[w].visited]
               /\ UNCHANGED <<roles, spent, parents, replica, clean, raced>>

\* Mutant: only the wanted parents are looked at, not their ancestors.
ExpandedShallow(q, f) ==
    [q EXCEPT !.visited = @ \union {f}, !.stack = @ \ {f}]

\* Mutant: the visited map is not consulted.
ExpandedAgain(q, f) ==
    [q EXCEPT !.visited = @ \union {f},
              !.stack = (@ \ {f}) \union ReadEnt.parents[f]]

\* What a request knows after it has asked for the parents of f.
Expanded(q, f) ==
    IF f \in q.visited
    THEN [q EXCEPT !.stack = @ \ {f}]
    ELSE [q EXCEPT !.visited = @ \union {f},
                   !.stack = (@ \ {f}) \union ReadEnt.parents[f]]

\* One call of roleReaches.
Visit(w) ==
    /\ IsValidating(w)
    /\ \E f \in request[w].stack :
          IF f = request[w].role
          THEN Abandon(w)
          ELSE /\ request' = [request EXCEPT ![w] = Expanded(@, f)]
               /\ UNCHANGED <<roles, spent, parents, replica, clean, raced>>

\* Mutant: the loop over the wanted parents returns after the first.
ValidatedFirst(q) == q.stack = {} /\ (q.todo = q.want => q.want = {})

\* The request has walked from every wanted parent and met no cycle.
Validated(q) == q.todo = {} /\ q.stack = {}

\* The update; it fails when a role it names is no longer (or was never)
\* there.
Commit(w) ==
    /\ IsValidating(w)
    /\ Validated(request[w])
    /\ LET r == request[w].role
           P == request[w].want
       IN  IF {r} \union P \subseteq roles
           THEN /\ parents' = WithParents(r, P)
                /\ clean' = [v \in Writer |->
                      v = w \/ (clean[v] /\ v \notin Disturbed(r, P))]
                /\ raced' = (raced \/ ~clean[w])
                /\ request' = [request EXCEPT ![w] = Idle]
                /\ UNCHANGED <<roles, spent, replica>>
           ELSE Abandon(w)

Walk(w) == NextParent(w) \/ Visit(w) \/ Commit(w)

Next ==
    \/ Replicate
    \/ \E r \in Role : CreateRole(r) \/ DeleteRole(r)
    \/ \E w \in Writer, r \in Role, P \in SUBSET Role :
          SetRoleInheritances(w, r, P)
    \/ \E w \in Writer : Walk(w)

Spec == Init /\ [][Next]_vars

\* A handler that has started runs on: Go schedules its goroutine and the
\* database answers.  Nothing is assumed of the clients or of the replica.
FairSpec == Spec /\ \A w \in Writer : WF_vars(Walk(w))

(***************************************************************************)
(* Properties                                                              *)
(***************************************************************************)
\* Every set of roles has one that inherits from no other role of the set.
Acyclic(G) ==
    \A S \in (SUBSET Role) \ {{}} : \E r \in S : (G[r] \ {r}) \cap S = {}

\* "Role inheritance cannot contain cycles" (docs/auth-permission-design.md,
\* line 15), for cycles through two roles or more: what
\* validateRoleInheritance is there to ensure before every update.  A role
\* may inherit from itself: CreateRole validates as role 0, which is no
\* role, and the insert accepts the id it is about to use as a parent.
NoLongCycle == Acyclic(parents)

\* What the walk of roleReaches is worth: as long as every update was made
\* by a request whose walk no edge escaped (no edge was committed between
\* its first query and its update, and the database it read had them all),
\* the graph has no cycle through two roles or more, although requests ran
\* concurrently, roles were deleted under them, and a role may inherit from
\* itself (validateRoleInheritance, SetRoleInheritances).
CyclesNeedStaleRead == ~raced => NoLongCycle

\* A role that DeleteRole has removed leaves no edge behind, and no request
\* in flight brings one back: inheritance only ever names existing roles.
EdgesNameRoles ==
    \A r \in Role : /\ parents[r] \subseteq roles
                    /\ r \notin roles => parents[r] = {}

\* A walk ends whatever the other requests do to the graph under it, and
\* even when the graph already has a cycle (the visited map of roleReaches).
ValidationEnds == \A w \in Writer : IsValidating(w) ~> ~IsValidating(w)

(***************************************************************************)
(* The inductive invariant behind CyclesNeedStaleRead                      *)
(***************************************************************************)
\* What a clean walk knows of the edges G: the parents of whatever it has
\* visited are visited or waiting, so once nothing waits the visited roles
\* hold all their ancestors; and the role being changed is not among them.
WalkClosed(q, G) ==
    /\ \A x \in q.visited : G[x] \subseteq q.visited \union q.stack
    /\ \A x \in q.cleared : G[x] \subseteq q.cleared
    /\ q.role \notin q.visited \union q.cleared
    /\ q.want \subseteq q.todo \union q.stack \union q.visited \union q.cleared

CleanWalks ==
    \A w \in Writer : (IsValidating(w) /\ clean[w]) =>
        ReadsEveryEdge /\ WalkClosed(request[w], parents)

\* The state of every request and both databases are related as above in
\* every state CreateRole, DeleteRole and SetRoleInheritances can reach:
\* edges name existing roles, and a clean walk knows all it has relied on.
IInv ==
    /\ TypeOK
    /\ Protected \subseteq roles
    /\ roles \subseteq spent
    /\ EdgesNameRoles
    /\ CleanWalks
    /\ CyclesNeedStaleRead

(***************************************************************************)
(* Why a walk ends                                                         *)
(***************************************************************************)
\* How many steps a request has left at most: a number of three digits to
\* the base of the number of roles plus one.  It counts the wanted parents,
\* the roles the current walk may still expand and the ones it has stacked.
Base == Cardinality(Role) + 1

StepsLeft(q) ==
    Base * (Base * Cardinality(q.todo) + Cardinality(Role \ q.visited))
    + Cardinality(q.stack)

\* No walk is ever longer than that, however many parents the graph gives the
\* roles while it goes on.
WalksAreShort ==
    \A w \in Writer :
        IsValidating(w) => StepsLeft(request[w]) < Base * (Base * Base)

\* Every step of validateRoleInheritance and roleReaches brings the request
\* nearer to its end, and nothing anyone else does, to the graph or to the
\* replica, takes it further away.
EveryStepCounts ==
    [][\A w \in Writer : IsValidating(w) =>
         IF Walk(w)
         THEN request'[w] = Idle \/ StepsLeft(request'[w]) < StepsLeft(request[w])
         ELSE request'[w] = request[w]]_vars
=============================================================================
