--------------------------- MODULE RoleGraphProofs ---------------------------
(***************************************************************************)
(* Theorems about RoleGraph, for every set of roles and of requests, with  *)
(* and without a read replica.                                             *)
(*                                                                         *)
(* The argument for CyclesNeedStaleRead: when a clean request commits, the *)
(* roles its walks have visited are closed under inheritance, hold every   *)
(* wanted parent and do not hold the role being changed.  A cycle through  *)
(* the new edges would leave the role for one of those parents and could   *)
(* never come back.                                                        *)
(***************************************************************************)
EXTENDS RoleGraph, FiniteSetTheorems, TLAPS

\* Giving a role parents whose ancestors do not hold it closes no cycle: the
\* reason SetRoleInheritances walks up from every wanted parent.
LEMMA NewParentsCloseNoCycle ==
    ASSUME NEW G \in [Role -> SUBSET Role], Acyclic(G),
           NEW r \in Role, NEW P \in SUBSET Role,
           NEW C \in SUBSET Role, \A x \in C : G[x] \subseteq C,
           P \subseteq C, r \notin C
    PROVE  Acyclic([G EXCEPT ![r] = P])
<1> DEFINE H == [G EXCEPT ![r] = P]
<1>1. \A x \in Role : H[x] = IF x = r THEN P ELSE G[x]
  OBVIOUS
<1> HIDE DEF H
<1>2. SUFFICES ASSUME NEW S \in (SUBSET Role) \ {{}},
                      \A x \in S : (H[x] \ {x}) \cap S # {}
               PROVE  FALSE
  BY DEF Acyclic, H
<1>3. r \in S
  <2>1. SUFFICES ASSUME r \notin S PROVE FALSE
    OBVIOUS
  <2>2. \A x \in S : H[x] = G[x]
    BY <1>1, <2>1
  <2> QED BY <1>2, <2>2 DEF Acyclic
<1>4. S \cap C # {}
  <2>1. PICK y \in S : y \in H[r] \ {r}
    BY <1>2, <1>3
  <2> QED BY <1>1, <2>1
<1>5. ASSUME NEW x \in S \cap C PROVE (G[x] \ {x}) \cap (S \cap C) # {}
  <2>1. H[x] = G[x] /\ G[x] \subseteq C
    BY <1>1, <1>5
  <2>2. PICK y \in S : y \in H[x] \ {x}
    BY <1>2
  <2> QED BY <2>1, <2>2
<1>6. \A x \in S \cap C : ~((G[x] \ {x}) \cap (S \cap C) = {})
  BY <1>5
<1>7. S \cap C \in (SUBSET Role) \ {{}}
  BY <1>4
<1> QED BY <1>6, <1>7 DEF Acyclic

\* A new role closes no cycle with older ones, whatever parents it is given:
\* nothing inherits from it yet (CreateRole).
LEMMA NewRoleClosesNoCycle ==
    ASSUME NEW G \in [Role -> SUBSET Role], Acyclic(G),
           NEW r \in Role, NEW P \in SUBSET Role,
           \A x \in Role : r \notin G[x]
    PROVE  Acyclic([G EXCEPT ![r] = P])
<1> DEFINE H == [G EXCEPT ![r] = P]
<1>1. \A x \in Role : H[x] = IF x = r THEN P ELSE G[x]
  OBVIOUS
<1> HIDE DEF H
<1>2. SUFFICES ASSUME NEW S \in (SUBSET Role) \ {{}},
                      \A x \in S : (H[x] \ {x}) \cap S # {}
               PROVE  FALSE
  BY DEF Acyclic, H
<1>3. S \ {r} # {}
  <2>1. PICK x \in S : TRUE
    OBVIOUS
  <2>2. PICK y \in S : y \in H[x] \ {x}
    BY <1>2
  <2> QED BY <2>2
<1>4. ASSUME NEW x \in S \ {r} PROVE (G[x] \ {x}) \cap (S \ {r}) # {}
  <2>1. H[x] = G[x] /\ r \notin G[x]
    BY <1>1
  <2>2. PICK y \in S : y \in H[x] \ {x}
    BY <1>2
  <2> QED BY <2>1, <2>2
<1>5. \A x \in S \ {r} : ~((G[x] \ {x}) \cap (S \ {r}) = {})
  BY <1>4
<1>6. S \ {r} \in (SUBSET Role) \ {{}}
  BY <1>3
<1> QED BY <1>5, <1>6 DEF Acyclic

\* Taking edges away closes no cycle (DeleteRole).
LEMMA FewerEdgesCloseNoCycle ==
    ASSUME NEW G, NEW H, Acyclic(G), \A x \in Role : H[x] \subseteq G[x]
    PROVE  Acyclic(H)
BY DEF Acyclic

\* ... nor does it undo what a walk knows.
LEMMA FewerEdgesKeepWalk ==
    ASSUME NEW G, NEW H, NEW q \in Validating, WalkClosed(q, G),
           \A x \in Role : H[x] \subseteq G[x]
    PROVE  WalkClosed(q, H)
BY DEF WalkClosed, Validating


\* A request in progress is a record of Validating.
LEMMA RequestInProgress ==
    ASSUME TypeOK, NEW w \in Writer
    PROVE  IsValidating(w) <=> request[w] \in Validating
BY DEF TypeOK, IsValidating, Validating, Idle

-----------------------------------------------------------------------------
(***************************************************************************)
(* Each action preserves the invariant.                                    *)
(***************************************************************************)
LEMMA InitIInv == Init => IInv
<1> SUFFICES ASSUME Init PROVE IInv
  OBVIOUS
<1>1. TypeOK
  BY ProtectedAssumption DEF Init, TypeOK, Graph, Primary
<1>2. EdgesNameRoles /\ NoLongCycle
  BY DEF Init, EdgesNameRoles, NoLongCycle, Acyclic
<1>3. CleanWalks
  BY DEF Init, CleanWalks, IsValidating, Idle
<1> QED BY <1>1, <1>2, <1>3 DEF Init, IInv, CyclesNeedStaleRead

\* The replica catching up only removes reasons to distrust a walk.
LEMMA ReplicateKeepsIInv == IInv /\ Replicate => IInv'
<1> SUFFICES ASSUME IInv, Replicate PROVE IInv'
  OBVIOUS
<1>1. TypeOK'
  BY DEF IInv, Replicate, TypeOK, Graph, Primary
<1>2. CleanWalks'
  BY DEF IInv, Replicate, CleanWalks, ReadsEveryEdge, ReadEnt, Primary,
         WalkClosed, IsValidating
<1> QED BY <1>1, <1>2 DEF IInv, Replicate, EdgesNameRoles,
                          CyclesNeedStaleRead, NoLongCycle

\* The roles and edges of a commit made by somebody else leave a request's
\* walk alone when they only take edges away.
LEMMA FewerEdgesKeepWalks ==
    ASSUME TypeOK, CleanWalks, TypeOK',
           NEW w \in Writer, IsValidating(w)', clean'[w],
           request'[w] = request[w], clean[w],
           \A x \in Role : parents'[x] \subseteq parents[x],
           replica' = replica
    PROVE  ReadsEveryEdge' /\ WalkClosed(request[w], parents)'
<1>1. IsValidating(w)
  BY DEF IsValidating
<1>2. request[w] \in Validating
  BY <1>1, RequestInProgress
<1>3. ReadsEveryEdge /\ WalkClosed(request[w], parents)
  BY <1>1 DEF CleanWalks
<1>4. ReadsEveryEdge'
  BY <1>3 DEF ReadsEveryEdge, ReadEnt, Primary
<1>5. WalkClosed(request[w], parents')
  BY <1>2, <1>3, FewerEdgesKeepWalk
<1> QED BY <1>4, <1>5 DEF WalkClosed

\* CreateRole keeps the invariant: nothing inherits from the new role yet,
\* so its edges, the one to itself apart, close no cycle.
LEMMA CreateRoleKeepsIInv ==
    ASSUME IInv, NEW r \in Role, CreateRole(r)
    PROVE  IInv'
<1>1. PICK P \in SUBSET (roles \union {r}) :
         /\ parents' = [parents EXCEPT ![r] = P]
         /\ clean' = [w \in Writer |-> clean[w] /\ w \notin Disturbed(r, P)]
  BY DEF CreateRole, CreateRoleParents, WithParents
<1>2. /\ r \notin roles
      /\ P \in SUBSET Role
      /\ parents \in [Role -> SUBSET Role]
      /\ UNCHANGED <<replica, request, raced>>
      /\ roles' = roles \union {r} /\ spent' = spent \union {r}
  BY DEF IInv, CreateRole, TypeOK
<1>3. \A x \in Role : parents'[x] = IF x = r THEN P ELSE parents[x]
  BY <1>1, <1>2
<1>4. parents[r] = {} /\ \A x \in Role : r \notin parents[x]
  BY <1>2 DEF IInv, EdgesNameRoles
<1>5. TypeOK'
  BY <1>1, <1>2 DEF IInv, TypeOK
<1>6. EdgesNameRoles'
  BY <1>2, <1>3 DEF IInv, EdgesNameRoles
<1>7. CleanWalks'
  <2> SUFFICES ASSUME NEW w \in Writer, IsValidating(w)', clean'[w]
               PROVE  ReadsEveryEdge' /\ WalkClosed(request[w], parents)'
    BY DEF CleanWalks
  <2>1. clean[w] /\ w \notin Disturbed(r, P)
    BY <1>1
  <2>2. request[w] # Idle
    BY <1>2 DEF IsValidating, Idle
  <2>3. P \subseteq parents[r]
    BY <2>1, <2>2 DEF Disturbed
  <2>4. \A x \in Role : parents'[x] \subseteq parents[x]
    BY <1>3, <2>3
  <2> QED BY <1>2, <1>5, <2>1, <2>4, FewerEdgesKeepWalks DEF IInv
<1>8. CyclesNeedStaleRead'
  <2> SUFFICES ASSUME ~raced' PROVE NoLongCycle'
    BY DEF CyclesNeedStaleRead
  <2>1. Acyclic(parents)
    BY <1>2 DEF IInv, CyclesNeedStaleRead, NoLongCycle
  <2> QED BY <1>1, <1>2, <1>4, <2>1, NewRoleClosesNoCycle
          DEF NoLongCycle
<1> QED BY <1>2, <1>5, <1>6, <1>7, <1>8 DEF IInv

\* DeleteRole keeps the invariant: it only removes edges, and its cascade
\* leaves none that names the role.
LEMMA DeleteRoleKeepsIInv ==
    ASSUME IInv, NEW r \in Role, DeleteRole(r)
    PROVE  IInv'
<1>1. /\ UNCHANGED <<spent, replica, request, clean, raced>>
      /\ r \notin Protected
      /\ roles' = roles \ {r}
      /\ parents' = [x \in Role |-> IF x = r THEN {} ELSE parents[x] \ {r}]
  BY DEF DeleteRole, Deletable, WithoutRole
<1>2. \A x \in Role : parents'[x] \subseteq parents[x]
  BY <1>1
<1>3. TypeOK'
  BY <1>1 DEF IInv, TypeOK
<1>4. EdgesNameRoles'
  BY <1>1 DEF IInv, EdgesNameRoles
<1>5. CleanWalks'
  <2> SUFFICES ASSUME NEW w \in Writer, IsValidating(w)', clean'[w]
               PROVE  ReadsEveryEdge' /\ WalkClosed(request[w], parents)'
    BY <1>1 DEF CleanWalks
  <2> QED BY <1>1, <1>2, <1>3, FewerEdgesKeepWalks DEF IInv
<1>6. CyclesNeedStaleRead'
  BY <1>1, <1>2, FewerEdgesCloseNoCycle
  DEF IInv, CyclesNeedStaleRead, NoLongCycle
<1> QED BY <1>1, <1>3, <1>4, <1>5, <1>6 DEF IInv

\* A request that returns without writing.
LEMMA AbandonKeepsIInv ==
    ASSUME IInv, NEW w \in Writer, Abandon(w)
    PROVE  IInv'
<1>1. TypeOK'
  BY DEF IInv, Abandon, TypeOK
<1>2. CleanWalks'
  BY DEF IInv, TypeOK, Abandon, CleanWalks, IsValidating, Idle,
         ReadsEveryEdge, ReadEnt, Primary, WalkClosed
<1> QED BY <1>1, <1>2 DEF IInv, Abandon, EdgesNameRoles,
                          CyclesNeedStaleRead, NoLongCycle

\* A step that changes one request in progress, and nothing else, keeps the
\* invariant when the request still knows what a clean walk knows.
LEMMA OneWalkKeepsIInv ==
    ASSUME IInv, NEW w \in Writer, NEW q \in Validating,
           request' = [request EXCEPT ![w] = q],
           clean'[w] => ReadsEveryEdge /\ WalkClosed(q, parents),
           clean' \in [Writer -> BOOLEAN],
           \A v \in Writer \ {w} : clean'[v] = clean[v],
           UNCHANGED <<roles, spent, parents, replica, raced>>
    PROVE  IInv'
<1>1. TypeOK'
  BY DEF IInv, TypeOK
<1>2. ReadsEveryEdge' <=> ReadsEveryEdge
  BY DEF ReadsEveryEdge, ReadEnt, Primary
<1>3. CleanWalks'
  <2> SUFFICES ASSUME NEW v \in Writer, IsValidating(v)', clean'[v]
               PROVE  ReadsEveryEdge' /\ WalkClosed(request'[v], parents)
    BY DEF CleanWalks, WalkClosed
  <2>1. CASE v = w
    BY <1>2, <2>1 DEF IInv, TypeOK
  <2>2. CASE v # w
    <3>1. request'[v] = request[v] /\ clean[v]
      BY <2>2 DEF IInv, TypeOK
    <3> QED BY <1>2, <3>1 DEF IInv, CleanWalks, IsValidating
  <2> QED BY <2>1, <2>2
<1> QED BY <1>1, <1>3 DEF IInv, EdgesNameRoles, CyclesNeedStaleRead,
                          NoLongCycle

\* The start of SetRoleInheritances keeps the invariant: nothing has been
\* visited, and the walk is clean only if its reads miss no edge.
LEMMA SetRoleInheritancesKeepsIInv ==
    ASSUME IInv, NEW w \in Writer, NEW r \in Role, NEW P \in SUBSET Role,
           SetRoleInheritances(w, r, P)
    PROVE  IInv'
<1> DEFINE q == [phase |-> "validating", role |-> r, want |-> P, todo |-> P,
                 stack |-> {}, visited |-> {}, cleared |-> {}]
<1>1. q \in Validating /\ WalkClosed(q, parents)
  BY DEF Validating, WalkClosed
<1>2. /\ request' = [request EXCEPT ![w] = q]
      /\ clean' = [clean EXCEPT ![w] = ReadsEveryEdge]
      /\ UNCHANGED <<roles, spent, parents, replica, raced>>
  BY DEF SetRoleInheritances
<1>3. /\ ReadsEveryEdge \in BOOLEAN
      /\ clean \in [Writer -> BOOLEAN]
  BY DEF ReadsEveryEdge, IInv, TypeOK
<1>4. /\ clean' \in [Writer -> BOOLEAN]
      /\ clean'[w] => ReadsEveryEdge
      /\ \A v \in Writer \ {w} : clean'[v] = clean[v]
  BY <1>2, <1>3
<1> HIDE DEF q
<1> QED BY <1>1, <1>2, <1>4, OneWalkKeepsIInv

\* Turning to the next wanted parent keeps the invariant: what the finished
\* walk visited is closed under parents and joins the cleared roles.
LEMMA NextParentKeepsIInv ==
    ASSUME IInv, NEW w \in Writer, NextParent(w)
    PROVE  IInv'
<1> DEFINE q == request[w]
<1>1. q \in Validating /\ q.stack = {} /\ IsValidating(w)
  BY RequestInProgress DEF NextParent, IInv
<1>2. PICK p \in q.todo :
         IF p = q.role
         THEN Abandon(w)
         ELSE /\ request' = [request EXCEPT
                    ![w].todo = @ \ {p},
                    ![w].stack = {p},
                    ![w].visited = {},
                    ![w].cleared = @ \union q.visited]
              /\ UNCHANGED <<roles, spent, parents, replica, clean, raced>>
  BY DEF NextParent
<1>3. CASE p = q.role
  BY <1>2, <1>3, AbandonKeepsIInv
<1>4. CASE p # q.role
  <2> DEFINE n == [q EXCEPT !.todo = @ \ {p}, !.stack = {p},
                            !.visited = {}, !.cleared = @ \union q.visited]
  <2>1. request' = [request EXCEPT ![w] = n]
    BY <1>2, <1>4 DEF IInv, TypeOK
  <2>2. n \in Validating
    BY <1>1 DEF Validating
  <2>3. ASSUME clean[w] PROVE ReadsEveryEdge /\ WalkClosed(n, parents)
    <3>1. ReadsEveryEdge /\ WalkClosed(q, parents)
      BY <1>1, <2>3 DEF IInv, CleanWalks
    <3>2. WalkClosed(n, parents)
      BY <1>1, <3>1 DEF WalkClosed, Validating
    <3> QED BY <3>1, <3>2
  <2>4. UNCHANGED <<roles, spent, parents, replica, clean, raced>>
    BY <1>2, <1>4
  <2>5. clean' \in [Writer -> BOOLEAN] /\ clean' = clean
    BY <2>4 DEF IInv, TypeOK
  <2> HIDE DEF n, q
  <2> QED BY <2>1, <2>2, <2>3, <2>4, <2>5, OneWalkKeepsIInv
<1> QED BY <1>3, <1>4

\* One call of roleReaches keeps the invariant: the parents of the visited
\* role are all pushed.
LEMMA VisitKeepsIInv ==
    ASSUME IInv, NEW w \in Writer, Visit(w)
    PROVE  IInv'
<1> DEFINE q == request[w]
<1>1. q \in Validating /\ IsValidating(w)
  BY RequestInProgress DEF Visit, IInv
<1>2. PICK f \in q.stack :
         IF f = q.role
         THEN Abandon(w)
         ELSE /\ request' = [request EXCEPT ![w] = Expanded(@, f)]
              /\ UNCHANGED <<roles, spent, parents, replica, clean, raced>>
  BY DEF Visit
<1>3. CASE f = q.role
  BY <1>2, <1>3, AbandonKeepsIInv
<1>4. CASE f # q.role
  <2>1. request' = [request EXCEPT ![w] = Expanded(q, f)]
    BY <1>2, <1>4 DEF IInv, TypeOK
  <2>2. f \in Role /\ ReadEnt.parents[f] \in SUBSET Role
    BY <1>1 DEF Validating, ReadEnt, Primary, IInv, TypeOK, Graph
  <2>3. Expanded(q, f) \in Validating
    BY <1>1, <2>2 DEF Expanded, Validating
  <2>4. ASSUME clean[w]
        PROVE  ReadsEveryEdge /\ WalkClosed(Expanded(q, f), parents)
    <3>1. ReadsEveryEdge /\ WalkClosed(q, parents)
      BY <1>1, <2>4 DEF IInv, CleanWalks
    <3>2. parents[f] \subseteq ReadEnt.parents[f]
      BY <2>2, <3>1 DEF ReadsEveryEdge
    <3>3. CASE f \in q.visited
      BY <1>1, <3>1, <3>3 DEF Expanded, WalkClosed, Validating
    <3>4. CASE f \notin q.visited
      <4>1. Expanded(q, f) =
              [q EXCEPT !.visited = q.visited \union {f},
                        !.stack = (q.stack \ {f}) \union ReadEnt.parents[f]]
        BY <3>4 DEF Expanded
      <4> HIDE DEF q
      <4> QED BY <1>1, <1>2, <1>4, <3>1, <3>2, <4>1 DEF WalkClosed, Validating
    <3> QED BY <3>1, <3>3, <3>4
  <2> QED BY <1>2, <1>4, <2>1, <2>3, <2>4, OneWalkKeepsIInv
          DEF IInv, TypeOK
<1> QED BY <1>3, <1>4

\* The update of SetRoleInheritances keeps the invariant: a clean walk has
\* shown the role unreachable from its new parents.
LEMMA CommitKeepsIInv ==
    ASSUME IInv, NEW w \in Writer, Commit(w)
    PROVE  IInv'
<1> DEFINE q == request[w]
           r == q.role
           P == q.want
<1>1. /\ q \in Validating /\ IsValidating(w)
      /\ q.todo = {} /\ q.stack = {}
      /\ r \in Role /\ P \in SUBSET Role
  BY RequestInProgress DEF Commit, IInv, Validated, Validating
<1>2. CASE ~({r} \union P \subseteq roles)
  BY <1>2, AbandonKeepsIInv DEF Commit
<1>3. CASE {r} \union P \subseteq roles
  <2>1. /\ parents' = [parents EXCEPT ![r] = P]
        /\ clean' = [v \in Writer |->
                       v = w \/ (clean[v] /\ v \notin Disturbed(r, P))]
        /\ raced' = (raced \/ ~clean[w])
        /\ request' = [request EXCEPT ![w] = Idle]
        /\ UNCHANGED <<roles, spent, replica>>
    BY <1>3 DEF Commit, WithParents
  <2>2. /\ parents \in [Role -> SUBSET Role]
        /\ clean \in [Writer -> BOOLEAN] /\ raced \in BOOLEAN
        /\ request \in [Writer -> Validating \union {Idle}]
    BY DEF IInv, TypeOK
  <2> HIDE DEF q, r, P
  <2>3. \A x \in Role : parents'[x] = IF x = r THEN P ELSE parents[x]
    BY <1>1, <2>1, <2>2
  <2>4. TypeOK'
    BY <1>1, <2>1, <2>2 DEF IInv, TypeOK
  <2>5. EdgesNameRoles'
    BY <1>3, <2>1, <2>3 DEF IInv, EdgesNameRoles
  <2>6. CleanWalks'
    <3> SUFFICES ASSUME NEW v \in Writer, IsValidating(v)', clean'[v]
                 PROVE  ReadsEveryEdge' /\ WalkClosed(request[v], parents)'
      BY DEF CleanWalks
    <3>1. v # w
      BY <2>1, <2>2 DEF IsValidating, Idle
    <3>2. clean[v] /\ v \notin Disturbed(r, P) /\ request'[v] = request[v]
      BY <2>1, <2>2, <3>1
    <3>3. request[v] # Idle
      BY <3>2 DEF IsValidating, Idle
    <3>4. P \subseteq parents[r]
      BY <3>2, <3>3 DEF Disturbed
    <3>5. \A x \in Role : parents'[x] \subseteq parents[x]
      BY <2>3, <3>4
    <3> QED BY <2>1, <2>4, <3>2, <3>5, FewerEdgesKeepWalks DEF IInv
  <2>7. CyclesNeedStaleRead'
    <3> SUFFICES ASSUME ~raced' PROVE NoLongCycle'
      BY DEF CyclesNeedStaleRead
    <3> DEFINE C == q.visited \union q.cleared
    <3>1. ~raced /\ clean[w]
      BY <2>1, <2>2
    <3>2. Acyclic(parents) /\ WalkClosed(q, parents)
      BY <1>1, <3>1 DEF q, IInv, CyclesNeedStaleRead, NoLongCycle, CleanWalks
    <3>3. /\ C \in SUBSET Role
          /\ \A x \in C : parents[x] \subseteq C
          /\ P \subseteq C /\ r \notin C
      BY <1>1, <3>2 DEF WalkClosed, Validating, r, P
    <3> HIDE DEF C
    <3> QED BY <1>1, <2>1, <2>2, <3>2, <3>3, NewParentsCloseNoCycle
            DEF NoLongCycle
  <2> QED BY <2>1, <2>4, <2>5, <2>6, <2>7 DEF IInv
<1> QED BY <1>2, <1>3

-----------------------------------------------------------------------------
\* The invariant is inductive.
LEMMA NextKeepsIInv == IInv /\ [Next]_vars => IInv'
<1> SUFFICES ASSUME IInv, [Next]_vars PROVE IInv'
  OBVIOUS
<1>1. CASE Replicate
  BY <1>1, ReplicateKeepsIInv
<1>2. CASE \E r \in Role : CreateRole(r) \/ DeleteRole(r)
  BY <1>2, CreateRoleKeepsIInv, DeleteRoleKeepsIInv
<1>3. CASE \E w \in Writer, r \in Role, P \in SUBSET Role :
             SetRoleInheritances(w, r, P)
  BY <1>3, SetRoleInheritancesKeepsIInv
<1>4. CASE \E w \in Writer : Walk(w)
  BY <1>4, NextParentKeepsIInv, VisitKeepsIInv, CommitKeepsIInv DEF Walk
<1>5. CASE UNCHANGED vars
  BY <1>5 DEF vars, IInv, TypeOK, EdgesNameRoles, CleanWalks, WalkClosed,
              ReadsEveryEdge, ReadEnt, Primary, IsValidating,
              CyclesNeedStaleRead, NoLongCycle
<1> QED BY <1>1, <1>2, <1>3, <1>4, <1>5 DEF Next

\* The inductive invariant of the role graph holds in every reachable state.
THEOREM RoleGraphInvariant == Spec => []IInv
<1>1. Init => IInv
  BY InitIInv
<1>2. IInv /\ [Next]_vars => IInv'
  BY NextKeepsIInv
<1> QED BY <1>1, <1>2, PTL DEF Spec

\* The state keeps its shape, whatever requests run concurrently (the rows
\* and requests of internal/data/auth.go).
THEOREM RoleGraphTypeCorrect == Spec => []TypeOK
<1>1. IInv => TypeOK
  BY DEF IInv
<1> QED BY <1>1, RoleGraphInvariant, PTL

\* Until some SetRoleInheritances is committed after an edge escaped its
\* walk, no cycle through two roles or more exists, for any number of roles
\* and of concurrent requests, with or without a read replica.
THEOREM CyclesNeedStaleReadAlways == Spec => []CyclesNeedStaleRead
<1>1. IInv => CyclesNeedStaleRead
  BY DEF IInv
<1> QED BY <1>1, RoleGraphInvariant, PTL

\* Inheritance never names a role that does not exist, not even when a role
\* is deleted while a request that wants it is being validated.
THEOREM EdgesNameRolesAlways == Spec => []EdgesNameRoles
<1>1. IInv => EdgesNameRoles
  BY DEF IInv
<1> QED BY <1>1, RoleGraphInvariant, PTL

-----------------------------------------------------------------------------
(***************************************************************************)
(* Why a walk ends: its steps count down a number whose digits are the     *)
(* sizes of three sets of roles.                                           *)
(***************************************************************************)
\* A larger leading part outweighs any digit.
LEMMA LeadingPartWins ==
    ASSUME NEW b \in Nat, NEW m \in Nat, NEW n \in Nat, m < n,
           NEW y \in Nat, y < b
    PROVE  b * m + y < b * n
<1>1. b * m \in Nat /\ b * n \in Nat /\ b * (n - m - 1) \in Nat
  OBVIOUS
<1>2. b * n = b * m + b + b * (n - m - 1)
  OBVIOUS
<1> QED BY <1>1, <1>2

LEMMA OneFewer ==
    ASSUME NEW S, IsFiniteSet(S), NEW x \in S
    PROVE  Cardinality(S \ {x}) < Cardinality(S)
<1>1. Cardinality(S) \in Nat /\ Cardinality(S \ {x}) = Cardinality(S) - 1
  BY FS_CardinalityType, FS_RemoveElement
<1> QED BY <1>1

\* The three digits of a request.
LEMMA Digits ==
    ASSUME IsFiniteSet(Role), NEW q \in Validating
    PROVE  /\ IsFiniteSet(q.todo) /\ IsFiniteSet(q.stack)
           /\ IsFiniteSet(Role \ q.visited)
           /\ Base \in Nat
           /\ Cardinality(q.todo) \in Nat /\ Cardinality(q.todo) < Base
           /\ Cardinality(Role \ q.visited) \in Nat
           /\ Cardinality(Role \ q.visited) < Base
           /\ Cardinality(q.stack) \in Nat /\ Cardinality(q.stack) < Base
<1>1. Cardinality(Role) \in Nat
  BY FS_CardinalityType
<1>2. ASSUME NEW T \in SUBSET Role
      PROVE  IsFiniteSet(T) /\ Cardinality(T) \in Nat /\ Cardinality(T) < Base
  <2>1. IsFiniteSet(T) /\ Cardinality(T) <= Cardinality(Role)
    BY FS_Subset
  <2>2. Cardinality(T) \in Nat
    BY <2>1, FS_CardinalityType
  <2> QED BY <1>1, <2>1, <2>2 DEF Base
<1>3. q.todo \subseteq Role /\ q.stack \subseteq Role /\ Role \ q.visited \subseteq Role
  BY DEF Validating
<1> QED BY <1>1, <1>2, <1>3 DEF Base

\* A request that has fewer parents to turn to, or as many and more roles
\* visited, or as many of both and fewer stacked, has fewer steps to make.
LEMMA FewerStepsLeft ==
    ASSUME IsFiniteSet(Role), NEW q \in Validating, NEW r \in Validating,
           \/ Cardinality(r.todo) < Cardinality(q.todo)
           \/ /\ Cardinality(r.todo) = Cardinality(q.todo)
              /\ Cardinality(Role \ r.visited) < Cardinality(Role \ q.visited)
           \/ /\ Cardinality(r.todo) = Cardinality(q.todo)
              /\ Cardinality(Role \ r.visited) = Cardinality(Role \ q.visited)
              /\ Cardinality(r.stack) < Cardinality(q.stack)
    PROVE  StepsLeft(r) < StepsLeft(q)
<1> DEFINE b == Base
           x == Cardinality(q.todo)
           y == Cardinality(Role \ q.visited)
           z == Cardinality(q.stack)
           x2 == Cardinality(r.todo)
           y2 == Cardinality(Role \ r.visited)
           z2 == Cardinality(r.stack)
           u == b * x + y
           u2 == b * x2 + y2
<1>1. b \in Nat /\ x \in Nat /\ y \in Nat /\ z \in Nat
      /\ x2 \in Nat /\ y2 \in Nat /\ y2 < b /\ z2 \in Nat /\ z2 < b
  BY Digits
<1>2. StepsLeft(q) = b * u + z /\ StepsLeft(r) = b * u2 + z2
  BY DEF StepsLeft
<1> HIDE DEF b, x, y, z, x2, y2, z2
<1>3. u \in Nat /\ u2 \in Nat /\ b * u \in Nat /\ b * u2 \in Nat
  BY <1>1
<1>4. CASE x2 < x
  <2>1. b * x2 + y2 < b * x /\ b * x \in Nat
    BY <1>1, <1>4, LeadingPartWins
  <2>2. u2 < u
    BY <1>1, <2>1, <1>3
  <2> HIDE DEF u, u2
  <2>3. b * u2 + z2 < b * u
    BY <1>1, <1>3, <2>2, LeadingPartWins
  <2> QED BY <1>1, <1>2, <1>3, <2>3
<1>5. CASE x2 = x /\ y2 < y
  <2>1. u2 < u
    BY <1>1, <1>5
  <2> HIDE DEF u, u2
  <2>3. b * u2 + z2 < b * u
    BY <1>1, <1>3, <2>1, LeadingPartWins
  <2> QED BY <1>1, <1>2, <1>3, <2>3
<1>6. CASE x2 = x /\ y2 = y /\ z2 < z
  <2>1. b * u2 = b * u
    BY <1>6
  <2> HIDE DEF u, u2
  <2> QED BY <1>1, <1>2, <1>3, <1>6, <2>1
<1>7. \/ x2 < x \/ (x2 = x /\ y2 < y) \/ (x2 = x /\ y2 = y /\ z2 < z)
  BY DEF x, y, z, x2, y2, z2
<1> QED BY <1>4, <1>5, <1>6, <1>7

LEMMA FewSteps ==
    ASSUME IsFiniteSet(Role), NEW q \in Validating
    PROVE  StepsLeft(q) \in Nat /\ StepsLeft(q) < Base * (Base * Base)
<1> DEFINE b == Base
           x == Cardinality(q.todo)
           y == Cardinality(Role \ q.visited)
           z == Cardinality(q.stack)
<1>1. b \in Nat /\ x \in Nat /\ x < b /\ y \in Nat /\ y < b /\ z \in Nat /\ z < b
  BY Digits
<1>2. StepsLeft(q) = b * (b * x + y) + z
  BY DEF StepsLeft
<1> HIDE DEF b, x, y, z
<1>3. b * x + y < b * b /\ b * x + y \in Nat /\ b * b \in Nat
  BY <1>1, LeadingPartWins
<1>4. b * (b * x + y) + z < b * (b * b)
  BY <1>1, <1>3, LeadingPartWins
<1>5. b * (b * x + y) + z \in Nat
  BY <1>1, <1>3
<1> QED BY <1>2, <1>4, <1>5 DEF b

\* A step of a walk leaves the other requests alone, ends its own, or leaves
\* it fewer steps.
LEMMA NextParentCounts ==
    ASSUME IsFiniteSet(Role), TypeOK, NEW w \in Writer, NextParent(w)
    PROVE  /\ \A v \in Writer \ {w} : request'[v] = request[v]
           /\ \/ request'[w] = Idle
              \/ StepsLeft(request'[w]) < StepsLeft(request[w])
<1> DEFINE q == request[w]
<1>1. q \in Validating /\ request \in [Writer -> Validating \union {Idle}]
  BY RequestInProgress DEF NextParent, TypeOK
<1>2. PICK p \in q.todo :
          IF p = q.role THEN Abandon(w)
          ELSE request' = [request EXCEPT
                 ![w].todo = @ \ {p},
                 ![w].stack = {p},
                 ![w].visited = {},
                 ![w].cleared = @ \union q.visited]
  BY DEF NextParent
<1>3. CASE p = q.role
  BY <1>1, <1>2, <1>3 DEF Abandon
<1>4. CASE p # q.role
  <2> DEFINE r == [q EXCEPT !.todo = @ \ {p}, !.stack = {p}, !.visited = {},
                            !.cleared = @ \union q.visited]
  <2>1. /\ request'[w] = r
        /\ \A v \in Writer \ {w} : request'[v] = request[v]
    BY <1>1, <1>2, <1>4
  <2>2. r \in Validating /\ r.todo = q.todo \ {p}
    BY <1>1, <1>2 DEF Validating
  <2> HIDE DEF q, r
  <2>3. Cardinality(r.todo) < Cardinality(q.todo)
    BY <1>1, <1>2, <2>2, Digits, OneFewer
  <2>4. StepsLeft(r) < StepsLeft(q)
    BY <1>1, <2>2, <2>3, FewerStepsLeft
  <2> QED BY <2>1, <2>4 DEF q
<1> QED BY <1>3, <1>4

LEMMA VisitCounts ==
    ASSUME IsFiniteSet(Role), TypeOK, NEW w \in Writer, Visit(w)
    PROVE  /\ \A v \in Writer \ {w} : request'[v] = request[v]
           /\ \/ request'[w] = Idle
              \/ StepsLeft(request'[w]) < StepsLeft(request[w])
<1> DEFINE q == request[w]
<1>1. q \in Validating /\ request \in [Writer -> Validating \union {Idle}]
  BY RequestInProgress DEF Visit, TypeOK
<1>2. PICK f \in q.stack :
          IF f = q.role THEN Abandon(w)
          ELSE request' = [request EXCEPT ![w] = Expanded(@, f)]
  BY DEF Visit
<1>3. CASE f = q.role
  BY <1>1, <1>2, <1>3 DEF Abandon
<1>4. CASE f # q.role
  <2> DEFINE r == Expanded(q, f)
  <2>1. /\ request'[w] = r
        /\ \A v \in Writer \ {w} : request'[v] = request[v]
    BY <1>1, <1>2, <1>4
  <2>2. f \in Role /\ ReadEnt.parents[f] \subseteq Role
    BY <1>1, <1>2 DEF Validating, TypeOK, ReadEnt, Primary, Graph
  <2>3. CASE f \in q.visited
    <3>1. r \in Validating /\ r.todo = q.todo /\ r.visited = q.visited
          /\ r.stack = q.stack \ {f}
      BY <1>1, <2>3 DEF Expanded, Validating
    <3> HIDE DEF q, r
    <3>2. Cardinality(r.stack) < Cardinality(q.stack)
      BY <1>1, <1>2, <3>1, Digits, OneFewer
    <3>3. StepsLeft(r) < StepsLeft(q)
      BY <1>1, <3>1, <3>2, FewerStepsLeft
    <3> QED BY <2>1, <3>3 DEF q
  <2>4. CASE f \notin q.visited
    <3>1. r \in Validating /\ r.todo = q.todo /\ r.visited = q.visited \union {f}
      BY <1>1, <2>2, <2>4 DEF Expanded, Validating
    <3>2. Role \ r.visited = (Role \ q.visited) \ {f} /\ f \in Role \ q.visited
      BY <2>2, <2>4, <3>1
    <3> HIDE DEF q, r
    <3>3. Cardinality(Role \ r.visited) < Cardinality(Role \ q.visited)
      BY <1>1, <3>2, Digits, OneFewer
    <3>4. StepsLeft(r) < StepsLeft(q)
      BY <1>1, <3>1, <3>3, FewerStepsLeft
    <3> QED BY <2>1, <3>4 DEF q
  <2> QED BY <2>3, <2>4
<1> QED BY <1>3, <1>4

LEMMA CommitCounts ==
    ASSUME TypeOK, NEW w \in Writer, Commit(w)
    PROVE  /\ \A v \in Writer \ {w} : request'[v] = request[v]
           /\ request'[w] = Idle
BY DEF Commit, Abandon, TypeOK

LEMMA StepCounts ==
    ASSUME IsFiniteSet(Role), IInv, [Next]_vars, NEW w \in Writer, IsValidating(w)
    PROVE  IF Walk(w)
           THEN request'[w] = Idle \/ StepsLeft(request'[w]) < StepsLeft(request[w])
           ELSE request'[w] = request[w]
<1>1. TypeOK /\ request[w] # Idle
  BY RequestInProgress DEF IInv, Validating, Idle, IsValidating
<1>2. ASSUME NEW v \in Writer, Walk(v)
      PROVE  /\ \A x \in Writer \ {v} : request'[x] = request[x]
             /\ request'[v] = Idle \/ StepsLeft(request'[v]) < StepsLeft(request[v])
  BY <1>1, <1>2, NextParentCounts, VisitCounts, CommitCounts DEF Walk
<1>3. CASE Walk(w)
  BY <1>2, <1>3
<1>4. ASSUME ~Walk(w) PROVE request'[w] = request[w]
  <2>1. CASE Replicate \/ \E r \in Role : CreateRole(r) \/ DeleteRole(r)
    BY <2>1 DEF Replicate, CreateRole, DeleteRole
  <2>2. ASSUME NEW v \in Writer, NEW r \in Role, NEW P \in SUBSET Role,
               SetRoleInheritances(v, r, P)
        PROVE  request'[w] = request[w]
    BY <1>1, <2>2 DEF SetRoleInheritances, TypeOK
  <2>3. CASE \E v \in Writer : Walk(v)
    BY <1>2, <1>4, <2>3
  <2>4. CASE UNCHANGED vars
    BY <2>4 DEF vars
  <2> QED BY <2>1, <2>2, <2>3, <2>4 DEF Next
<1> QED BY <1>3, <1>4

\* A validation makes fewer steps than the cube of the number of roles plus
\* one, and every step it makes leaves it fewer, however the graph changes
\* under it: what is left of ValidationEnds is that its goroutine runs on.
THEOREM WalksEnd ==
    ASSUME IsFiniteSet(Role)
    PROVE  Spec => []WalksAreShort /\ EveryStepCounts
<1>1. IInv => WalksAreShort
  BY FewSteps, RequestInProgress DEF IInv, WalksAreShort
<1>2. IInv /\ [Next]_vars =>
        [\A w \in Writer : IsValidating(w) =>
           IF Walk(w)
           THEN request'[w] = Idle \/ StepsLeft(request'[w]) < StepsLeft(request[w])
           ELSE request'[w] = request[w]]_vars
  BY StepCounts
<1> QED BY <1>1, <1>2, RoleGraphInvariant, PTL DEF Spec, EveryStepCounts
=============================================================================
