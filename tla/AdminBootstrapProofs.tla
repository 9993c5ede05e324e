------------------------ MODULE AdminBootstrapProofs ------------------------
(***************************************************************************)
(* Theorems about AdminBootstrap, for any number of instances, requests    *)
(* and passwords.                                                          *)
(***************************************************************************)
EXTENDS AdminBootstrap, TLAPS

USE DistinctAssumption

\* The invariant holds at the start, with no row and no process.
LEMMA InitIInv == Init => IInv
<1> SUFFICES ASSUME Init PROVE IInv
  OBVIOUS
<1>1. TypeOK
  BY DEF Init, TypeOK, Row, Password, Down, Ended, When
<1> QED BY <1>1 DEF Init, IInv, ChosenIsUsed, MemoryWasAnnounced, Password,
          StartsKnowTheRow, RequestsSawTheRow, ServedByUp, UsedForGood, Down,
          Up, Known, LockOutNeedsStaleWrite, LockedOut, LastStartShowsPassword,
          ReturnedAgainOnlyBehind

\* The records of each kind have the phases of that kind only.
LEMMA Phases ==
    ASSUME TypeOK
    PROVE  /\ Down.phase = "down" /\ Up.phase = "up"
           /\ \A i \in Instance :
                /\ node[i] \in {Down, Up} \union Starting
                /\ node[i].phase \notin {"down", "up"} =>
                     node[i] \in Starting /\ node[i].password \in Generated
                /\ node[i].phase = "down" => node[i] = Down
                /\ node[i].phase = "up" => node[i] = Up
           /\ \A r \in Request :
                /\ request[r].phase # "done" =>
                     /\ request[r] \in Running
                     /\ request[r].at \in Instance /\ request[r].saw \in Row
                     /\ request[r].answer \in Generated \union {None}
                     /\ request[r].began \in When
                /\ request[r].phase = "done" => request[r] \in Ended
<1>1. Down.phase = "down" /\ Up.phase = "up"
  BY DEF Down, Up
<1>2. ASSUME NEW i \in Instance
      PROVE  /\ node[i] \in {Down, Up} \union Starting
             /\ node[i].phase \notin {"down", "up"} =>
                  node[i] \in Starting /\ node[i].password \in Generated
             /\ node[i].phase = "down" => node[i] = Down
             /\ node[i].phase = "up" => node[i] = Up
  BY DEF TypeOK, Down, Up, Starting
<1>3. ASSUME NEW r \in Request
      PROVE  /\ request[r].phase # "done" =>
                  /\ request[r] \in Running
                  /\ request[r].at \in Instance /\ request[r].saw \in Row
                  /\ request[r].answer \in Generated \union {None}
                  /\ request[r].began \in When
             /\ request[r].phase = "done" => request[r] \in Ended
  BY DEF TypeOK, Running, Ended
<1> QED BY <1>1, <1>2, <1>3

\* An instance takes a step of its start and is in another phase of it; the
\* others are where they were.
LEMMA StartGoesOn ==
    ASSUME TypeOK, NEW i \in Instance, node[i].phase \notin {"down", "up"},
           NEW phase \in {"create", "overwrite", "reread"},
           StartGoes(i, phase)
    PROVE  /\ node' \in [Instance -> {Down, Up} \union Starting]
           /\ node'[i].phase = phase /\ node'[i].password = node[i].password
           /\ node'[i] \notin {Up, Down}
           /\ \A j \in Instance \ {i} : node'[j] = node[j]
<1>1. node[i] \in Starting
  BY Phases
<1>2. [node[i] EXCEPT !.phase = phase] \in Starting
  BY <1>1 DEF Starting
<1> QED BY <1>1, <1>2 DEF TypeOK, StartGoes, Starting, Up, Down

\* Start generates a password.
LEMMA StartKeepsIInv ==
    ASSUME IInv, NEW i \in Instance, Start(i)
    PROVE  IInv'
<1> PICK p \in Generated \ issued :
      /\ issued' = issued \union {p}
      /\ node' = [node EXCEPT ![i] = [phase |-> "generated", password |-> p]]
  BY DEF Start
<1> DEFINE s == [phase |-> "generated", password |-> p]
<1>1. s \in Starting /\ s.phase = "generated" /\ s # Up /\ s # Down
  BY DEF Starting, Up, Down
<1> HIDE DEF s
<1>2. /\ node[i] = Down /\ node' = [node EXCEPT ![i] = s]
      /\ UNCHANGED <<row, replica, memory, request, loggedIn, announced,
                     writer, spent, stale>>
  BY DEF Start, database, history, s
<1>3. TypeOK /\ Down # Up
  BY DEF IInv, Down, Up
<1>4. TypeOK'
  BY <1>1, <1>2, <1>3 DEF TypeOK
<1>5. ChosenIsUsed' /\ RequestsSawTheRow' /\ UsedForGood'
      /\ LockOutNeedsStaleWrite' /\ ReturnedAgainOnlyBehind'
  BY <1>2 DEF IInv, ChosenIsUsed, RequestsSawTheRow, UsedForGood, Known,
       LockOutNeedsStaleWrite, LockedOut, ReturnedAgainOnlyBehind
<1>6. \A j \in Instance : node'[j] = IF j = i THEN s ELSE node[j]
  BY <1>2, <1>3 DEF TypeOK
<1>7. MemoryWasAnnounced' /\ LastStartShowsPassword' /\ StartsKnowTheRow'
  BY <1>1, <1>2, <1>3, <1>6 DEF IInv, MemoryWasAnnounced,
       LastStartShowsPassword, StartsKnowTheRow
<1>8. ServedByUp'
  BY <1>2, <1>3, <1>6, Phases DEF IInv, ServedByUp
<1> QED BY <1>4, <1>5, <1>7, <1>8 DEF IInv

\* The query decides what a start does.
LEMMA StartReadsKeepsIInv ==
    ASSUME IInv, NEW i \in Instance, StartReads(i)
    PROVE  IInv'
<1> DEFINE phase == IF row.hash = None THEN "create"
                    ELSE IF row.used THEN "reread" ELSE "overwrite"
<1>1. /\ node[i].phase = "generated" /\ StartGoes(i, phase)
      /\ UNCHANGED <<row, replica, issued, memory, request, loggedIn,
                     announced, writer, spent, stale>>
  BY DEF StartReads, database, history
<1>2. /\ phase \in {"create", "overwrite", "reread"}
      /\ phase # "create" => row.hash # None
      /\ phase = "reread" => row.used
  OBVIOUS
<1> HIDE DEF phase
<1>3. TypeOK
  BY DEF IInv
<1>4. /\ node' \in [Instance -> {Down, Up} \union Starting]
      /\ node'[i].phase = phase /\ node'[i] \notin {Up, Down}
      /\ \A j \in Instance \ {i} : node'[j] = node[j]
  BY <1>1, <1>2, <1>3, StartGoesOn
<1>5. TypeOK'
  BY <1>1, <1>3, <1>4 DEF TypeOK
<1>6. ChosenIsUsed' /\ RequestsSawTheRow' /\ UsedForGood'
      /\ LockOutNeedsStaleWrite' /\ ReturnedAgainOnlyBehind'
  BY <1>1 DEF IInv, ChosenIsUsed, RequestsSawTheRow, UsedForGood, Known,
       LockOutNeedsStaleWrite, LockedOut, ReturnedAgainOnlyBehind
<1>7. node[i] # Up
  BY <1>1, <1>3, Phases
<1>8. MemoryWasAnnounced' /\ LastStartShowsPassword' /\ StartsKnowTheRow'
  BY <1>1, <1>2, <1>4, <1>7 DEF IInv, MemoryWasAnnounced,
       LastStartShowsPassword, StartsKnowTheRow
<1>9. ServedByUp'
  BY <1>1, <1>3, <1>4, <1>7, Phases DEF IInv, ServedByUp
<1> QED BY <1>5, <1>6, <1>8, <1>9 DEF IInv

\* A start writes the row.
LEMMA StartWritesKeepsIInv ==
    ASSUME IInv, NEW i \in Instance, node[i].phase \in {"create", "overwrite"},
           row' = [hash |-> node[i].password, used |-> row.used],
           node[i].phase = "create" => row.hash = None,
           stale' = (stale \/ row.used),
           writer' = i, StartGoes(i, "reread"),
           UNCHANGED <<replica, issued, memory, request, loggedIn,
                       announced, spent>>
    PROVE  IInv'
<1>1. TypeOK /\ node[i].password \in Generated
  BY Phases DEF IInv
<1>2. /\ node' \in [Instance -> {Down, Up} \union Starting]
      /\ node'[i].phase = "reread" /\ node'[i].password = node[i].password
      /\ node'[i] \notin {Up, Down}
      /\ \A j \in Instance \ {i} : node'[j] = node[j]
  BY <1>1, StartGoesOn
<1>3. /\ row'.hash = node[i].password /\ row'.used = row.used
      /\ row' \in Row /\ row'.hash # None /\ row'.hash \notin Chosen
  BY <1>1 DEF TypeOK, Row, Password
<1>4. TypeOK'
  BY <1>1, <1>2, <1>3 DEF TypeOK
<1>5. ChosenIsUsed' /\ RequestsSawTheRow' /\ UsedForGood'
      /\ ReturnedAgainOnlyBehind'
  BY <1>3 DEF IInv, ChosenIsUsed, RequestsSawTheRow, UsedForGood, Known,
       ReturnedAgainOnlyBehind
<1>6. LockOutNeedsStaleWrite'
  BY <1>3 DEF LockOutNeedsStaleWrite, LockedOut
<1>7. node[i] # Up
  BY <1>1, Phases
<1>8. MemoryWasAnnounced' /\ LastStartShowsPassword'
  BY <1>2, <1>3, <1>7 DEF IInv, MemoryWasAnnounced, LastStartShowsPassword
<1>9. StartsKnowTheRow'
  BY <1>2, <1>3 DEF IInv, StartsKnowTheRow
<1>10. ServedByUp'
  BY <1>1, <1>2, <1>7, Phases DEF IInv, ServedByUp
<1> QED BY <1>4, <1>5, <1>6, <1>8, <1>9, <1>10 DEF IInv

\* A start that saw no row inserts one, or gives up.
LEMMA StartCreatesKeepsIInv ==
    ASSUME IInv, NEW i \in Instance, StartCreates(i)
    PROVE  IInv'
<1>1. TypeOK /\ node[i].phase = "create"
  BY DEF IInv, StartCreates
<1>2. CASE row.hash = None
  <2>1. ~row.used /\ stale \in BOOLEAN
    BY <1>1, <1>2 DEF IInv, UsedForGood, TypeOK
  <2>2. /\ row' = [hash |-> node[i].password, used |-> row.used]
        /\ writer' = i /\ StartGoes(i, "reread")
        /\ stale' = (stale \/ row.used)
        /\ UNCHANGED <<replica, issued, memory, request, loggedIn,
                       announced, spent>>
    BY <1>2, <2>1 DEF StartCreates, TypeOK, Row, IInv
  <2> QED BY <1>1, <1>2, <2>2, StartWritesKeepsIInv
<1>3. CASE row.hash # None
  <2>1. /\ node' = [node EXCEPT ![i] = Down]
        /\ UNCHANGED <<row, replica, issued, memory, request, loggedIn,
                       announced, writer, spent, stale>>
    BY <1>3 DEF StartCreates
  <2>2. TypeOK' /\ memory[i] = None
    BY <1>1, <2>1, Phases DEF TypeOK, IInv, MemoryWasAnnounced
  <2>3. ChosenIsUsed' /\ RequestsSawTheRow' /\ UsedForGood'
        /\ LockOutNeedsStaleWrite' /\ ReturnedAgainOnlyBehind'
    BY <2>1 DEF IInv, ChosenIsUsed, RequestsSawTheRow, UsedForGood, Known,
         LockOutNeedsStaleWrite, LockedOut, ReturnedAgainOnlyBehind
  <2>4. \A j \in Instance : node'[j] = IF j = i THEN Down ELSE node[j]
    BY <1>1, <2>1 DEF TypeOK
  <2>5. Down # Up /\ Down.phase = "down"
    BY DEF Down, Up
  <2>6. MemoryWasAnnounced' /\ LastStartShowsPassword' /\ StartsKnowTheRow'
    BY <2>1, <2>2, <2>4, <2>5 DEF IInv, MemoryWasAnnounced,
         LastStartShowsPassword, StartsKnowTheRow
  <2>7. ServedByUp'
    BY <1>1, <2>1, <2>4, <2>5, Phases DEF IInv, ServedByUp
  <2> QED BY <2>2, <2>3, <2>6, <2>7 DEF IInv
<1> QED BY <1>2, <1>3

\* A start that saw the password unused replaces it.
LEMMA StartOverwritesKeepsIInv ==
    ASSUME IInv, NEW i \in Instance, StartOverwrites(i)
    PROVE  IInv'
<1>1. row' = [hash |-> node[i].password, used |-> row.used]
  BY DEF StartOverwrites, IInv, TypeOK, Row
<1> QED BY <1>1, StartWritesKeepsIInv DEF StartOverwrites

\* A start that finds its password unused announces it and keeps it.
LEMMA StartRereadsKeepsIInv ==
    ASSUME IInv, NEW i \in Instance, StartRereads(i)
    PROVE  IInv'
<1>1. TypeOK /\ node[i].phase = "reread" /\ node[i].password \in Generated
  BY Phases DEF IInv, StartRereads
<1>2. /\ node' = [node EXCEPT ![i] = Up]
      /\ UNCHANGED <<row, replica, issued, request, loggedIn, writer, spent,
                     stale>>
      /\ row.used => UNCHANGED <<memory, announced>>
      /\ ~row.used =>
           /\ memory' = [memory EXCEPT ![i] = node[i].password]
           /\ announced' = announced \union {node[i].password}
  BY DEF StartRereads, database
<1>3. TypeOK'
  BY <1>1, <1>2 DEF TypeOK
<1>4. /\ \A j \in Instance : node'[j] = IF j = i THEN Up ELSE node[j]
      /\ \A j \in Instance \ {i} : memory'[j] = memory[j]
      /\ ~row.used => memory'[i] = node[i].password
      /\ memory[i] = None /\ row.hash # None
      /\ announced \subseteq announced'
  BY <1>1, <1>2, Phases DEF TypeOK, IInv, MemoryWasAnnounced, StartsKnowTheRow
<1>5. Known \subseteq Known'
  BY <1>4 DEF Known
<1>6. ChosenIsUsed' /\ RequestsSawTheRow' /\ UsedForGood'
      /\ LockOutNeedsStaleWrite' /\ ReturnedAgainOnlyBehind'
  BY <1>2, <1>5 DEF IInv, ChosenIsUsed, RequestsSawTheRow, UsedForGood,
       LockOutNeedsStaleWrite, LockedOut, ReturnedAgainOnlyBehind
<1>7. MemoryWasAnnounced'
  BY <1>1, <1>2, <1>4 DEF IInv, MemoryWasAnnounced
<1>8. LastStartShowsPassword'
  BY <1>1, <1>2, <1>4 DEF IInv, LastStartShowsPassword, StartsKnowTheRow
<1>9. StartsKnowTheRow'
  BY <1>1, <1>2, <1>4, Phases DEF IInv, StartsKnowTheRow
<1>10. ServedByUp'
  BY <1>2, <1>4, Phases DEF IInv, ServedByUp
<1> QED BY <1>3, <1>6, <1>7, <1>8, <1>9, <1>10 DEF IInv

\* A stopped process leaves the database alone and forgets the rest.
LEMMA CrashKeepsIInv ==
    ASSUME IInv, NEW i \in Instance, Crash(i)
    PROVE  IInv'
<1>1. /\ TypeOK
      /\ node' = [node EXCEPT ![i] = Down]
      /\ memory' = [memory EXCEPT ![i] = None]
      /\ UNCHANGED <<row, replica, issued, loggedIn, announced, writer,
                     spent, stale>>
  BY DEF Crash, IInv, database, history
<1>2. \A r \in Request :
        \/ request'[r] = request[r]
        \/ /\ request'[r] = [phase |-> "done", answer |-> None,
                             began |-> request[r].began]
           /\ request[r].phase # "done"
  BY DEF Crash
<1>3. ASSUME NEW r \in Request
      PROVE  request'[r] \in Running \union Ended
  <2>1. CASE request'[r] = request[r]
    BY <1>1, <2>1 DEF TypeOK
  <2>2. CASE /\ request'[r] = [phase |-> "done", answer |-> None,
                              began |-> request[r].began]
             /\ request[r].phase # "done"
    <3>1. request[r].began \in When
      BY <1>1, <2>2, Phases
    <3> QED BY <2>2, <3>1 DEF Ended
  <2> QED BY <1>2, <2>1, <2>2
<1>4. request' \in [Request -> Running \union Ended]
  BY <1>3 DEF Crash
<1>5. TypeOK'
  BY <1>1, <1>4 DEF TypeOK
<1>6. ChosenIsUsed' /\ UsedForGood' /\ LockOutNeedsStaleWrite'
  BY <1>1 DEF IInv, ChosenIsUsed, UsedForGood, Known,
       LockOutNeedsStaleWrite, LockedOut
<1>7. ASSUME NEW r \in Request, request'[r] # request[r]
      PROVE  request'[r].phase = "done" /\ request'[r].answer = None
  <2> DEFINE e == [phase |-> "done", answer |-> None, began |-> request[r].began]
  <2>1. e.phase = "done" /\ e.answer = None
    OBVIOUS
  <2>2. request'[r] = e
    BY <1>2, <1>7
  <2> HIDE DEF e
  <2> QED BY <2>1, <2>2
<1>11. RequestsSawTheRow'
  <2>1. \A r \in Request : request'[r].phase # "done" => request'[r] = request[r]
    BY <1>7
  <2>2. Known' = Known /\ row' = row /\ spent' = spent
    BY <1>1 DEF Known
  <2> QED BY <2>1, <2>2 DEF IInv, RequestsSawTheRow
<1>12. ReturnedAgainOnlyBehind'
  BY <1>7 DEF IInv, ReturnedAgainOnlyBehind
<1>8. \A j \in Instance : /\ node'[j] = IF j = i THEN Down ELSE node[j]
                          /\ memory'[j] = IF j = i THEN None ELSE memory[j]
  BY <1>1 DEF TypeOK
<1>9. Down # Up /\ Down.phase = "down"
  BY DEF Down, Up
<1>10. MemoryWasAnnounced' /\ LastStartShowsPassword' /\ StartsKnowTheRow'
  BY <1>1, <1>8, <1>9 DEF IInv, MemoryWasAnnounced,
       LastStartShowsPassword, StartsKnowTheRow
<1>13. ServedByUp'
  <2> SUFFICES ASSUME NEW r \in Request, request'[r].phase # "done"
               PROVE  node'[request'[r].at] = Up
    BY DEF ServedByUp
  <2>1. request'[r] = request[r]
    BY <1>7
  <2>2. request[r].at # i /\ request[r].at \in Instance
    BY <1>1, <2>1, Phases DEF Crash
  <2> QED BY <1>8, <2>1, <2>2 DEF IInv, ServedByUp
<1> QED BY <1>5, <1>6, <1>10, <1>11, <1>12, <1>13 DEF IInv

\* Replication copies a row that satisfies the invariant.
LEMMA ReplicateKeepsIInv ==
    ASSUME IInv, Replicate
    PROVE  IInv'
<1>1. /\ TypeOK /\ replica' = row
      /\ UNCHANGED <<row, issued, node, memory, request, loggedIn, announced,
                     writer, spent, stale>>
  BY DEF IInv, Replicate, process, history
<1> QED BY <1>1 DEF TypeOK, IInv, ChosenIsUsed, MemoryWasAnnounced,
          StartsKnowTheRow, RequestsSawTheRow, ServedByUp, UsedForGood, Known,
          LockOutNeedsStaleWrite, LockedOut, LastStartShowsPassword,
          ReturnedAgainOnlyBehind

-----------------------------------------------------------------------------
\* What a request does leaves the processes alone, but for the memory that
\* a first login empties; the row it may only mark used, or give a password
\* the administrator chose.  With the type and the request's own part
\* that is the invariant.
LEMMA RequestKeepsIInv ==
    ASSUME IInv, TypeOK', RequestsSawTheRow', ServedByUp',
           ReturnedAgainOnlyBehind',
           UNCHANGED <<replica, issued, node, announced, writer>>,
           \/ row' = row
           \/ row' = [row EXCEPT !.used = TRUE]
           \/ \E p \in Chosen : row' = [hash |-> p, used |-> TRUE],
           row'.used /\ ~row.used => row'.hash \in Known \/ stale',
           row' # row => row.hash # None,
           stale => stale',
           spent' # {} => spent # {} \/ row.used,
           \A i \in spent' : memory'[i] = None,
           memory' # memory => row.used,
           \A i \in Instance : memory'[i] = memory[i] \/ memory'[i] = None
    PROVE  IInv'
<1>1. TypeOK
  BY DEF IInv
<1>2. /\ row.used => row'.used
      /\ row'.hash = row.hash \/ row'.hash \in Chosen
      /\ row'.hash # row.hash => row'.used
      /\ row'.hash = None => row' = row
      /\ row.hash = None => row' = row
  BY <1>1 DEF TypeOK, Row
<1>3. ChosenIsUsed' /\ UsedForGood'
  BY <1>2 DEF IInv, ChosenIsUsed, UsedForGood
<1>4. LockOutNeedsStaleWrite'
  BY <1>2 DEF IInv, LockOutNeedsStaleWrite, LockedOut, Known
<1>5. MemoryWasAnnounced'
  BY <1>2 DEF IInv, MemoryWasAnnounced
<1>6. LastStartShowsPassword'
  BY <1>2 DEF IInv, LastStartShowsPassword
<1>7. StartsKnowTheRow'
  BY <1>2 DEF IInv, StartsKnowTheRow
<1> QED BY <1>3, <1>4, <1>5, <1>6, <1>7 DEF IInv

\* A request begins.
LEMMA BeginKeepsIInv ==
    ASSUME IInv, NEW r \in Request, NEW i \in Instance,
           NEW phase \in {"matched", "show", "change"}, Begin(r, i, phase),
           phase \in {"matched", "change"} => replica.hash \in Known,
           phase = "show" => ~replica.used
    PROVE  IInv'
<1>0. node[i] = Up
  BY DEF Begin
<1> DEFINE q == [phase |-> phase, at |-> i, saw |-> replica, answer |-> None,
                 began |-> BeginsNow(i)]
<1>1. /\ request' = [request EXCEPT ![r] = q]
      /\ UNCHANGED <<row, replica, issued, node, memory, loggedIn, announced,
                     writer, spent, stale>>
  BY DEF Begin, database, process, history
<1>2. TypeOK
  BY DEF IInv
<1>3. q \in Running
  BY <1>2 DEF Running, TypeOK, When, BeginsNow
<1>4. /\ q.phase = phase /\ q.saw = replica /\ q.at = i
      /\ q.answer = None
      /\ q.began = "after" => q.saw.used \/ q.at \in spent
  BY DEF IInv, UsedForGood, BeginsNow
<1> HIDE DEF q
<1>5. TypeOK'
  BY <1>1, <1>2, <1>3 DEF TypeOK
<1>6. \A x \in Request : request'[x] = IF x = r THEN q ELSE request[x]
  BY <1>1, <1>2 DEF TypeOK
<1>7. RequestsSawTheRow' /\ ReturnedAgainOnlyBehind'
  BY <1>1, <1>4, <1>6 DEF IInv, RequestsSawTheRow, ReturnedAgainOnlyBehind, Known
<1>8. ServedByUp'
  BY <1>0, <1>1, <1>4, <1>6 DEF IInv, ServedByUp
<1>9. \A j \in spent' : memory'[j] = None
  BY <1>1 DEF IInv, UsedForGood
<1> QED BY <1>1, <1>5, <1>7, <1>8, <1>9, RequestKeepsIInv

\* A request goes on to its next phase.
LEMMA GoOnKeepsIInv ==
    ASSUME IInv, NEW r \in Request, request[r].phase # "done",
           NEW q \in Running, q.phase \in {"take", "mark", "clear"},
           q.at = request[r].at, q.saw = request[r].saw,
           q.began = request[r].began,
           q.began = "after" => q.answer = None,
           request' = [request EXCEPT ![r] = q],
           request[r].phase \in {"matched", "take", "mark"},
           ~request[r].saw.used,
           row' = row \/ row' = [row EXCEPT !.used = TRUE],
           q.phase = "clear" => row'.used,
           row'.used /\ ~row.used => row'.hash \in Known \/ stale',
           stale => stale', stale' \in BOOLEAN,
           UNCHANGED <<replica, issued, node, memory, loggedIn, announced,
                       writer, spent>>
    PROVE  IInv'
<1>1. TypeOK /\ q.phase # "done"
  BY DEF IInv
<1>4. TypeOK'
  <2>1. row' \in Row
    BY <1>1 DEF TypeOK, Row
  <2>2. request' \in [Request -> Running \union Ended]
    BY <1>1 DEF TypeOK
  <2> QED BY <1>1, <2>1, <2>2 DEF TypeOK
<1>5. \A x \in Request : request'[x] = IF x = r THEN q ELSE request[x]
  BY <1>1 DEF TypeOK
<1>6. row.used => row'.used
  BY <1>1 DEF TypeOK, Row
<1>7. RequestsSawTheRow'
  BY <1>5, <1>6 DEF IInv, RequestsSawTheRow, Known
<1>8. ReturnedAgainOnlyBehind'
  BY <1>1, <1>5 DEF IInv, ReturnedAgainOnlyBehind
<1>9. ServedByUp' /\ row.hash # None
  BY <1>1, <1>5, Phases DEF IInv, ServedByUp, StartsKnowTheRow
<1>10. \A j \in spent' : memory'[j] = None
  BY DEF IInv, UsedForGood
<1> QED BY <1>4, <1>7, <1>8, <1>9, <1>10, RequestKeepsIInv

\* A request ends: with no password if that is known to be spent.
LEMMA EndKeepsIInv ==
    ASSUME IInv, NEW r \in Request, request[r].phase # "done",
           NEW answer \in Generated \union {None}, End(r, answer),
           request[r].began = "after" => answer = None,
           row' # row => \E p \in Chosen : row' = [hash |-> p, used |-> TRUE],
           memory' = memory
             \/ (row.used /\ memory' = [memory EXCEPT ![request[r].at] = None]),
           loggedIn' \in BOOLEAN,
           \/ spent' = spent
           \/ /\ row.used /\ memory'[request[r].at] = None
              /\ spent' = spent \union {request[r].at},
           UNCHANGED <<replica, issued, node, announced, writer, stale>>
    PROVE  IInv'
<1> DEFINE e == [phase |-> "done", answer |-> answer,
                 began |-> request[r].began]
<1>1. TypeOK /\ request[r].began \in When /\ request[r].at \in Instance
  BY Phases DEF IInv
<1>2. e \in Ended /\ e.phase = "done" /\ e.answer = answer
      /\ e.began = request[r].began
  BY <1>1 DEF Ended
<1>3. request' = [request EXCEPT ![r] = e]
  BY DEF End
<1> HIDE DEF e
<1>4. TypeOK'
  <2>1. row' \in Row
    <3>1. CASE row' = row
      BY <1>1, <3>1 DEF TypeOK
    <3>2. CASE \E p \in Chosen : row' = [hash |-> p, used |-> TRUE]
      BY <3>2 DEF Row, Password
    <3> QED BY <3>1, <3>2
  <2>2. request' \in [Request -> Running \union Ended]
    BY <1>1, <1>2, <1>3 DEF TypeOK
  <2>3. memory' \in [Instance -> Generated \union {None}]
    BY <1>1 DEF TypeOK
  <2> QED BY <1>1, <2>1, <2>2, <2>3 DEF TypeOK
<1>5. \A x \in Request : request'[x] = IF x = r THEN e ELSE request[x]
  BY <1>1, <1>3 DEF TypeOK
<1>6. row.used => row'.used
  BY <1>1 DEF TypeOK, Row
<1>7. RequestsSawTheRow'
  BY <1>2, <1>5, <1>6 DEF IInv, RequestsSawTheRow, Known
<1>8. ReturnedAgainOnlyBehind'
  BY <1>2, <1>5 DEF IInv, RequestsSawTheRow, ReturnedAgainOnlyBehind
<1>9. row'.used /\ ~row.used => row'.hash \in Known
  BY <1>1 DEF Known
<1>10. \A i \in Instance : memory'[i] = memory[i] \/ memory'[i] = None
  BY <1>1 DEF TypeOK
<1>11. memory' # memory => row.used
  OBVIOUS
<1>12. ServedByUp' /\ row.hash # None
  BY <1>1, <1>2, <1>5, Phases DEF IInv, ServedByUp, StartsKnowTheRow
<1>13. /\ spent' # {} => spent # {} \/ row.used
       /\ \A i \in spent' : memory'[i] = None
  BY <1>1, <1>10 DEF IInv, UsedForGood, TypeOK
<1> QED BY <1>4, <1>7, <1>8, <1>9, <1>10, <1>11, <1>12, <1>13, RequestKeepsIInv

\* The same for a request that ends and changes nothing but its answer.
LEMMA EndUnchangedKeepsIInv ==
    ASSUME IInv, NEW r \in Request, request[r].phase # "done",
           NEW answer \in Generated \union {None}, End(r, answer),
           request[r].began = "after" => answer = None,
           loggedIn' \in BOOLEAN,
           UNCHANGED <<row, replica, issued, node, memory, announced, writer,
                       spent, stale>>
    PROVE  IInv'
<1>1. /\ row' # row => \E p \in Chosen : row' = [hash |-> p, used |-> TRUE]
      /\ memory' = memory
           \/ (row.used /\ memory' = [memory EXCEPT ![request[r].at] = None])
  OBVIOUS
<1> QED BY <1>1, EndKeepsIInv, Zenon

\* Every step of a request keeps the invariant.
LEMMA RequestStepKeepsIInv ==
    ASSUME IInv, NEW r \in Request, RequestStep(r)
    PROVE  IInv'
<1> USE DEF database, process, history
<1>1. /\ TypeOK /\ stale \in BOOLEAN /\ loggedIn \in BOOLEAN
      /\ MemoryWasAnnounced
  BY DEF IInv, TypeOK
<1>2. request[r].phase # "done" =>
        /\ request[r] \in Running
        /\ request[r].at \in Instance
        /\ memory[request[r].at] \in Generated \union {None}
        /\ request[r].answer \in Generated \union {None}
  BY <1>1, Phases DEF TypeOK
<1>3. /\ request[r].phase \in {"take", "mark", "clear", "show"}
           => ~request[r].saw.used
      /\ request[r].phase \in {"matched", "take", "mark", "clear", "change"}
           => request[r].saw.hash \in Known
      /\ request[r].phase = "clear" => row.used
      /\ request[r].phase # "done" /\ request[r].began = "after" =>
           /\ request[r].answer = None
           /\ ~request[r].saw.used => memory[request[r].at] = None
  BY DEF IInv, RequestsSawTheRow, UsedForGood
<1>4. ASSUME NEW i \in Instance,
             LoginReads(r, i) \/ ShowReads(r, i) \/ ChangeReads(r, i)
      PROVE  IInv'
  <2>1. CASE LoginReads(r, i)
    BY <2>1, BeginKeepsIInv DEF LoginReads
  <2>2. CASE ShowReads(r, i)
    BY <2>2, BeginKeepsIInv DEF ShowReads
  <2>3. CASE ChangeReads(r, i)
    BY <2>3, BeginKeepsIInv DEF ChangeReads
  <2> QED BY <1>4, <2>1, <2>2, <2>3
<1>5. CASE LoginIsPlain(r)
  <2>1. /\ request[r].phase # "done" /\ End(r, None) /\ loggedIn' = TRUE
        /\ UNCHANGED <<row, replica, issued, node, memory, announced, writer,
                       spent, stale>>
    BY <1>5 DEF LoginIsPlain
  <2>2. /\ None \in Generated \union {None}
        /\ request[r].began = "after" => None = None
    BY <1>2, <1>3, <1>5 DEF LoginIsPlain
  <2> QED BY <1>1, <2>1, <2>2, EndUnchangedKeepsIInv
<1>6. CASE LoginIsFirst(r)
  <2> DEFINE q == [request[r] EXCEPT !.phase = "take"]
  <2>1. /\ q \in Running /\ q.phase = "take" /\ q.at = request[r].at
        /\ q.saw = request[r].saw /\ q.began = request[r].began
        /\ q.began = "after" => q.answer = None
    BY <1>2, <1>3, <1>6 DEF LoginIsFirst, Running
  <2>2. request' = [request EXCEPT ![r] = q]
    BY <1>1, <1>6 DEF LoginIsFirst, TypeOK
  <2> HIDE DEF q
  <2> QED BY <1>1, <1>6, <2>1, <2>2, GoOnKeepsIInv DEF LoginIsFirst
<1>7. CASE LoginTakes(r)
  <2> DEFINE q == [request[r] EXCEPT !.phase = "mark", !.answer = memory[request[r].at]]
  <2>1. /\ q \in Running /\ q.phase = "mark" /\ q.at = request[r].at
        /\ q.saw = request[r].saw /\ q.began = request[r].began
        /\ q.began = "after" => q.answer = None
    BY <1>2, <1>3, <1>7 DEF LoginTakes, Running
  <2>2. request' = [request EXCEPT ![r] = q]
    BY <1>1, <1>7 DEF LoginTakes, TypeOK
  <2> HIDE DEF q
  <2> QED BY <1>1, <1>3, <1>7, <2>1, <2>2, GoOnKeepsIInv DEF LoginTakes
<1>8. CASE LoginMarks(r)
  <2> DEFINE q == [request[r] EXCEPT !.phase = "clear"]
  <2>1. /\ q \in Running /\ q.phase = "clear" /\ q.at = request[r].at
        /\ q.saw = request[r].saw /\ q.began = request[r].began
        /\ q.began = "after" => q.answer = None
    BY <1>2, <1>3, <1>8 DEF LoginMarks, Running
  <2>2. request' = [request EXCEPT ![r] = q]
    BY <1>1, <1>8 DEF LoginMarks, TypeOK
  <2> HIDE DEF q
  <2>3. /\ row'.used /\ row'.hash = row.hash
        /\ stale' = (stale \/ row.hash # request[r].saw.hash)
    BY <1>1, <1>8 DEF LoginMarks, TypeOK, Row
  <2>4. row.hash \in Known \/ stale'
    BY <1>3, <1>8, <2>3 DEF LoginMarks
  <2>5. /\ request[r].phase = "mark" /\ ~request[r].saw.used
        /\ row' = [row EXCEPT !.used = TRUE]
        /\ UNCHANGED <<replica, issued, node, memory, loggedIn, announced,
                       writer, spent>>
    BY <1>3, <1>8 DEF LoginMarks
  <2>6. (stale => stale') /\ stale' \in BOOLEAN
    BY <1>1, <2>3
  <2> QED BY <2>1, <2>2, <2>3, <2>4, <2>5, <2>6, GoOnKeepsIInv
<1>9. CASE LoginClears(r)
  <2>1. /\ request[r].phase # "done" /\ End(r, request[r].answer)
        /\ request[r].answer \in Generated \union {None}
        /\ request[r].began = "after" => request[r].answer = None
        /\ row' # row => \E p \in Chosen : row' = [hash |-> p, used |-> TRUE]
        /\ memory' = memory
             \/ (row.used /\ memory' = [memory EXCEPT ![request[r].at] = None])
        /\ loggedIn' \in BOOLEAN
        /\ \/ spent' = spent
           \/ /\ row.used /\ memory'[request[r].at] = None
              /\ spent' = spent \union {request[r].at}
        /\ UNCHANGED <<replica, issued, node, announced, writer, stale>>
    BY <1>1, <1>2, <1>3, <1>9 DEF LoginClears, TypeOK
  <2> QED BY <2>1, EndKeepsIInv, Zenon
<1>10. CASE LoginFails(r)
  <2>1. /\ request[r].phase # "done" /\ End(r, None) /\ loggedIn' = loggedIn
        /\ UNCHANGED <<row, replica, issued, node, memory, announced, writer,
                       spent, stale>>
    BY <1>10 DEF LoginFails
  <2>2. /\ None \in Generated \union {None}
        /\ request[r].began = "after" => None = None
    BY <1>2, <1>3, <1>10 DEF LoginFails
  <2> QED BY <1>1, <2>1, <2>2, EndUnchangedKeepsIInv
<1>11. CASE ShowAnswers(r)
  <2>1. /\ request[r].phase # "done" /\ End(r, memory[request[r].at]) /\ loggedIn' = loggedIn
        /\ UNCHANGED <<row, replica, issued, node, memory, announced, writer,
                       spent, stale>>
    BY <1>11 DEF ShowAnswers
  <2>2. /\ memory[request[r].at] \in Generated \union {None}
        /\ request[r].began = "after" => memory[request[r].at] = None
    BY <1>2, <1>3, <1>11 DEF ShowAnswers
  <2> QED BY <1>1, <2>1, <2>2, EndUnchangedKeepsIInv
<1>12. CASE ChangeWrites(r)
  <2>1. /\ request[r].phase # "done" /\ End(r, None)
        /\ loggedIn' = loggedIn /\ memory' = memory /\ spent' = spent
        /\ UNCHANGED <<replica, issued, node, announced, writer, stale>>
        /\ \E p \in Chosen : row' = [hash |-> p, used |-> TRUE]
    BY <1>12 DEF ChangeWrites
  <2>2. /\ None \in Generated \union {None}
        /\ request[r].began = "after" => None = None
        /\ row' # row => \E p \in Chosen : row' = [hash |-> p, used |-> TRUE]
        /\ memory' = memory
             \/ (row.used /\ memory' = [memory EXCEPT ![request[r].at] = None])
    BY <2>1, Zenon
  <2>3. loggedIn' \in BOOLEAN
    BY <1>1, <2>1
  <2> QED BY <2>1, <2>2, <2>3, EndKeepsIInv, Zenon
<1> QED BY <1>4, <1>5, <1>6, <1>7, <1>8, <1>9, <1>10, <1>11, <1>12
        DEF RequestStep

\* Every step keeps the invariant.
LEMMA NextIInv == IInv /\ [Next]_vars => IInv'
<1> SUFFICES ASSUME IInv, [Next]_vars PROVE IInv'
  OBVIOUS
<1>1. ASSUME NEW i \in Instance, StartStep(i)
      PROVE  IInv'
  BY <1>1, StartKeepsIInv, StartReadsKeepsIInv, StartCreatesKeepsIInv,
     StartOverwritesKeepsIInv, StartRereadsKeepsIInv DEF StartStep
<1>2. ASSUME NEW i \in Instance, Crash(i)
      PROVE  IInv'
  BY <1>2, CrashKeepsIInv
<1>3. ASSUME NEW r \in Request, RequestStep(r)
      PROVE  IInv'
  BY <1>3, RequestStepKeepsIInv
<1>4. CASE Replicate
  BY <1>4, ReplicateKeepsIInv
<1>5. CASE UNCHANGED vars
  BY <1>5 DEF vars, TypeOK, IInv, ChosenIsUsed, MemoryWasAnnounced,
     StartsKnowTheRow, RequestsSawTheRow, ServedByUp, UsedForGood, Known,
     LockOutNeedsStaleWrite, LockedOut, LastStartShowsPassword,
     ReturnedAgainOnlyBehind
<1> QED BY <1>1, <1>2, <1>3, <1>4, <1>5 DEF Next

\* The inductive invariant, the types among it, holds in every state.
THEOREM Invariance == Spec => []IInv
BY InitIInv, NextIInv, PTL DEF Spec

\* An administrator is locked out only after a write that was decided on a
\* row that had changed since: a start that overwrites (BootstrapAdmin) or
\* a login that marks (MarkInitialPasswordUsed).
THEOREM LockOutsNeedStaleWrites == Spec => []LockOutNeedsStaleWrite
<1>1. IInv => LockOutNeedsStaleWrite
  BY DEF IInv
<1> QED BY <1>1, Invariance, PTL

\* What the instance that started last shows as the unused initial
\* password opens the account.
THEOREM LastStartsShowThePassword == Spec => []LastStartShowsPassword
<1>1. IInv => LastStartShowsPassword
  BY DEF IInv
<1> QED BY <1>1, Invariance, PTL

\* After a login that returned the initial password, a request returns one
\* only if it began at another instance, while the replica did not yet show
\* the mark; restarts make no difference.
THEOREM InitialPasswordReturnsOnlyBehind == Spec => []ReturnedAgainOnlyBehind
<1>1. IInv => ReturnedAgainOnlyBehind
  BY DEF IInv
<1> QED BY <1>1, Invariance, PTL

-----------------------------------------------------------------------------
(***************************************************************************)
(* One instance                                                            *)
(*                                                                         *)
(* Where a single instance is all there ever is, restarts do not overlap   *)
(* with requests: between the query of a start and its second look at the  *)
(* row nobody else writes, so that a password in force is either still     *)
(* unused or was logged.                                                   *)
(***************************************************************************)

\* What a start knows of the row while it is the only process.
StartOwnsTheRow ==
    \A i \in Instance :
        /\ node[i].phase \in {"create", "overwrite"} => ~row.used
        /\ node[i].phase = "reread" => row.used \/ row.hash = node[i].password
        /\ node[i].phase = "up" => row.hash \in Known

AloneInv == IInv /\ NeverLockedOut /\ StartOwnsTheRow

\* A step of the only process keeps all that.
LEMMA AloneNext ==
    ASSUME NEW i, Instance = {i}, AloneInv, [Next]_vars
    PROVE  AloneInv'
<1> USE DEF database, process, history
<1>1. IInv /\ IInv'
  BY NextIInv DEF AloneInv
<1>2. /\ TypeOK /\ i \in Instance
      /\ node[i].phase \in {"create", "overwrite"} => ~row.used
      /\ node[i].phase = "reread" => row.used \/ row.hash = node[i].password
      /\ node[i].phase = "up" => row.hash \in Known
      /\ row.used => row.hash \in Known
      /\ row.hash = None => ~row.used
  BY <1>1 DEF AloneInv, IInv, NeverLockedOut, LockedOut, StartOwnsTheRow,
       UsedForGood
<1> SUFFICES /\ row'.used => row'.hash \in Known'
             /\ node'[i].phase \in {"create", "overwrite"} => ~row'.used
             /\ node'[i].phase = "reread" =>
                  row'.used \/ row'.hash = node'[i].password
             /\ node'[i].phase = "up" => row'.hash \in Known'
  BY <1>1 DEF AloneInv, NeverLockedOut, LockedOut, StartOwnsTheRow
<1>3. Down.phase = "down" /\ Up.phase = "up"
  BY DEF Down, Up
<1>4. CASE Start(i)
  <2>1. /\ node'[i].phase = "generated" /\ row' = row /\ Known' = Known
    BY <1>2, <1>4 DEF Start, TypeOK, Known
  <2> QED BY <1>2, <2>1
<1>5. CASE StartReads(i)
  <2> DEFINE phase == IF row.hash = None THEN "create"
                      ELSE IF row.used THEN "reread" ELSE "overwrite"
  <2>1. phase \in {"create", "overwrite", "reread"}
    OBVIOUS
  <2>2. node'[i].phase = phase /\ row' = row /\ Known' = Known
    BY <1>2, <1>5, <2>1, StartGoesOn DEF StartReads, Known
  <2> QED BY <1>2, <2>2
<1>6. CASE StartCreates(i)
  <2>1. CASE row.hash = None
    <3>1. /\ node'[i].phase = "reread" /\ node'[i].password = node[i].password
          /\ row'.hash = node[i].password /\ ~row'.used
      BY <1>2, <1>6, <2>1, StartGoesOn DEF StartCreates
    <3> QED BY <3>1
  <2>2. CASE row.hash # None
    <3>1. node'[i] = Down /\ row' = row /\ Known' = Known
      BY <1>2, <1>6, <2>2 DEF StartCreates, TypeOK, Known
    <3> QED BY <1>2, <1>3, <3>1
  <2> QED BY <2>1, <2>2
<1>7. CASE StartOverwrites(i)
  <2>1. /\ node'[i].phase = "reread" /\ node'[i].password = node[i].password
    BY <1>2, <1>7, StartGoesOn DEF StartOverwrites
  <2>2. row'.hash = node[i].password /\ row'.used = row.used
    BY <1>2, <1>7 DEF StartOverwrites, TypeOK, Row
  <2> QED BY <1>2, <1>7, <2>1, <2>2 DEF StartOverwrites
<1>8. CASE StartRereads(i)
  <2>1. /\ node'[i] = Up /\ row' = row
        /\ row.used => announced' = announced
        /\ ~row.used => announced' = announced \union {node[i].password}
    BY <1>2, <1>8 DEF StartRereads, TypeOK
  <2> QED BY <1>2, <1>3, <1>8, <2>1 DEF StartRereads, Known
<1>9. CASE Crash(i)
  <2>1. node'[i] = Down /\ row' = row /\ Known' = Known
    BY <1>2, <1>9 DEF Crash, TypeOK, Known
  <2> QED BY <1>2, <1>3, <2>1
<1>10. ASSUME NEW r \in Request, RequestStep(r)
       PROVE  /\ node' = node /\ Known' = Known /\ (row' = row \/
                   /\ node[i].phase = "up"
                   /\ row'.hash \in Known)
  <2>1. node' = node /\ Known' = Known
    BY <1>10 DEF RequestStep, LoginReads, ShowReads, ChangeReads, Begin,
         LoginIsPlain, LoginIsFirst, LoginTakes, LoginMarks, LoginClears,
         LoginFails, ShowAnswers, ChangeWrites, Known
  <2>2. CASE LoginMarks(r) \/ ChangeWrites(r)
    <3>1. node[i].phase = "up"
      BY <1>1, <1>2, <1>3, <2>2, Phases
         DEF LoginMarks, ChangeWrites, IInv, ServedByUp
    <3>2. CASE LoginMarks(r)
      BY <1>2, <2>1, <3>1, <3>2 DEF LoginMarks, TypeOK, Row
    <3>3. CASE ChangeWrites(r)
      BY <2>1, <3>1, <3>3 DEF ChangeWrites, Known
    <3> QED BY <2>2, <3>2, <3>3
  <2>3. CASE ~(LoginMarks(r) \/ ChangeWrites(r))
    <3>1. row' = row
      BY <1>10, <2>3 DEF RequestStep, LoginReads, ShowReads, ChangeReads,
         Begin, LoginIsPlain, LoginIsFirst, LoginTakes, LoginClears,
         LoginFails, ShowAnswers
    <3> QED BY <2>1, <3>1
  <2> QED BY <2>2, <2>3
<1>11. CASE \E r \in Request : RequestStep(r)
  BY <1>2, <1>10, <1>11
<1>12. CASE Replicate \/ UNCHANGED vars
  <2>1. node' = node /\ row' = row /\ Known' = Known
    BY <1>12 DEF Replicate, vars, Known
  <2> QED BY <1>2, <2>1
<1> QED BY <1>2, <1>4, <1>5, <1>6, <1>7, <1>8, <1>9, <1>11, <1>12
        DEF Next, StartStep

\* Where there is one instance only, the administrator is never locked out,
\* whatever is in progress when it stops and however late the replica is:
\* docs/auth-permission-design.md is right about BootstrapAdmin there.
THEOREM OneInstanceNeverLocksOut ==
    ASSUME NEW i, Instance = {i}
    PROVE  Spec => []NeverLockedOut
<1>1. Init => AloneInv
  BY InitIInv DEF AloneInv, NeverLockedOut, LockedOut, StartOwnsTheRow, Init,
     Down
<1>2. AloneInv /\ [Next]_vars => AloneInv'
  BY AloneNext
<1>3. AloneInv => NeverLockedOut
  BY DEF AloneInv
<1> QED BY <1>1, <1>2, <1>3, PTL DEF Spec
=============================================================================
