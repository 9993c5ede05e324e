-------------------------- MODULE TwoFactorProofs --------------------------
(***************************************************************************)
(* Theorems about TwoFactor and the Settings it includes, for any keys,    *)
(* values, defaults, secrets and calls and any bound on what is begun.     *)
(*                                                                         *)
(* The argument for the settings: a key that ReadEnt shows when an update  *)
(* begins, and that no other call is to write then, is nobody else's until *)
(* the update is done, as a reader that arrives finds the row and another  *)
(* update makes the first one doubtful.  For the login: as long as ReadEnt *)
(* shows two-factor on, so do both of its reads, whatever the order of the *)
(* changes on WriteEnt.                                                    *)
(***************************************************************************)
EXTENDS TwoFactor, TLAPS

-----------------------------------------------------------------------------
(***************************************************************************)
(* Settings                                                                *)
(***************************************************************************)
LEMMA CallKinds ==
    ASSUME NEW r \in Calling \union {NotCalled}
    PROVE  r # NotCalled <=> r.phase \in {"lookup", "insert", "update", "done"}
<1>1. \A x \in Calling : x.phase \in {"lookup", "insert", "update", "done"}
  BY DEF Calling
<1>2. NotCalled.phase = "none"
  BY DEF NotCalled
<1> QED BY <1>1, <1>2

LEMMA IsCalling ==
    ASSUME NEW r \in Calling
    PROVE  r # NotCalled
BY CallKinds DEF Calling

\* The ways in which the call c that is now r goes on as n: with the keys T,
\* with the update it was made for, having made it, having read.
Loops(c, r, T, n) ==
    /\ T # {} /\ n.todo = T
    /\ n.saving = r.saving /\ n.want = r.want
    /\ UNCHANGED <<doubt, asked>>

Turns(c, r, T, n) ==
    /\ T = {} /\ ~r.saving /\ r.want # None
    /\ n.saving /\ n.todo = Key /\ n.want = r.want
    /\ doubt' = [d \in Call |->
         IF d = c /\ Others(c) = {} THEN {k \in Key : ~Settled(c, k)}
         ELSE IF d = c \/ Saving(d) THEN Key ELSE doubt[d]]
    /\ asked' = [k \in Key |-> Unclear]

Saved(c, r, T, n) ==
    /\ T = {} /\ r.saving /\ r.want # None
    /\ ~n.saving /\ n.todo = {} /\ n.want = None
    /\ doubt' = [doubt EXCEPT ![c] = {}]
    /\ asked' = [k \in Key |-> IF k \in doubt[c] THEN Unclear ELSE r.want[k]]

Read(c, r, T, n) ==
    /\ T = {} /\ ~r.saving /\ r.want = None
    /\ ~n.saving /\ n.todo = {} /\ n.want = None
    /\ UNCHANGED <<doubt, asked>>

GoneOn(c, r, T, n) ==
    /\ call' = [call EXCEPT ![c] = n]
    /\ n.totp = r.totp /\ n.failed = r.failed
    /\ n.phase \in {"lookup", "done"}
    /\ n.phase = "done" => n.todo = {}
    /\ \/ Loops(c, r, T, n) \/ Turns(c, r, T, n)
       \/ Saved(c, r, T, n) \/ Read(c, r, T, n)

\* What a call goes on as.
LEMMA GoesOnAs ==
    ASSUME SettingsTypeOK, NEW c \in Call, NEW r \in Calling,
           NEW T \in SUBSET Key, GoesOn(c, r, T), r.saving => r.want # None
    PROVE  \E n \in Calling : GoneOn(c, r, T, n)
<1> DEFINE m == [r EXCEPT !.phase = "lookup", !.todo = T, !.key = None]
           s == [r EXCEPT !.phase = "lookup", !.todo = Key, !.key = None,
                          !.saving = TRUE]
           e == [r EXCEPT !.phase = "done", !.todo = {}, !.key = None,
                          !.saving = FALSE, !.want = None]
<1>1. /\ m \in Calling /\ m.totp = r.totp /\ m.failed = r.failed
      /\ m.phase = "lookup" /\ m.todo = T /\ m.saving = r.saving
      /\ m.want = r.want
  BY DEF Calling
<1>2. /\ s \in Calling /\ s.totp = r.totp /\ s.failed = r.failed
      /\ s.phase = "lookup" /\ s.todo = Key /\ s.saving = TRUE
      /\ s.want = r.want
  BY DEF Calling
<1>3. /\ e \in Calling /\ e.totp = r.totp /\ e.failed = r.failed
      /\ e.phase = "done" /\ e.todo = {} /\ e.saving = FALSE
      /\ e.want = None
  BY DEF Calling
<1>4. CASE T # {}
  <2>1. call' = [call EXCEPT ![c] = m] /\ UNCHANGED <<doubt, asked>>
    BY <1>4 DEF GoesOn, SetCall
  <2> HIDE DEF m
  <2> QED BY <1>1, <1>4, <2>1 DEF GoneOn, Loops
<1>5. CASE T = {} /\ ~r.saving /\ r.want # None
  <2>1. StartsSaving(c, r)
    BY <1>5 DEF GoesOn
  <2>2. /\ call' = [call EXCEPT ![c] = s]
        /\ doubt' = [d \in Call |->
             IF d = c /\ Others(c) = {} THEN {k \in Key : ~Settled(c, k)}
             ELSE IF d = c \/ Saving(d) THEN Key ELSE doubt[d]]
        /\ asked' = [k \in Key |-> Unclear]
    BY <2>1 DEF StartsSaving, SetCall
  <2> HIDE DEF s
  <2> QED BY <1>2, <1>5, <2>2 DEF GoneOn, Turns
<1>6. CASE T = {} /\ r.saving
  <2>1. SavedAll(c, r)
    BY <1>6 DEF GoesOn
  <2>2. /\ call' = [call EXCEPT ![c] = e]
        /\ doubt' = [doubt EXCEPT ![c] = {}]
        /\ asked' = [k \in Key |-> IF k \in doubt[c] THEN Unclear ELSE r.want[k]]
    BY <2>1 DEF SavedAll, Done, SetCall
  <2> HIDE DEF e
  <2> QED BY <1>3, <1>6, <2>2 DEF GoneOn, Saved
<1>7. CASE T = {} /\ ~r.saving /\ r.want = None
  <2>1. call' = [call EXCEPT ![c] = e] /\ UNCHANGED <<doubt, asked>>
    BY <1>7 DEF GoesOn, Done, SetCall
  <2> HIDE DEF e
  <2> QED BY <1>3, <1>7, <2>1 DEF GoneOn, Read
<1> QED BY <1>4, <1>5, <1>6, <1>7

\* The call c goes on, after it has written at most what it was to write;
\* what it is to write next it was to write before or no row shows.
LEMMA GoesOnKeepsSettings ==
    ASSUME SettingsIInv, NEW c \in Call, NEW r \in Calling,
           NEW T \in SUBSET Key, GoesOn(c, r, T), replica' = replica,
           rows' \in [Key -> Value \union {None}],
           \A k \in Key : rows[k] # None => rows'[k] # None,
           \A k \in Key : rows'[k] # rows[k] => k \in ToWrite(c),
           \A k \in T : k \in ToWrite(c) \/ replica[k] = None,
           r.saving => /\ r.want # None /\ Saving(c)
                       /\ \A k \in Key \ doubt[c] : k \notin T => rows'[k] = r.want[k]
    PROVE  SettingsIInv'
<1>1. /\ SettingsTypeOK
      /\ \A k \in Key : replica[k] # None => rows[k] # None
      /\ \A d \in Call : call[d] # NotCalled =>
           /\ call[d].phase \in {"insert", "update"} => call[d].key \in call[d].todo
           /\ call[d].saving => call[d].want # None
           /\ call[d].phase = "done" => call[d].todo = {}
      /\ \A d \in Call : Saving(d) => \A k \in Key \ doubt[d] :
           /\ Settled(d, k)
           /\ k \notin call[d].todo => rows[k] = call[d].want[k]
      /\ \A k \in Key : asked[k] # Unclear =>
           /\ replica[k] # None
           /\ \A d \in Call : k \notin ToWrite(d)
      /\ \A k \in Key : asked[k] # Unclear => rows[k] = asked[k]
  BY DEF SettingsIInv, SettingsAreOfLastUpdate
<1>2. PICK n \in Calling : GoneOn(c, r, T, n)
  BY <1>1, GoesOnAs
<1>3. /\ call' = [call EXCEPT ![c] = n]
      /\ n.totp = r.totp /\ n.failed = r.failed
      /\ n.phase \in {"lookup", "done"}
      /\ n.phase = "done" => n.todo = {}
  BY <1>2 DEF GoneOn
<1>4. Loops(c, r, T, n) \/ Turns(c, r, T, n) \/ Saved(c, r, T, n)
      \/ Read(c, r, T, n)
  BY <1>2 DEF GoneOn
<1>5. /\ call'[c] = n /\ n # NotCalled
      /\ \A d \in Call : d # c => call'[d] = call[d]
  BY <1>1, <1>3, IsCalling DEF SettingsTypeOK
<1>6. /\ \A d \in Call : d # c => ToWrite(d)' = ToWrite(d)
      /\ \A d \in Call : d # c => (Saving(d)' <=> Saving(d))
      /\ ToWrite(c)' = n.todo
      /\ Saving(c)' <=> n.saving
  BY <1>5 DEF ToWrite, Saving
<1>7. \A d \in Call, k \in Key :
        Settled(d, k)' <=> /\ replica[k] # None
                           /\ \A o \in Call \ {d} : k \notin ToWrite(o)'
  BY DEF Settled
<1>8. n.saving => n.want # None
  BY <1>4 DEF Loops, Turns, Saved, Read
<1>9. /\ \A k \in Key : replica'[k] # None => rows'[k] # None
      /\ \A d \in Call : call'[d] # NotCalled =>
           /\ call'[d].phase \in {"insert", "update"} => call'[d].key \in call'[d].todo
           /\ call'[d].saving => call'[d].want # None
           /\ call'[d].phase = "done" => call'[d].todo = {}
  BY <1>1, <1>3, <1>5, <1>8
\* The other updates keep what they are sure of.
<1>10. ASSUME NEW d \in Call, d # c, Saving(d), NEW k \in Key \ doubt[d],
             n.todo \subseteq T
      PROVE  Settled(d, k)' /\ (k \notin call'[d].todo => rows'[k] = call'[d].want[k])
  <2>1. replica[k] # None /\ \A o \in Call \ {d} : k \notin ToWrite(o)
    BY <1>1, <1>10 DEF Settled
  <2>2. k \notin n.todo
    BY <1>10, <2>1
  <2>3. \A o \in Call \ {d} : k \notin ToWrite(o)'
    BY <1>6, <2>1, <2>2
  <2>4. rows'[k] = rows[k]
    BY <1>10, <2>1
  <2> QED BY <1>1, <1>5, <1>7, <1>10, <2>1, <2>3, <2>4
\* What is clear stays so.
<1>11. ASSUME NEW k \in Key, asked[k] # Unclear, n.todo \subseteq T
      PROVE  /\ replica[k] # None /\ rows'[k] = asked[k]
             /\ \A d \in Call : k \notin ToWrite(d)'
  <2>1. replica[k] # None /\ (\A d \in Call : k \notin ToWrite(d))
        /\ rows[k] = asked[k]
    BY <1>1, <1>11
  <2>2. k \notin n.todo
    BY <1>11, <2>1
  <2> QED BY <1>6, <2>1, <2>2
<1>12. CASE Loops(c, r, T, n)
  <2> USE DEF Loops
  <2>1. SettingsTypeOK'
    BY <1>1, <1>3, <1>12 DEF SettingsTypeOK
  <2>2. ASSUME NEW d \in Call, Saving(d)', NEW k \in Key \ doubt'[d]
        PROVE  Settled(d, k)' /\ (k \notin call'[d].todo => rows'[k] = call'[d].want[k])
    <3>1. CASE d # c
      BY <1>6, <1>10, <1>12, <2>2, <3>1
    <3>2. CASE d = c
      <4>1. r.saving /\ Saving(c) /\ k \in Key \ doubt[c]
        BY <1>6, <1>12, <2>2, <3>2
      <4>2. Settled(c, k)
        BY <1>1, <4>1
      <4>3. Settled(c, k)'
        BY <1>6, <1>7, <4>2 DEF Settled
      <4> QED BY <1>5, <1>12, <3>2, <4>1, <4>3
    <3> QED BY <3>1, <3>2
  <2>3. \A k \in Key : asked'[k] # Unclear =>
          /\ replica'[k] # None /\ rows'[k] = asked'[k]
          /\ \A d \in Call : k \notin ToWrite(d)'
    BY <1>11, <1>12
  <2> QED BY <1>9, <2>1, <2>2, <2>3 DEF SettingsIInv, SettingsAreOfLastUpdate
<1>13. CASE Turns(c, r, T, n)
  <2> USE DEF Turns
  <2>1. doubt' \in [Call -> SUBSET Key]
    BY <1>1, <1>13 DEF SettingsTypeOK
  <2>2. asked' \in [Key -> Value \union {Unclear}]
    BY <1>13
  <2>3. SettingsTypeOK'
    BY <1>1, <1>3, <2>1, <2>2 DEF SettingsTypeOK
  <2>4. ASSUME NEW d \in Call, Saving(d)', NEW k \in Key \ doubt'[d]
        PROVE  Settled(d, k)' /\ (k \notin call'[d].todo => rows'[k] = call'[d].want[k])
    <3>1. CASE d # c
      <4>1. doubt'[d] = Key
        BY <1>6, <1>13, <2>4, <3>1
      <4> QED BY <2>4, <4>1
    <3>2. CASE d = c
      <4>1. Settled(c, k)
        BY <1>13, <2>4, <3>2
      <4>2. Settled(c, k)'
        BY <1>6, <1>7, <4>1 DEF Settled
      <4> QED BY <1>5, <1>13, <3>2, <4>2
    <3> QED BY <3>1, <3>2
  <2>5. \A k \in Key : asked'[k] = Unclear
    BY <1>13
  <2> QED BY <1>9, <2>3, <2>4, <2>5 DEF SettingsIInv, SettingsAreOfLastUpdate
<1>14. CASE Saved(c, r, T, n)
  <2> USE DEF Saved
  <2>1. r.want \in [Key -> Value]
    BY <1>14 DEF Calling
  <2>2. asked' \in [Key -> Value \union {Unclear}]
    BY <1>14, <2>1
  <2>3. SettingsTypeOK'
    BY <1>1, <1>3, <1>14, <2>2 DEF SettingsTypeOK
  <2>4. ASSUME NEW d \in Call, Saving(d)', NEW k \in Key \ doubt'[d]
        PROVE  Settled(d, k)' /\ (k \notin call'[d].todo => rows'[k] = call'[d].want[k])
    <3>1. d # c
      BY <1>6, <1>14, <2>4
    <3>2. doubt'[d] = doubt[d]
      BY <1>1, <1>14, <3>1 DEF SettingsTypeOK
    <3> QED BY <1>6, <1>10, <1>14, <2>4, <3>1, <3>2
  <2>5. ASSUME NEW k \in Key, asked'[k] # Unclear
        PROVE  /\ replica'[k] # None /\ rows'[k] = asked'[k]
               /\ \A d \in Call : k \notin ToWrite(d)'
    <3>1. k \notin doubt[c] /\ asked'[k] = r.want[k]
      BY <1>14, <2>5
    <3>2. Settled(c, k)
      BY <1>1, <1>14, <3>1
    <3>3. rows'[k] = r.want[k]
      BY <1>14, <3>1
    <3> QED BY <1>6, <1>14, <3>1, <3>2, <3>3 DEF Settled
  <2> QED BY <1>9, <2>3, <2>4, <2>5 DEF SettingsIInv, SettingsAreOfLastUpdate
<1>15. CASE Read(c, r, T, n)
  <2> USE DEF Read
  <2>1. SettingsTypeOK'
    BY <1>1, <1>3, <1>15 DEF SettingsTypeOK
  <2>2. ASSUME NEW d \in Call, Saving(d)', NEW k \in Key \ doubt'[d]
        PROVE  Settled(d, k)' /\ (k \notin call'[d].todo => rows'[k] = call'[d].want[k])
    <3>1. d # c
      BY <1>6, <1>15, <2>2
    <3> QED BY <1>6, <1>10, <1>15, <2>2, <3>1
  <2>3. \A k \in Key : asked'[k] # Unclear =>
          /\ replica'[k] # None /\ rows'[k] = asked'[k]
          /\ \A d \in Call : k \notin ToWrite(d)'
    BY <1>11, <1>15
  <2> QED BY <1>9, <2>1, <2>2, <2>3 DEF SettingsIInv, SettingsAreOfLastUpdate
<1> QED BY <1>4, <1>12, <1>13, <1>14, <1>15

LEMMA SettingsInitIInv == SettingsInit => SettingsIInv
<1> SUFFICES ASSUME SettingsInit PROVE SettingsIInv
  OBVIOUS
<1>1. /\ \A c \in Call : call[c] = NotCalled /\ ~Saving(c) /\ ToWrite(c) = {}
      /\ \A k \in Key : replica[k] = None /\ asked[k] = Unclear
  BY DEF SettingsInit, Saving, ToWrite
<1>2. SettingsTypeOK
  BY DEF SettingsInit, SettingsTypeOK
<1> QED BY <1>1, <1>2 DEF SettingsIInv, SettingsAreOfLastUpdate

LEMMA ReplicateKeepsSettings ==
    ASSUME SettingsIInv, ReplicateSettings
    PROVE  SettingsIInv'
<1>1. replica' = rows /\ UNCHANGED <<rows, call, doubt, asked>>
  BY DEF ReplicateSettings
<1>2. SettingsTypeOK'
  BY <1>1 DEF SettingsIInv, SettingsTypeOK
<1>3. /\ \A c \in Call : ToWrite(c)' = ToWrite(c) /\ (Saving(c)' <=> Saving(c))
      /\ \A k \in Key : replica[k] # None => replica'[k] # None
  BY <1>1 DEF ToWrite, Saving, SettingsIInv
<1>4. \A c \in Call, k \in Key : Settled(c, k) => Settled(c, k)'
  BY <1>3 DEF Settled
<1> QED BY <1>1, <1>2, <1>3, <1>4 DEF SettingsIInv, SettingsAreOfLastUpdate

\* A call arrives (GetSettings, GetDefaults).
LEMMA GetKeepsSettings ==
    ASSUME SettingsIInv, NEW c \in Call,
           NEW w \in [Key -> Value] \union {None},
           GetSettings(c, w) \/ GetDefaults(c, w)
    PROVE  /\ SettingsIInv' /\ replica' = replica
           /\ \A d \in Call : d # c => call'[d] = call[d]
           /\ w = None =>
                /\ call'[c] # NotCalled /\ ~call'[c].saving /\ call'[c].want = None
                /\ call'[c].failed \/ call'[c].totp = ReadTotp(replica)
<1> DEFINE good == Arriving(w, ReadTotp(replica), FALSE)
           bad == Arriving(w, Default[Totp], TRUE)
<1>1. ReadTotp(replica) \in Value /\ Default[Totp] \in Value
  BY SettingsAssumption DEF ReadTotp, SettingsIInv, SettingsTypeOK
<1>2. /\ good \in Calling /\ good.saving = FALSE /\ good.want = w
      /\ good.totp = ReadTotp(replica) /\ good.failed = FALSE
  BY <1>1 DEF Arriving, Calling
<1>3. /\ bad \in Calling /\ bad.saving = FALSE /\ bad.want = w
      /\ bad.failed = TRUE
  BY <1>1 DEF Arriving, Calling
<1>4. PICK r \in Calling, T \in SUBSET Key :
        /\ GoesOn(c, r, T) /\ UNCHANGED <<rows, replica>>
        /\ ~r.saving /\ r.want = w
        /\ r.failed \/ r.totp = ReadTotp(replica)
        /\ \A k \in T : replica[k] = None
  <2>1. CASE GetSettings(c, w)
    <3>1. GoesOn(c, good, DefaultSettingPairs(replica)) /\ UNCHANGED <<rows, replica>>
      BY <2>1 DEF GetSettings
    <3>2. /\ DefaultSettingPairs(replica) \in SUBSET Key
          /\ \A k \in DefaultSettingPairs(replica) : replica[k] = None
      BY DEF DefaultSettingPairs
    <3> HIDE DEF good
    <3> QED BY <1>2, <3>1, <3>2
  <2>2. CASE GetDefaults(c, w)
    <3>1. GoesOn(c, bad, {}) /\ UNCHANGED <<rows, replica>>
      BY <2>2 DEF GetDefaults
    <3> HIDE DEF bad
    <3> QED BY <1>3, <3>1
  <2> QED BY <2>1, <2>2
<1>5. rows' = rows /\ replica' = replica /\ SettingsTypeOK
  BY <1>4 DEF SettingsIInv
<1>6. SettingsIInv'
  <2>1. rows' \in [Key -> Value \union {None}]
    BY <1>5 DEF SettingsTypeOK
  <2> QED BY <1>4, <1>5, <2>1, GoesOnKeepsSettings
<1>7. PICK n \in Calling : GoneOn(c, r, T, n)
  <2>1. r.saving => r.want # None
    BY <1>4
  <2> QED BY <1>4, <1>5, <2>1, GoesOnAs
<1>8. /\ call' = [call EXCEPT ![c] = n]
      /\ n.totp = r.totp /\ n.failed = r.failed
      /\ w = None => ~n.saving /\ n.want = None
  BY <1>4, <1>7 DEF GoneOn, Loops, Turns, Saved, Read
<1>9. call'[c] = n /\ n # NotCalled /\ \A d \in Call : d # c => call'[d] = call[d]
  BY <1>5, <1>8, IsCalling DEF SettingsTypeOK
<1> QED BY <1>4, <1>5, <1>6, <1>8, <1>9

\* What the loop of upsertSettings leaves as it is, and keeps of a reader.
Keeps(c) ==
    /\ replica' = replica
    /\ \A d \in Call : d # c => call'[d] = call[d]
    /\ ~call[c].saving /\ call[c].want = None =>
         /\ call'[c] # NotCalled /\ ~call'[c].saving /\ call'[c].want = None
         /\ call'[c].failed = call[c].failed /\ call'[c].totp = call[c].totp

\* A call goes on as itself.
LEMMA OnKeeps ==
    ASSUME SettingsIInv, NEW c \in Call, call[c] \in Calling,
           NEW T \in SUBSET Key, GoesOn(c, call[c], T), replica' = replica
    PROVE  Keeps(c)
<1>1. SettingsTypeOK /\ (call[c].saving => call[c].want # None)
  BY IsCalling DEF SettingsIInv
<1>2. PICK n \in Calling : GoneOn(c, call[c], T, n)
  BY <1>1, GoesOnAs
<1>3. /\ call' = [call EXCEPT ![c] = n]
      /\ n.totp = call[c].totp /\ n.failed = call[c].failed
      /\ ~call[c].saving /\ call[c].want = None => ~n.saving /\ n.want = None
  BY <1>2 DEF GoneOn, Loops, Turns, Saved, Read
<1>4. call'[c] = n /\ n # NotCalled /\ \A d \in Call : d # c => call'[d] = call[d]
  BY <1>1, <1>3, IsCalling DEF SettingsTypeOK
<1> QED BY <1>3, <1>4 DEF Keeps

LEMMA LookupKeepsSettings ==
    ASSUME SettingsIInv, NEW c \in Call, Lookup(c)
    PROVE  SettingsIInv' /\ Keeps(c)
<1>1. SettingsTypeOK
  BY DEF SettingsIInv
<1>2. call[c] \in Calling /\ call[c].phase = "lookup"
  BY <1>1, CallKinds DEF Lookup, SettingsTypeOK
<1>3. PICK k \in call[c].todo :
        SetCall(c, [call[c] EXCEPT
            !.key = k, !.phase = IF rows[k] = None THEN "insert" ELSE "update"])
  BY DEF Lookup
<1> DEFINE n == [call[c] EXCEPT
            !.key = k, !.phase = IF rows[k] = None THEN "insert" ELSE "update"]
<1>4. k \in Key
  BY <1>2 DEF Calling
<1>5. /\ n \in Calling /\ n.phase \in {"insert", "update"} /\ n.key = k
      /\ n.todo = call[c].todo /\ n.saving = call[c].saving
      /\ n.want = call[c].want /\ n.totp = call[c].totp
      /\ n.failed = call[c].failed
  BY <1>2, <1>4 DEF Calling
<1>6. call' = [call EXCEPT ![c] = n] /\ UNCHANGED <<rows, replica, doubt, asked>>
  BY <1>3 DEF Lookup, SetCall
<1> HIDE DEF n
<1>7. call'[c] = n /\ n # NotCalled /\ call[c] # NotCalled
      /\ \A d \in Call : d # c => call'[d] = call[d]
  BY <1>1, <1>2, <1>5, <1>6, IsCalling DEF SettingsTypeOK
<1>8. SettingsTypeOK'
  BY <1>1, <1>5, <1>6 DEF SettingsTypeOK
<1>9. \A d \in Call : ToWrite(d)' = ToWrite(d) /\ (Saving(d)' <=> Saving(d))
  BY <1>5, <1>7 DEF ToWrite, Saving
<1>10. \A d \in Call, x \in Key : Settled(d, x)' <=> Settled(d, x)
  BY <1>6, <1>9 DEF Settled
<1>11. \A d \in Call : call[d] # NotCalled =>
         call'[d].todo = call[d].todo /\ call'[d].want = call[d].want
  BY <1>5, <1>7
<1>12. \A d \in Call : Saving(d)' => \A x \in Key \ doubt'[d] :
         /\ Settled(d, x)'
         /\ x \notin call'[d].todo => rows'[x] = call'[d].want[x]
  BY <1>6, <1>9, <1>10, <1>11 DEF SettingsIInv, Saving
<1>13. \A d \in Call : call'[d] # NotCalled =>
         /\ call'[d].phase \in {"insert", "update"} => call'[d].key \in call'[d].todo
         /\ call'[d].saving => call'[d].want # None
         /\ call'[d].phase = "done" => call'[d].todo = {}
  BY <1>3, <1>5, <1>7 DEF SettingsIInv
<1>14. SettingsIInv'
  BY <1>6, <1>8, <1>9, <1>12, <1>13 DEF SettingsIInv, SettingsAreOfLastUpdate
<1> QED BY <1>5, <1>6, <1>7, <1>14 DEF Keeps

LEMMA StoreKeepsSettings ==
    ASSUME SettingsIInv, NEW c \in Call, Store(c)
    PROVE  SettingsIInv' /\ Keeps(c)
<1> DEFINE r == call[c]
           k == r.key
           T == r.todo \ {k}
<1>1. SettingsTypeOK
  BY DEF SettingsIInv
<1>2. r \in Calling /\ r.phase \in {"insert", "update"} /\ r # NotCalled
  BY <1>1, CallKinds DEF Store, SettingsTypeOK
<1>3. k \in r.todo /\ k \in Key /\ T \in SUBSET Key
      /\ (r.saving => r.want # None)
  BY <1>2 DEF SettingsIInv, Calling
<1>4. ToWrite(c) = r.todo /\ (r.saving <=> Saving(c))
  BY <1>2 DEF ToWrite, Saving
<1>5. New(c) \in Value /\ (r.saving => New(c) = r.want[k])
  BY <1>2, <1>3, SettingsAssumption DEF New, Calling
<1>6. /\ rows' = [rows EXCEPT ![k] = New(c)] /\ GoesOn(c, r, T)
      /\ replica' = replica
  BY DEF Store
<1>7. New(c) # None
  BY <1>5, SettingsAssumption
<1> HIDE DEF r, k, T
<1>8. rows'[k] = New(c) /\ \A x \in Key : x # k => rows'[x] = rows[x]
  BY <1>1, <1>3, <1>6 DEF SettingsTypeOK
<1>9. rows' \in [Key -> Value \union {None}]
  BY <1>1, <1>3, <1>5, <1>6 DEF SettingsTypeOK
<1>10. T \subseteq r.todo /\ \A x \in Key : x \notin T => x = k \/ x \notin r.todo
  BY DEF T
<1>11. ASSUME r.saving, NEW x \in Key \ doubt[c], x \notin T
       PROVE  rows'[x] = r.want[x]
  <2>1. CASE x = k
    BY <1>5, <1>8, <1>11, <2>1
  <2>2. CASE x # k
    <3>1. x \notin call[c].todo => rows[x] = call[c].want[x]
      BY <1>4, <1>11 DEF SettingsIInv
    <3> QED BY <1>8, <1>10, <1>11, <2>2, <3>1 DEF r
  <2> QED BY <2>1, <2>2
<1>12. /\ \A x \in Key : rows[x] # None => rows'[x] # None
       /\ \A x \in Key : rows'[x] # rows[x] => x \in ToWrite(c)
       /\ \A x \in T : x \in ToWrite(c) \/ replica[x] = None
  BY <1>3, <1>4, <1>7, <1>8, <1>10
<1>13. r.saving => /\ r.want # None /\ Saving(c)
                   /\ \A x \in Key \ doubt[c] : x \notin T => rows'[x] = r.want[x]
  BY <1>3, <1>4, <1>11
<1>14. SettingsIInv'
  BY <1>2, <1>3, <1>6, <1>9, <1>12, <1>13, GoesOnKeepsSettings
<1>15. call[c] \in Calling /\ GoesOn(c, call[c], T)
  BY <1>2, <1>6 DEF r
<1> QED BY <1>3, <1>6, <1>14, <1>15, OnKeeps

LEMMA FailKeepsSettings ==
    ASSUME SettingsIInv, NEW c \in Call, StatementFails(c)
    PROVE  SettingsIInv' /\ Keeps(c)
<1>1. SettingsTypeOK
  BY DEF SettingsIInv
<1>2. call[c] \in Calling /\ call[c] # NotCalled
  BY <1>1, CallKinds DEF StatementFails, SettingsTypeOK
<1>3. rows' = rows /\ replica' = replica
      /\ rows' \in [Key -> Value \union {None}]
  BY <1>1 DEF StatementFails, BreaksOff, SettingsTypeOK
<1>4. CASE ~call[c].saving
  <2>1. GoesOn(c, call[c], {})
    BY <1>4 DEF StatementFails, BreaksOff
  <2>2. SettingsIInv'
    BY <1>2, <1>3, <1>4, <2>1, GoesOnKeepsSettings
  <2> QED BY <1>2, <1>3, <2>1, <2>2, OnKeeps
<1>5. CASE call[c].saving
  <2>1. /\ call' = [call EXCEPT ![c] = NotCalled]
        /\ doubt' = [doubt EXCEPT ![c] = {}] /\ asked' = asked
    BY <1>5 DEF StatementFails, BreaksOff, SetCall
  <2>2. /\ call'[c] = NotCalled /\ \A d \in Call : d # c =>
             call'[d] = call[d] /\ doubt'[d] = doubt[d]
    BY <1>1, <2>1 DEF SettingsTypeOK
  <2>3. SettingsTypeOK'
    BY <1>1, <1>3, <2>1 DEF SettingsTypeOK
  <2>4. /\ ~Saving(c)' /\ ToWrite(c)' = {}
        /\ \A d \in Call : d # c => ToWrite(d)' = ToWrite(d)
                                    /\ (Saving(d)' <=> Saving(d))
    BY <2>2 DEF Saving, ToWrite
  <2>5. \A d \in Call, k \in Key : Settled(d, k) => Settled(d, k)'
    BY <1>3, <2>4 DEF Settled
  <2>6. \A d \in Call : Saving(d)' => \A k \in Key \ doubt'[d] :
          /\ Settled(d, k)'
          /\ k \notin call'[d].todo => rows'[k] = call'[d].want[k]
    BY <1>3, <2>2, <2>4, <2>5 DEF SettingsIInv
  <2>7. SettingsIInv'
    BY <1>3, <2>1, <2>2, <2>3, <2>4, <2>6 DEF SettingsIInv, SettingsAreOfLastUpdate
  <2> QED BY <1>3, <1>5, <2>2, <2>7 DEF Keeps
<1> QED BY <1>4, <1>5

\* A call returns: it had nothing left to write.
LEMMA ReturnKeepsSettings ==
    ASSUME SettingsIInv, NEW c \in Call, Return(c)
    PROVE  SettingsIInv'
<1>1. SettingsTypeOK
  BY DEF SettingsIInv
<1>2. call[c] \in Calling /\ call[c] # NotCalled
  BY <1>1, CallKinds DEF Return, SettingsTypeOK
<1>3. /\ call' = [call EXCEPT ![c] = NotCalled]
      /\ UNCHANGED <<rows, replica, doubt, asked>>
  BY DEF Return, SetCall
<1>4. call'[c] = NotCalled /\ \A d \in Call : d # c => call'[d] = call[d]
  BY <1>1, <1>3 DEF SettingsTypeOK
<1>5. SettingsTypeOK'
  BY <1>1, <1>3 DEF SettingsTypeOK
<1>6. /\ ~Saving(c)' /\ ToWrite(c)' = {}
      /\ \A d \in Call : d # c => ToWrite(d)' = ToWrite(d)
                                  /\ (Saving(d)' <=> Saving(d))
  BY <1>4 DEF Saving, ToWrite
<1>7. \A d \in Call, k \in Key : Settled(d, k) => Settled(d, k)'
  BY <1>3, <1>6 DEF Settled
<1>8. \A d \in Call : Saving(d)' => \A k \in Key \ doubt'[d] :
        /\ Settled(d, k)'
        /\ k \notin call'[d].todo => rows'[k] = call'[d].want[k]
  BY <1>3, <1>4, <1>6, <1>7 DEF SettingsIInv
<1> QED BY <1>3, <1>4, <1>5, <1>6, <1>8 DEF SettingsIInv, SettingsAreOfLastUpdate

-----------------------------------------------------------------------------
(***************************************************************************)
(* Two-factor authentication                                               *)
(***************************************************************************)
LEMMA RequestKinds ==
    ASSUME NEW r \in Writing \union Login \union {Idle}
    PROVE  /\ IsLogin(r) <=> r \in Login
           /\ r.phase \in {"enable", "disable"} <=> r \in Writing
           /\ r = Idle <=> r.phase = "idle"
<1>1. /\ \A x \in Login :
           x.phase \in {"read", "settings", "code", "in", "refused"}
      /\ \A x \in Writing : x.phase \in {"enable", "disable"}
      /\ Idle.phase = "idle"
  BY DEF Login, Writing, Idle
<1> QED BY <1>1 DEF IsLogin

\* What the invariant says of one request.
Fits(c) ==
    /\ request[c] \in Writing \union Login \union {Idle}
    /\ IsLogin(request[c]) => LoginKnows(c)
    /\ request[c].phase = "enable" => request[c].secret # None
    /\ request[c].phase \in {"enable", "disable"} => call[c] = NotCalled
    /\ request[c].phase = "refused" /\ request[c].same => shown.crossed

\* And of the rows of the user.
UserFits ==
    /\ user \in User /\ shown \in User
    /\ issued \in SUBSET Secret /\ confirmed \in SUBSET Secret
    /\ starts \in 0..MaxStarts
    /\ EnabledIsConfirmed
    /\ HasSecret(shown)

LEMMA Parts ==
    IInv <=> /\ SettingsIInv /\ UserFits
             /\ request \in [Call -> Writing \union Login \union {Idle}]
             /\ \A c \in Call : Fits(c)
<1>1. (\A c \in Call : Fits(c)) => NoCodeExplained
  BY DEF Fits, LoginKnows, NoCodeExplained, HasToken
<1> QED BY <1>1 DEF IInv, TypeOK, UserFits, Fits, SettingsIInv, RefusedIfChanged

LEMMA PartsNext ==
    ASSUME SettingsIInv', UserFits',
           request' \in [Call -> Writing \union Login \union {Idle}],
           \A c \in Call : Fits(c)'
    PROVE  IInv'
<1>1. NoCodeExplained'
  BY DEF Fits, LoginKnows, NoCodeExplained, HasToken
<1> QED BY <1>1 DEF IInv, TypeOK, UserFits, Fits, SettingsIInv, RefusedIfChanged

LEMMA InitIInv == Init => IInv
<1> SUFFICES ASSUME Init PROVE IInv
  OBVIOUS
<1>1. SettingsIInv
  BY SettingsInitIInv DEF Init
<1>2. NoTwoFactor \in User /\ ~NoTwoFactor.enabled
  BY DEF NoTwoFactor, User
<1>3. UserFits
  BY <1>2, TwoFactorAssumption DEF Init, UserFits, EnabledIsConfirmed, HasSecret
<1>4. request \in [Call -> Writing \union Login \union {Idle}]
      /\ \A c \in Call : request[c] = Idle
  BY DEF Init
<1>5. Idle.phase = "idle"
  BY DEF Idle
<1>6. \A c \in Call : Fits(c)
  BY <1>4, <1>5 DEF Fits, IsLogin
<1> QED BY <1>1, <1>3, <1>4, <1>6, Parts

\* A request of which nothing changes that it knows of.
LEMMA OtherFits ==
    ASSUME NEW c \in Call, Fits(c), request'[c] = request[c],
           call'[c] = call[c], replica' = replica, shown' = shown
    PROVE  Fits(c)'
BY DEF Fits, LoginKnows, IsOn, IsLogin, HasToken

\* A step of one request.
LEMMA StepKeepsIInv ==
    ASSUME IInv, NEW c \in Call, NEW r \in Writing \union Login \union {Idle},
           request' = [request EXCEPT ![c] = r],
           SettingsIInv', UserFits', replica' = replica, shown' = shown,
           \A d \in Call : d # c => call'[d] = call[d],
           IsLogin(r) => LoginKnows(c)',
           r.phase = "enable" => r.secret # None,
           r.phase \in {"enable", "disable"} => call'[c] = NotCalled,
           r.phase = "refused" /\ r.same => shown.crossed
    PROVE  IInv'
<1>1. request \in [Call -> Writing \union Login \union {Idle}]
      /\ \A d \in Call : Fits(d)
  BY Parts
<1>2. /\ request'[c] = r /\ \A d \in Call : d # c => request'[d] = request[d]
      /\ request' \in [Call -> Writing \union Login \union {Idle}]
  BY <1>1
<1>3. Fits(c)'
  BY <1>2 DEF Fits, IsLogin
<1>4. \A d \in Call : d # c => Fits(d)'
  BY <1>1, <1>2, OtherFits
<1>5. \A d \in Call : Fits(d)'
  BY <1>3, <1>4
<1> QED BY <1>2, <1>5, PartsNext

\* It leaves the settings and the rows of the user alone.
LEMMA QuietStepKeepsIInv ==
    ASSUME IInv, NEW c \in Call, NEW r \in Writing \union Login \union {Idle},
           request' = [request EXCEPT ![c] = r],
           UNCHANGED settingsVars, UNCHANGED <<user, shown, issued, confirmed>>,
           starts' \in 0..MaxStarts,
           IsLogin(r) => LoginKnows(c)',
           r.phase = "enable" => r.secret # None,
           r.phase \in {"enable", "disable"} => call'[c] = NotCalled,
           r.phase = "refused" /\ r.same => shown.crossed
    PROVE  IInv'
<1>1. UNCHANGED <<rows, replica, call, doubt, asked>>
  BY DEF settingsVars
<1>2. SettingsIInv /\ UserFits
  BY Parts
<1>3. SettingsIInv'
  BY <1>1, <1>2 DEF SettingsIInv, SettingsTypeOK, SettingsAreOfLastUpdate,
                   Saving, Settled, ToWrite
<1>4. UserFits'
  BY <1>2 DEF UserFits, EnabledIsConfirmed, HasSecret
<1> QED BY <1>1, <1>3, <1>4, StepKeepsIInv

LEMMA Started ==
    ASSUME IInv, Starts
    PROVE  starts' \in 0..MaxStarts
BY TwoFactorAssumption DEF IInv, TypeOK, Starts

LEMMA ReplicateKeepsIInv ==
    ASSUME IInv, Replicate
    PROVE  IInv'
<1>1. /\ replica' = rows /\ UNCHANGED <<rows, call, doubt, asked>>
      /\ shown' = user /\ UNCHANGED <<user, issued, confirmed, starts>>
      /\ request' = [c \in Call |->
           IF ~IsLogin(request[c]) THEN request[c]
           ELSE [request[c] EXCEPT !.on = @ /\ IsOn(user, rows),
                                   !.same = @ /\ user = shown]]
  BY DEF Replicate, ReplicateSettings
<1>2. SettingsIInv'
  BY ReplicateKeepsSettings DEF Replicate, IInv
<1>3. UserFits
  BY Parts
<1>4. HasSecret(user)
  BY <1>3, TwoFactorAssumption DEF UserFits, EnabledIsConfirmed, HasSecret
<1>5. UserFits'
  BY <1>1, <1>3, <1>4 DEF UserFits, EnabledIsConfirmed, HasSecret
<1>6. ASSUME NEW c \in Call
      PROVE  request'[c] \in Writing \union Login \union {Idle} /\ Fits(c)'
  <2> DEFINE r == request[c]
             on == r.on /\ IsOn(user, rows)
             same == r.same /\ user = shown
  <2>1. Fits(c) /\ r \in Writing \union Login \union {Idle}
    BY Parts DEF Fits
  <2>2. CASE ~IsLogin(r)
    <3>1. request'[c] = r /\ call'[c] = call[c]
      BY <1>1, <2>2
    <3>2. r.phase # "refused"
      BY <2>2 DEF IsLogin
    <3> QED BY <2>1, <2>2, <3>1, <3>2 DEF Fits, IsLogin
  <2>3. CASE IsLogin(r)
    <3>1. r \in Login
      BY <2>1, <2>3, RequestKinds
    <3>2. on \in BOOLEAN /\ same \in BOOLEAN
      OBVIOUS
    <3>3. request'[c] = [r EXCEPT !.on = on, !.same = same]
      BY <1>1, <2>3
    <3> HIDE DEF on, same
    <3>4. /\ request'[c] \in Login /\ request'[c].phase = r.phase
          /\ request'[c].enabled = r.enabled /\ request'[c].failed = r.failed
          /\ request'[c].on = on /\ request'[c].same = same
          /\ request'[c].served = r.served
      BY <3>1, <3>2, <3>3 DEF Login
    <3>5. /\ on => r.on /\ IsOn(shown, replica)'
          /\ same => r.same /\ shown' = shown
      BY <1>1 DEF on, same
    <3>6. LoginKnows(c) /\ call'[c] = call[c]
      BY <1>1, <2>1, <2>3 DEF Fits
    <3>7. LoginKnows(c)'
      BY <3>4, <3>5, <3>6 DEF LoginKnows, HasToken
    <3>8. request'[c].phase \notin {"enable", "disable"}
      BY <2>3, <3>4 DEF IsLogin
    <3> QED BY <2>1, <3>4, <3>5, <3>7, <3>8 DEF Fits
  <2> QED BY <2>2, <2>3
<1>7. request' \in [Call -> Writing \union Login \union {Idle}]
  BY <1>1, <1>6
<1>8. \A c \in Call : Fits(c)'
  BY <1>6
<1> QED BY <1>2, <1>5, <1>7, <1>8, PartsNext

-----------------------------------------------------------------------------
(***************************************************************************)
(* Each action preserves the invariant.                                    *)
(***************************************************************************)
LEMMA RequestIs ==
    ASSUME IInv, NEW c \in Call
    PROVE  /\ request[c] \in Writing \union Login \union {Idle}
           /\ request = [request EXCEPT ![c] = request[c]]
           /\ Fits(c)
BY Parts

LEMMA IdleFits ==
    /\ Idle \in Writing \union Login \union {Idle}
    /\ Idle.phase = "idle" /\ ~IsLogin(Idle)
BY DEF Idle, IsLogin

\* The settings change, and no request does.
LEMMA SettingsStepKeepsIInv ==
    ASSUME IInv, NEW c \in Call, SettingsIInv', UserFits', replica' = replica,
           shown' = shown, request' = request,
           \A d \in Call : d # c => call'[d] = call[d],
           request[c] = Idle \/ LoginKnows(c)'
    PROVE  IInv'
<1>1. request \in [Call -> Writing \union Login \union {Idle}]
      /\ \A d \in Call : Fits(d)
  BY Parts
<1>2. request[c] = Idle => Fits(c)'
  BY IdleFits DEF Fits, IsLogin
<1>3. ASSUME request[c] # Idle PROVE Fits(c)'
  <2>1. LoginKnows(c)' /\ Fits(c)
    BY <1>1, <1>3
  <2>2. CASE IsLogin(request[c])
    <3>1. request[c].phase \notin {"enable", "disable"}
      BY <2>2 DEF IsLogin
    <3> QED BY <2>1, <2>2, <3>1 DEF Fits, IsLogin
  <2>3. CASE ~IsLogin(request[c])
    <3>1. request[c].phase # "settings"
      BY <2>3 DEF IsLogin
    <3>2. call'[c] = NotCalled
      BY <2>1, <3>1 DEF LoginKnows
    <3>3. request[c].phase # "refused"
      BY <2>3 DEF IsLogin
    <3> QED BY <2>1, <2>3, <3>2, <3>3 DEF Fits, IsLogin
  <2> QED BY <2>2, <2>3
<1>4. \A d \in Call : d # c => Fits(d)'
  BY <1>1, OtherFits
<1>5. \A d \in Call : Fits(d)'
  BY <1>2, <1>3, <1>4
<1>6. request' \in [Call -> Writing \union Login \union {Idle}]
  BY <1>1
<1> QED BY <1>5, <1>6, PartsNext

LEMMA UserFitsStays ==
    ASSUME IInv, UNCHANGED <<user, shown, issued, confirmed>>,
           starts' \in 0..MaxStarts
    PROVE  UserFits'
BY Parts DEF UserFits, EnabledIsConfirmed, HasSecret

LEMMA HandleSettingsKeepsIInv ==
    ASSUME IInv, NEW c \in Call, HandleSettings(c)
    PROVE  IInv'
<1>1. PICK w \in [Key -> Value] \union {None} : GetSettings(c, w) \/ GetDefaults(c, w)
  BY TwoFactorAssumption DEF HandleSettings
<1>2. SettingsIInv' /\ replica' = replica
      /\ \A d \in Call : d # c => call'[d] = call[d]
  BY <1>1, GetKeepsSettings DEF IInv
<1>3. request[c] = Idle /\ UNCHANGED <<user, shown, issued, request, confirmed>>
      /\ starts' \in 0..MaxStarts
  BY Started DEF HandleSettings
<1>4. UserFits'
  BY <1>3, UserFitsStays
<1> QED BY <1>2, <1>3, <1>4, SettingsStepKeepsIInv

LEMMA ReplySettingsKeepsIInv ==
    ASSUME IInv, NEW c \in Call, ReplySettings(c)
    PROVE  IInv'
<1>1. Return(c) /\ request[c] = Idle
      /\ UNCHANGED <<user, shown, issued, request, confirmed, starts>>
  BY DEF ReplySettings, userVars
<1>2. SettingsIInv'
  BY <1>1, ReturnKeepsSettings DEF IInv
<1>3. replica' = replica /\ \A d \in Call : d # c => call'[d] = call[d]
  BY <1>1 DEF Return, SetCall, IInv, TypeOK, SettingsTypeOK
<1>4. starts' \in 0..MaxStarts
  BY <1>1 DEF IInv, TypeOK
<1>5. UserFits'
  BY <1>1, <1>4, UserFitsStays
<1> QED BY <1>1, <1>2, <1>3, <1>5, SettingsStepKeepsIInv

\* The loop runs for a handler or a login.
LEMMA UpsertSettingsKeepsIInv ==
    ASSUME IInv, NEW c \in Call, UpsertSettings(c)
    PROVE  IInv'
<1>1. UNCHANGED <<user, shown, issued, request, confirmed, starts>>
      /\ (Lookup(c) \/ Store(c) \/ StatementFails(c))
  BY DEF UpsertSettings, Upsert, userVars
<1>2. SettingsIInv' /\ Keeps(c)
  BY <1>1, LookupKeepsSettings, StoreKeepsSettings, FailKeepsSettings DEF IInv
<1>3. replica' = replica /\ \A d \in Call : d # c => call'[d] = call[d]
  BY <1>2 DEF Keeps
<1>4. UserFits'
  <2>1. starts' \in 0..MaxStarts
    BY <1>1 DEF IInv, TypeOK
  <2> QED BY <1>1, <2>1, UserFitsStays
<1>5. call[c] # NotCalled
  <2>1. NotCalled.phase = "none"
    BY DEF NotCalled
  <2> QED BY <1>1, <2>1 DEF Lookup, Store, StatementFails
<1>6. request[c] = Idle \/ LoginKnows(c)'
  <2>1. Fits(c) /\ request[c] \in Writing \union Login \union {Idle}
    BY RequestIs
  <2>2. CASE request[c] \in Login
    <3>1. LoginKnows(c)
      BY <2>1, <2>2, RequestKinds DEF Fits
    <3>2. request[c].phase = "settings" /\ ~call[c].saving /\ call[c].want = None
      BY <1>5, <3>1 DEF LoginKnows
    <3>3. /\ call'[c] # NotCalled /\ ~call'[c].saving /\ call'[c].want = None
          /\ call'[c].failed = call[c].failed /\ call'[c].totp = call[c].totp
      BY <1>2, <3>2 DEF Keeps
    <3> QED BY <1>1, <1>3, <3>1, <3>2, <3>3 DEF LoginKnows, IsOn, HasToken
  <2>3. CASE request[c] \in Writing
    BY <1>5, <2>1, <2>3, RequestKinds DEF Fits
  <2> QED BY <2>1, <2>2, <2>3
<1> QED BY <1>1, <1>2, <1>3, <1>4, <1>6, SettingsStepKeepsIInv

LEMMA SetupKeepsIInv ==
    ASSUME IInv, Setup2FA
    PROVE  IInv'
<1>1. PICK s \in Secret \ issued :
        user' = WithSecret(user, s) /\ issued' = issued \union {s}
  BY DEF Setup2FA
<1>2. UNCHANGED <<shown, request, confirmed>> /\ UNCHANGED settingsVars
  BY DEF Setup2FA
<1>3. UNCHANGED <<rows, replica, call, doubt, asked>>
  BY <1>2 DEF settingsVars
<1>4. UserFits /\ SettingsIInv
      /\ request \in [Call -> Writing \union Login \union {Idle}]
      /\ \A c \in Call : Fits(c)
  BY Parts
<1>5. user' \in User /\ ~user'.enabled
  BY <1>1 DEF WithSecret, User
<1>6. starts' \in 0..MaxStarts
  BY Started DEF Setup2FA
<1>7. UserFits'
  BY <1>1, <1>2, <1>4, <1>5, <1>6 DEF UserFits, EnabledIsConfirmed, HasSecret
<1>8. SettingsIInv'
  BY <1>3, <1>4 DEF SettingsIInv, SettingsTypeOK, SettingsAreOfLastUpdate,
                    Saving, Settled, ToWrite
<1>9. \A c \in Call : Fits(c)'
  BY <1>2, <1>3, <1>4, OtherFits
<1>10. request' \in [Call -> Writing \union Login \union {Idle}]
  BY <1>2, <1>4
<1> QED BY <1>7, <1>8, <1>9, <1>10, PartsNext

LEMMA EnableKeepsIInv ==
    ASSUME IInv, NEW c \in Call, Enable2FA(c)
    PROVE  IInv'
<1> DEFINE r == [phase |-> "enable", secret |-> shown.secret]
<1>1. shown.secret \in Secret /\ shown.secret # None
  BY DEF Enable2FA, IInv, TypeOK, User
<1>2. r \in Writing /\ r.phase = "enable" /\ r.secret # None
  BY <1>1 DEF Writing
<1>3. /\ request' = [request EXCEPT ![c] = r] /\ UNCHANGED settingsVars
      /\ UNCHANGED <<user, shown, issued, confirmed>>
      /\ starts' \in 0..MaxStarts /\ call[c] = NotCalled
  BY Started DEF Enable2FA, Goto, Free
<1>4. call'[c] = NotCalled
  BY <1>3 DEF settingsVars
<1>5. ~IsLogin(r)
  BY <1>2 DEF IsLogin
<1> HIDE DEF r
<1> QED BY <1>2, <1>3, <1>4, <1>5, QuietStepKeepsIInv

LEMMA DisableKeepsIInv ==
    ASSUME IInv, NEW c \in Call, Disable2FA(c)
    PROVE  IInv'
<1> DEFINE r == [phase |-> "disable", secret |-> None]
<1>1. r \in Writing /\ r.phase = "disable"
  BY DEF Writing
<1>2. /\ request' = [request EXCEPT ![c] = r] /\ UNCHANGED settingsVars
      /\ UNCHANGED <<user, shown, issued, confirmed>>
      /\ starts' \in 0..MaxStarts /\ call[c] = NotCalled
  BY Started DEF Disable2FA, Goto, Free
<1>3. call'[c] = NotCalled
  BY <1>2 DEF settingsVars
<1>4. ~IsLogin(r)
  BY <1>1 DEF IsLogin
<1> HIDE DEF r
<1> QED BY <1>1, <1>2, <1>3, <1>4, QuietStepKeepsIInv

\* The request ends, after it has written the user's row or nothing.
LEMMA EndKeepsIInv ==
    ASSUME IInv, NEW c \in Call, request' = [request EXCEPT ![c] = Idle],
           UNCHANGED settingsVars, shown' = shown, UserFits'
    PROVE  IInv'
<1>1. UNCHANGED <<rows, replica, call, doubt, asked>>
  BY DEF settingsVars
<1>2. SettingsIInv'
  BY <1>1 DEF IInv, SettingsIInv, SettingsTypeOK, SettingsAreOfLastUpdate,
              Saving, Settled, ToWrite
<1> QED BY <1>1, <1>2, IdleFits, StepKeepsIInv

LEMMA EnableTOTPKeepsIInv ==
    ASSUME IInv, NEW c \in Call, EnableTOTP(c)
    PROVE  IInv'
<1> DEFINE s == request[c].secret
           crossed == user.secret # s
           u == [user EXCEPT !.enabled = TRUE, !.crossed = crossed]
<1>1. request[c] \in Writing /\ s # None
  BY RequestIs, RequestKinds DEF EnableTOTP, Fits
<1>2. s \in Secret
  BY <1>1 DEF Writing
<1>3. crossed \in BOOLEAN
  OBVIOUS
<1>4. /\ user' = u /\ confirmed' = confirmed \union {s}
      /\ request' = [request EXCEPT ![c] = Idle] /\ UNCHANGED settingsVars
      /\ UNCHANGED <<shown, issued, starts>>
  BY DEF EnableTOTP, Goto
<1>5. ~crossed => user.secret = s
  OBVIOUS
<1> HIDE DEF s, crossed
<1>6. UserFits
  BY Parts
<1>7. user' \in User /\ user'.secret = user.secret /\ user'.crossed = crossed
  BY <1>3, <1>4, <1>6 DEF UserFits, User
<1>8. UserFits'
  BY <1>2, <1>4, <1>5, <1>6, <1>7 DEF UserFits, EnabledIsConfirmed, HasSecret
<1> QED BY <1>4, <1>8, EndKeepsIInv

LEMMA DisableTOTPKeepsIInv ==
    ASSUME IInv, NEW c \in Call, DisableTOTP(c)
    PROVE  IInv'
<1>1. /\ user' = NoTwoFactor /\ UNCHANGED <<shown, issued, confirmed, starts>>
      /\ request' = [request EXCEPT ![c] = Idle] /\ UNCHANGED settingsVars
  BY DEF DisableTOTP, Goto, Without
<1>2. NoTwoFactor \in User /\ ~NoTwoFactor.enabled
  BY DEF NoTwoFactor, User
<1>3. UserFits'
  BY <1>1, <1>2, Parts DEF UserFits, EnabledIsConfirmed, HasSecret
<1> QED BY <1>1, <1>3, EndKeepsIInv

LEMMA EndsKeepsIInv ==
    ASSUME IInv, NEW c \in Call, Ends(c)
    PROVE  IInv'
<1>1. /\ UNCHANGED <<user, shown, issued, confirmed, starts>>
      /\ request' = [request EXCEPT ![c] = Idle] /\ UNCHANGED settingsVars
  BY DEF Ends, Goto
<1>2. UserFits'
  BY <1>1, Parts DEF UserFits, EnabledIsConfirmed, HasSecret
<1> QED BY <1>1, <1>2, EndKeepsIInv

LEMMA ArriveKeepsIInv ==
    ASSUME IInv, NEW c \in Call, LoginArrives(c)
    PROVE  IInv'
<1> DEFINE on == IsOn(shown, replica)
           r == [phase |-> "read", enabled |-> shown.enabled,
                 failed |-> FALSE, on |-> on, same |-> TRUE, served |-> FALSE]
<1>1. on \in BOOLEAN /\ (on => shown.enabled)
  BY DEF IsOn
<1>2. shown.enabled \in BOOLEAN
  BY DEF IInv, TypeOK, User
<1>3. /\ request' = [request EXCEPT ![c] = r] /\ UNCHANGED settingsVars
      /\ UNCHANGED <<user, shown, issued, confirmed>>
      /\ starts' \in 0..MaxStarts /\ call[c] = NotCalled
  BY Started DEF LoginArrives, Goto, Free
<1>4. call' = call /\ replica' = replica
  BY <1>3 DEF settingsVars
<1>5. on => IsOn(shown, replica)
  OBVIOUS
<1> HIDE DEF on
<1>6. /\ r \in Login /\ r.phase = "read" /\ r.enabled = shown.enabled
      /\ r.on = on /\ ~r.served
  BY <1>1, <1>2 DEF Login
<1> HIDE DEF r
<1>7. request'[c] = r
  BY <1>3 DEF IInv, TypeOK
<1>8. LoginKnows(c)'
  BY <1>1, <1>3, <1>4, <1>5, <1>6, <1>7 DEF LoginKnows, IsOn, HasToken
<1> QED BY <1>3, <1>6, <1>8, QuietStepKeepsIInv

LEMMA LoginSettingsKeepsIInv ==
    ASSUME IInv, NEW c \in Call, LoginSettings(c)
    PROVE  IInv'
<1> DEFINE r == [request[c] EXCEPT !.phase = "settings"]
<1>1. request[c] \in Login /\ request[c].phase = "read" /\ LoginKnows(c)
  BY RequestIs, RequestKinds DEF LoginSettings, Fits, IsLogin
<1>2. GetSettings(c, None) \/ GetDefaults(c, None)
  BY DEF LoginSettings
<1>3. /\ SettingsIInv' /\ replica' = replica
      /\ \A d \in Call : d # c => call'[d] = call[d]
      /\ call'[c] # NotCalled /\ ~call'[c].saving /\ call'[c].want = None
      /\ call'[c].failed \/ call'[c].totp = ReadTotp(replica)
  BY <1>2, GetKeepsSettings DEF IInv
<1>4. /\ request' = [request EXCEPT ![c] = r]
      /\ UNCHANGED <<user, shown, issued, confirmed, starts>>
  BY DEF LoginSettings, Goto
<1>5. /\ r \in Login /\ r.phase = "settings" /\ r.enabled = request[c].enabled
      /\ r.on = request[c].on /\ r.same = request[c].same
      /\ r.served = request[c].served
  BY <1>1 DEF Login
<1> HIDE DEF r
<1>6. request'[c] = r
  BY <1>4 DEF IInv, TypeOK
<1>7. r.on => call'[c].failed \/ call'[c].totp = On
  <2>1. On # None
    BY TwoFactorAssumption, SettingsAssumption
  <2>2. r.on => replica[Totp] = On
    BY <1>1, <1>5 DEF LoginKnows, IsOn
  <2> QED BY <1>3, <2>1, <2>2 DEF ReadTotp
<1>8. LoginKnows(c)'
  BY <1>1, <1>3, <1>4, <1>5, <1>6, <1>7 DEF LoginKnows, IsOn, HasToken
<1>9. UserFits'
  BY <1>4, Parts DEF UserFits, EnabledIsConfirmed, HasSecret
<1> QED BY <1>3, <1>4, <1>5, <1>8, <1>9, StepKeepsIInv

LEMMA LoginDecidesKeepsIInv ==
    ASSUME IInv, NEW c \in Call, LoginDecides(c)
    PROVE  IInv'
<1> DEFINE ph == IF call[c].totp = On /\ request[c].enabled THEN "code" ELSE "in"
           r == [request[c] EXCEPT !.phase = ph, !.failed = call[c].failed]
<1>1. request[c] \in Login /\ request[c].phase = "settings" /\ LoginKnows(c)
  BY RequestIs, RequestKinds DEF LoginDecides, Fits, IsLogin
<1>2. call[c] \in Calling /\ call[c].failed \in BOOLEAN
  <2>1. call[c] \in Calling
    BY <1>1 DEF LoginKnows, IInv, TypeOK, SettingsTypeOK
  <2> QED BY <2>1 DEF Calling
<1>3. SettingsIInv'
  BY ReturnKeepsSettings DEF IInv, LoginDecides
<1>4. /\ request' = [request EXCEPT ![c] = r]
      /\ UNCHANGED <<user, shown, issued, confirmed, starts>>
      /\ call' = [call EXCEPT ![c] = NotCalled] /\ replica' = replica
  BY DEF LoginDecides, Goto, Return, SetCall
<1>5. call'[c] = NotCalled /\ \A d \in Call : d # c => call'[d] = call[d]
  BY <1>4 DEF IInv, TypeOK, SettingsTypeOK
<1>6. ph \in {"code", "in"}
      /\ (ph = "code" <=> call[c].totp = On /\ request[c].enabled)
  OBVIOUS
<1> HIDE DEF ph
<1>7. /\ r \in Login /\ r.phase = ph /\ r.enabled = request[c].enabled
      /\ r.on = request[c].on /\ r.same = request[c].same
      /\ r.failed = call[c].failed /\ r.served = request[c].served
  BY <1>1, <1>2, <1>6 DEF Login
<1> HIDE DEF r
<1>8. request'[c] = r
  BY <1>4 DEF IInv, TypeOK
<1>9. ~request[c].served
  BY <1>1 DEF LoginKnows, HasToken
<1>10. LoginKnows(c)'
  BY <1>1, <1>4, <1>5, <1>6, <1>7, <1>8, <1>9 DEF LoginKnows, IsOn
<1>11. UserFits'
  BY <1>4, Parts DEF UserFits, EnabledIsConfirmed, HasSecret
<1> QED BY <1>3, <1>4, <1>5, <1>6, <1>7, <1>10, <1>11, StepKeepsIInv

LEMMA LetThroughKeepsIInv ==
    ASSUME IInv, NEW c \in Call, LetThrough(c)
    PROVE  IInv'
<1> DEFINE r == [request[c] EXCEPT !.served = TRUE]
<1>1. request[c] \in Login /\ HasToken(request[c])
  BY RequestIs, RequestKinds DEF LetThrough, HasToken, IsLogin
<1>2. LoginKnows(c) /\ Fits(c)
  BY <1>1, RequestIs, RequestKinds DEF Fits
<1>3. /\ request' = [request EXCEPT ![c] = r]
      /\ UNCHANGED settingsVars /\ UNCHANGED <<user, shown, issued, confirmed, starts>>
  BY DEF LetThrough, Goto
<1>4. /\ r \in Login /\ r.phase = request[c].phase
      /\ r.enabled = request[c].enabled /\ r.failed = request[c].failed
      /\ r.on = request[c].on /\ r.same = request[c].same
  BY <1>1 DEF Login
<1> HIDE DEF r
<1>5. request'[c] = r
  BY <1>3 DEF IInv, TypeOK
<1>6. call' = call /\ replica' = replica
  BY <1>3 DEF settingsVars
<1>7. LoginKnows(c)'
  BY <1>1, <1>2, <1>3, <1>4, <1>5, <1>6 DEF LoginKnows, IsOn, HasToken
<1>8. r.phase \notin {"enable", "disable"}
  BY <1>1, <1>4 DEF HasToken
<1>9. r.phase = "refused" /\ r.same => shown.crossed
  BY <1>2, <1>4 DEF Fits
<1>10. starts' \in 0..MaxStarts
  BY <1>3 DEF IInv, TypeOK
<1> QED BY <1>3, <1>4, <1>7, <1>8, <1>9, <1>10, QuietStepKeepsIInv

LEMMA VerifyKeepsIInv ==
    ASSUME IInv, NEW c \in Call, VerifyTOTPLogin(c)
    PROVE  IInv'
<1>1. request[c] \in Login /\ request[c].phase = "code" /\ LoginKnows(c)
  BY RequestIs, RequestKinds DEF VerifyTOTPLogin, Fits, IsLogin
<1>2. UNCHANGED settingsVars /\ UNCHANGED <<user, shown, issued, confirmed, starts>>
  BY DEF VerifyTOTPLogin
<1>3. UserFits'
  BY <1>2, Parts DEF UserFits, EnabledIsConfirmed, HasSecret
<1>4. CASE shown.enabled /\ shown.secret # None
  <2>1. request' = [request EXCEPT ![c] = Idle]
    BY <1>4 DEF VerifyTOTPLogin, Goto
  <2> QED BY <1>2, <1>3, <2>1, EndKeepsIInv
<1>5. CASE ~(shown.enabled /\ shown.secret # None)
  <2> DEFINE r == [request[c] EXCEPT !.phase = "refused"]
  <2>1. request' = [request EXCEPT ![c] = r]
    BY <1>5 DEF VerifyTOTPLogin, Goto
  <2>2. /\ r \in Login /\ r.phase = "refused" /\ r.enabled = request[c].enabled
        /\ r.on = request[c].on /\ r.same = request[c].same
        /\ r.served = request[c].served
    BY <1>1 DEF Login
  <2> HIDE DEF r
  <2>3. request'[c] = r
    BY <2>1 DEF IInv, TypeOK
  <2>4. call' = call /\ replica' = replica
    BY <1>2 DEF settingsVars
  <2>5. LoginKnows(c)'
    BY <1>1, <1>2, <2>2, <2>3, <2>4 DEF LoginKnows, IsOn, HasToken
  <2>6. r.same => shown.crossed
    BY <1>1, <1>5, <2>2 DEF LoginKnows, IInv, HasSecret
  <2>7. starts' \in 0..MaxStarts
    BY <1>2 DEF IInv, TypeOK
  <2> QED BY <1>2, <2>1, <2>2, <2>5, <2>6, <2>7, QuietStepKeepsIInv
<1> QED BY <1>4, <1>5

-----------------------------------------------------------------------------
(***************************************************************************)
(* The theorems                                                            *)
(***************************************************************************)
LEMMA NextIInv == IInv /\ [Next]_vars => IInv'
<1> SUFFICES ASSUME IInv, [Next]_vars PROVE IInv'
  OBVIOUS
<1>1. CASE Replicate
  BY <1>1, ReplicateKeepsIInv
<1>2. CASE Setup2FA
  BY <1>2, SetupKeepsIInv
<1>3. ASSUME NEW c \in Call, Step(c) PROVE IInv'
  <2>1. CASE HandleSettings(c) \/ ReplySettings(c) \/ UpsertSettings(c)
    BY <2>1, HandleSettingsKeepsIInv, ReplySettingsKeepsIInv, UpsertSettingsKeepsIInv
  <2>2. CASE Enable2FA(c) \/ EnableTOTP(c) \/ Disable2FA(c) \/ DisableTOTP(c)
    BY <2>2, EnableKeepsIInv, EnableTOTPKeepsIInv, DisableKeepsIInv,
       DisableTOTPKeepsIInv
  <2>3. CASE LoginArrives(c) \/ LoginSettings(c) \/ LoginDecides(c)
    BY <2>3, ArriveKeepsIInv, LoginSettingsKeepsIInv, LoginDecidesKeepsIInv
  <2>4. CASE LetThrough(c) \/ VerifyTOTPLogin(c) \/ Ends(c)
    BY <2>4, LetThroughKeepsIInv, VerifyKeepsIInv, EndsKeepsIInv
  <2> QED BY <1>3, <2>1, <2>2, <2>3, <2>4 DEF Step
<1>4. CASE UNCHANGED vars
  <2>1. UNCHANGED settingsVars
        /\ UNCHANGED <<user, shown, issued, request, confirmed, starts>>
    BY <1>4 DEF vars, userVars
  <2>2. UNCHANGED <<rows, replica, call, doubt, asked>>
    BY <2>1 DEF settingsVars
  <2>3. UserFits /\ SettingsIInv
        /\ request \in [Call -> Writing \union Login \union {Idle}]
        /\ \A c \in Call : Fits(c)
    BY Parts
  <2>4. SettingsIInv'
    BY <2>2, <2>3 DEF SettingsIInv, SettingsTypeOK, SettingsAreOfLastUpdate,
                      Saving, Settled, ToWrite
  <2>5. UserFits'
    BY <2>1, <2>3 DEF UserFits, EnabledIsConfirmed, HasSecret
  <2>6. \A c \in Call : Fits(c)'
    BY <2>1, <2>2, <2>3, OtherFits
  <2>7. request' \in [Call -> Writing \union Login \union {Idle}]
    BY <2>1, <2>3
  <2> QED BY <2>4, <2>5, <2>6, <2>7, PartsNext
<1> QED BY <1>1, <1>2, <1>3, <1>4 DEF Next

\* The inductive invariant of the settings and of two-factor authentication.
THEOREM TwoFactorInvariant == Spec => []IInv
<1>1. Init => IInv
  BY InitIInv
<1>2. IInv /\ [Next]_vars => IInv'
  BY NextIInv
<1> QED BY <1>1, <1>2, PTL DEF Spec

\* Settings whose update was alone, complete and of rows ReadEnt showed are
\* that update's, whatever readers fill in (upsertSettings).
THEOREM SettingsAreOfLastUpdateAlways == Spec => []SettingsAreOfLastUpdate
<1>1. IInv => SettingsAreOfLastUpdate
  BY DEF IInv, SettingsIInv
<1> QED BY <1>1, TwoFactorInvariant, PTL

\* Two-factor is on with a confirmed secret, unless an enabling was overtaken
\* (Enable2FA and SetTOTPSecret).
THEOREM EnabledIsConfirmedAlways == Spec => []EnabledIsConfirmed
<1>1. IInv => EnabledIsConfirmed
  BY DEF IInv
<1> QED BY <1>1, TwoFactorInvariant, PTL

\* While two-factor stays on, calls are let through for the password alone
\* only if the settings could not be read, or with a pre-auth token (Login,
\* authMiddleware).
THEOREM NoCodeExplainedAlways == Spec => []NoCodeExplained
<1>1. IInv => NoCodeExplained
  BY DEF IInv
<1> QED BY <1>1, TwoFactorInvariant, PTL

\* Who is asked for a code is not told that there is none to give, unless the
\* row has changed since or was overtaken (VerifyTOTPLogin).
THEOREM RefusedIfChangedAlways == Spec => []RefusedIfChanged
<1>1. IInv => RefusedIfChanged
  BY DEF IInv
<1> QED BY <1>1, TwoFactorInvariant, PTL
=============================================================================
