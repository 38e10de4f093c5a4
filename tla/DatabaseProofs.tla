--------------------------- MODULE DatabaseProofs ---------------------------
(*****************************************************************************)
(* Proofs about Migration, for every history of releases, every table of     *)
(* migrations that keeps the conventions Migration assumes, and any number of *)
(* crashes and failed statements; and about DbHandle: the handle is never    *)
(* closed under a statement, and its counter is right as long as no two      *)
(* threads met at it, for any number of threads and any depth of callbacks.  *)
(*****************************************************************************)
EXTENDS Migration, DbHandle, SequenceTheorems, FiniteSetTheorems, TLAPS

-----------------------------------------------------------------------------
(* Facts about schemas. *)

LEMMA SchemaElements ==
    ASSUME NEW n \in Nat, NEW x
    PROVE  x \in Schema(n) <=>
             /\ n # 0
             /\ x \in Base \/ \E m \in 1..n-1 : x \in Created(Delta[m])
  BY DEF Schema

LEMMA SchemaGrows ==
    ASSUME NEW a \in Nat, NEW b \in Nat, a <= b
    PROVE  Schema(a) \subseteq Schema(b)
  BY SchemaElements

\* What a migration creates is promised by no version before it ran.
LEMMA NotPromised ==
    ASSUME NEW m \in 1..MaxApp-1, NEW n \in DOMAIN Delta[m],
           NEW k \in Nat, k <= m
    PROVE  Delta[m][n] \notin Schema(k)
  <1>1. Delta[m][n] \in Created(Delta[m])
    BY DEF Created
  <1>2. Delta[m][n] \notin Base
    BY <1>1, FreshAssumption
  <1>3. \A q \in 1..k-1 : Delta[m][n] \notin Created(Delta[q])
    BY <1>1, FreshAssumption, BoundsAssumption
  <1> QED BY <1>2, <1>3, SchemaElements

LEMMA StepsProperties ==
    ASSUME app \in 1..MaxApp, NEW m \in 0..app-1
    PROVE  /\ Len(Steps(m)) \in Nat \ {0}
           /\ DOMAIN Steps(m) = 1..Len(Steps(m))
           /\ m > 0 => Steps(m) = Delta[m]
           /\ \A n \in 1..Len(Steps(m)) : Steps(m)[n] \in Schema(MaxApp)
  <1>1. CASE m = 0
    <2>1. Steps(m) = Latest[app]
      BY <1>1 DEF Steps
    <2>2. Created(Latest[app]) \subseteq Schema(MaxApp)
      BY LatestAssumption, SchemaGrows, BoundsAssumption
    <2> QED BY <1>1, <2>1, <2>2, LatestAssumption DEF Created
  <1>2. CASE m > 0
    <2>1. Steps(m) = Delta[m] /\ m \in 1..MaxApp-1
      BY <1>2, BoundsAssumption DEF Steps
    <2>2. \A x \in Created(Delta[m]) : x \in Schema(MaxApp)
      BY <2>1, SchemaElements, BoundsAssumption
    <2> QED BY <2>1, <2>2, DeltaAssumption DEF Created
  <1> QED BY <1>1, <1>2, BoundsAssumption

-----------------------------------------------------------------------------
(* The inductive invariant. *)

IInv == TypeOK /\ MigrationInv

LEMMA InvInit == Init => IInv
  <1> SUFFICES ASSUME Init PROVE IInv
    OBVIOUS
  <1>1. Schema(Least(version, floor)) = {} /\ Schema(version) = {}
    BY BoundsAssumption DEF Init, Schema, Least
  <1> QED BY <1>1, BoundsAssumption
          DEF Init, IInv, TypeOK, MigrationInv, SchemaComplete,
              RollbacksRecorded, Progress

\* Steps that leave the disk alone, or only record, keep what it promises.
LEMMA PromisesKept ==
    ASSUME TypeOK, SchemaComplete, RollbacksRecorded,
           UNCHANGED <<version, floor>>, objects \subseteq objects', rows \subseteq rows'
    PROVE  SchemaComplete' /\ RollbacksRecorded'
  BY DEF SchemaComplete, RollbacksRecorded

LEMMA InvStep == IInv /\ [Next]_vars => IInv'
  <1> SUFFICES ASSUME IInv, [Next]_vars PROVE IInv'
    OBVIOUS
  <1>0. TypeOK /\ SchemaComplete /\ RollbacksRecorded /\ Progress
    BY DEF IInv, MigrationInv
  <1>a. app \in 1..MaxApp /\ version \in 0..MaxApp /\ MaxApp \in Nat /\ floor \in 1..MaxApp
    BY <1>0, BoundsAssumption DEF TypeOK
  <1>s. \A m \in 0..app-1 :
           /\ Len(Steps(m)) \in Nat \ {0}
           /\ DOMAIN Steps(m) = 1..Len(Steps(m))
           /\ m > 0 => Steps(m) = Delta[m]
           /\ \A n \in 1..Len(Steps(m)) : Steps(m)[n] \in Schema(MaxApp)
    BY <1>a, StepsProperties
  <1>q. SUFFICES TypeOK' /\ SchemaComplete' /\ RollbacksRecorded' /\ Progress'
    BY DEF IInv, MigrationInv
  <1>1. ASSUME NEW a \in 1..MaxApp, Install(a)
        PROVE  TypeOK' /\ SchemaComplete' /\ RollbacksRecorded' /\ Progress'
    <2>1. SchemaComplete' /\ RollbacksRecorded'
      BY <1>0, <1>1, PromisesKept DEF Install, disk
    <2>2. TypeOK'
      BY <1>0, <1>1 DEF Install, disk, local, TypeOK
    <2>3. Progress'
      BY <1>1 DEF Install, Progress
    <2> QED BY <2>1, <2>2, <2>3
  <1>2. CASE StartForward
    <2>1. SchemaComplete' /\ RollbacksRecorded'
      BY <1>0, <1>2, PromisesKept DEF StartForward, disk
    <2>2. TypeOK'
      BY <1>0, <1>2, <1>a DEF StartForward, disk, TypeOK, FirstMigration
    <2>3. /\ pc' = "forward" /\ version' = v' /\ v' < app'
          /\ v' = version /\ i' = version /\ j' = 1
      BY <1>2, <1>a DEF StartForward, FirstMigration, disk
    <2>5. 1 <= Len(Steps(i))'
      <3>1. i' = version /\ app' = app /\ version \in 0..app-1
        BY <1>2, <1>a DEF StartForward, FirstMigration
      <3>2. Steps(i)' = Steps(version)
        BY <3>1 DEF Steps
      <3> QED BY <3>1, <3>2, <1>s
    <2>4. Progress'
      <3>1. StepsDone(i, j)'
        BY <2>3 DEF StepsDone
      <3>2. \A m \in v'..i'-1 : ForwardDone(m)'
        BY <1>a, <2>3
      <3> QED BY <1>a, <2>3, <2>5, <3>1, <3>2 DEF Progress
    <2> QED BY <2>1, <2>2, <2>4
  <1>3. CASE StartRollback
    <2>1. /\ pc' = "rollback" /\ v' = version /\ version > app
          /\ floor' = Least(floor, app)
          /\ todo' = {r \in rows : RolledBack(r) /\ HasRollback(r[1], r[2])}
          /\ UNCHANGED <<version, objects, rows, app, i, j, faults, installs>>
      BY <1>3 DEF StartRollback, disk
    <2>2. floor' \in 1..MaxApp /\ floor' <= floor /\ floor' <= app
      BY <1>a, <2>1 DEF Least
    <2>3. Schema(Least(version, floor')) \subseteq Schema(Least(version, floor))
      BY <1>a, <2>2, SchemaGrows DEF Least
    <2>4. SchemaComplete' /\ RollbacksRecorded'
      BY <1>0, <2>1, <2>3 DEF SchemaComplete, RollbacksRecorded
    <2>5. TypeOK'
      BY <1>0, <1>a, <2>1, <2>2 DEF TypeOK
    <2>6. Progress'
      BY <2>1, <2>2 DEF Progress, RolledBack, Dropped
    <2> QED BY <2>4, <2>5, <2>6
  <1>4. CASE ForwardStep
    <2>1. /\ pc = "forward" /\ version = v /\ v < app /\ i \in v..app-1
          /\ v = 0 => i = 0
          /\ j \in 1..Len(Steps(i))
          /\ StepsDone(i, j)
          /\ \A m \in v..i-1 : ForwardDone(m)
          /\ objects' = objects \cup {Steps(i)[j]}
          /\ UNCHANGED <<version, rows, app, v, todo, floor, faults, installs>>
      BY <1>0, <1>a, <1>s, <1>4 DEF ForwardStep, Progress, TypeOK
    <2>2. SchemaComplete' /\ RollbacksRecorded'
      BY <1>0, <2>1, PromisesKept
    <2>3. \A m \in 0..app-1, n \in Nat :
             /\ Steps(m)' = Steps(m)
             /\ StepsDone(m, n) => StepsDone(m, n)'
             /\ ForwardDone(m) => ForwardDone(m)'
      BY <2>1 DEF Steps, StepsDone, ForwardDone
    <2>0. PICK m0 \in 0..app-1, n0 \in 1..Len(Steps(i)) : m0 = i /\ n0 = j
      BY <1>a, <2>1 DEF TypeOK
    <2>4. StepsDone(m0, n0 + 1)'
      <3>1. Steps(m0)[n0] \in objects' /\ Steps(m0)' = Steps(m0)
        BY <2>0, <2>1, <2>3
      <3>2. \A k \in 1..n0-1 : Steps(m0)[k] \in objects'
        BY <2>0, <2>1 DEF StepsDone
      <3>3. n0 \in Nat \ {0}
        BY <1>s, <2>0
      <3> QED BY <3>1, <3>2, <3>3 DEF StepsDone
    <2>5. objects' \subseteq Schema(MaxApp)
      BY <1>0, <1>a, <1>s, <2>1 DEF TypeOK
    <2>6. CASE j < Len(Steps(i)) /\ j' = j + 1 /\ UNCHANGED <<pc, i>>
      <3>1. TypeOK'
        BY <1>0, <2>1, <2>5, <2>6 DEF TypeOK
      <3>2. StepsDone(i, j)' /\ Len(Steps(i))' = Len(Steps(i))
        BY <2>0, <2>1, <2>4, <2>6 DEF StepsDone, Steps
      <3>3. \A m \in v'..i'-1 : ForwardDone(m)'
        BY <1>a, <2>1, <2>3, <2>6
      <3>4. Progress'
        BY <1>a, <1>s, <2>1, <2>6, <3>2, <3>3 DEF Progress
      <3> QED BY <2>2, <3>1, <3>4
    <2>7. ASSUME j = Len(Steps(i)) PROVE ForwardDone(m0)'
      BY <2>0, <2>3, <2>4, <2>7 DEF ForwardDone, StepsDone
    <2>8. CASE /\ j = Len(Steps(i)) /\ v # 0 /\ i + 1 < app
               /\ i' = i + 1 /\ j' = 1 /\ UNCHANGED pc
      <3>1. TypeOK'
        BY <1>0, <1>a, <2>1, <2>5, <2>8 DEF TypeOK
      <3>2. Steps(i)' = Steps(i + 1) /\ 1 <= Len(Steps(i + 1))
        BY <1>a, <1>s, <2>1, <2>8 DEF Steps
      <3>3. \A m \in v'..i'-1 : ForwardDone(m)'
        BY <1>a, <2>0, <2>1, <2>3, <2>7, <2>8
      <3>4. StepsDone(i, j)'
        BY <2>8 DEF StepsDone
      <3>5. Progress'
        BY <1>a, <2>1, <2>8, <3>2, <3>3, <3>4 DEF Progress
      <3> QED BY <2>2, <3>1, <3>5
    <2>9. CASE /\ j = Len(Steps(i)) /\ (v = 0 \/ i + 1 = app)
               /\ i' = 0 /\ j' = 1 /\ pc' = "record"
      <3>1. TypeOK'
        BY <1>0, <1>a, <2>1, <2>5, <2>9 DEF TypeOK
      <3>2. Upgraded'
        <4>1. CASE v = 0
          BY <2>0, <2>1, <2>7, <2>9, <4>1 DEF Upgraded
        <4>2. CASE v # 0
          <5>1. \A m \in v..app-1 : ForwardDone(m)'
            BY <1>a, <2>0, <2>1, <2>3, <2>7, <2>9, <4>2
          <5> QED BY <2>1, <4>2, <5>1 DEF Upgraded
        <4> QED BY <4>1, <4>2
      <3>3. Steps(i)' = Steps(0) /\ 1 <= Len(Steps(0))
        <4>1. Steps(i)' = Steps(0)
          BY <2>1, <2>9 DEF Steps
        <4>2. 0 \in 0..app-1
          BY <1>a
        <4> QED BY <1>s, <4>1, <4>2
      <3>4. Recorded(i, j)'
        BY <2>9 DEF Recorded
      <3>5. Progress'
        BY <1>a, <2>1, <2>9, <3>2, <3>3, <3>4 DEF Progress
      <3> QED BY <2>2, <3>1, <3>5
    <2> QED BY <1>4, <2>6, <2>8, <2>9 DEF ForwardStep
  <1>5. CASE ForwardFail
    <2>1. SchemaComplete' /\ RollbacksRecorded'
      BY <1>0, <1>5, PromisesKept DEF ForwardFail, disk
    <2>2. TypeOK'
      BY <1>0, <1>5 DEF ForwardFail, disk, local, TypeOK
    <2>3. Progress'
      BY <1>0, <1>5 DEF ForwardFail, disk, local, Progress, Steps
    <2> QED BY <2>1, <2>2, <2>3
  <1>6. CASE UndoStep
    <2>1. /\ pc = "undo" /\ version = v /\ v < app /\ i \in v..app-1
          /\ v = 0 => i = 0
          /\ j \in 1..Len(Steps(i))
          /\ UNCHANGED <<version, rows, app, v, i, todo, floor, faults, installs>>
      BY <1>0, <1>a, <1>s, <1>6 DEF UndoStep, Progress, TypeOK
    <2>2. /\ objects' = IF HasRollback(i, j) THEN objects \ {Delta[i][j]} ELSE objects
          /\ \/ j > 1 /\ j' = j - 1 /\ pc' = pc
             \/ pc' = "off" /\ j' = j
      BY <1>6 DEF UndoStep
    <2>3. SchemaComplete'
      <3>1. CASE HasRollback(i, j)
        <4>1. i > 0 /\ i \in 1..MaxApp-1 /\ j \in DOMAIN Delta[i]
          BY <1>a, <1>s, <2>1, <3>1 DEF HasRollback
        <4>2. Least(version, floor) \in Nat /\ Least(version, floor) <= i
          BY <1>a, <2>1 DEF Least
        <4>3. Delta[i][j] \notin Schema(Least(version, floor)) \cup Schema(version)
          BY <1>a, <2>1, <4>1, <4>2, NotPromised
        <4> QED BY <1>0, <2>1, <2>2, <4>3 DEF SchemaComplete
      <3>2. CASE ~HasRollback(i, j)
        BY <1>0, <2>1, <2>2, <3>2 DEF SchemaComplete
      <3> QED BY <3>1, <3>2
    <2>4. RollbacksRecorded'
      BY <1>0, <2>1 DEF RollbacksRecorded
    <2>5. TypeOK'
      BY <1>0, <2>1, <2>2 DEF TypeOK
    <2>6. Progress'
      <3>1. CASE pc' = "off"
        BY <3>1 DEF Progress
      <3>2. CASE j > 1 /\ j' = j - 1 /\ pc' = pc
        <4>1. Len(Steps(i))' = Len(Steps(i))
          BY <2>1 DEF Steps
        <4> QED BY <1>a, <1>s, <2>1, <3>2, <4>1 DEF Progress
      <3> QED BY <2>2, <3>1, <3>2
    <2> QED BY <2>3, <2>4, <2>5, <2>6
  <1>7. CASE RollbackStep
    <2>1. PICK r \in todo : /\ objects' = objects \ {Delta[r[1]][r[2]]}
                            /\ todo' = todo \ {r}
                            /\ ~Refused(Delta[r[1]][r[2]])
      BY <1>7 DEF RollbackStep
    <2>2. /\ pc = "rollback" /\ version = v /\ v > app /\ floor <= app
          /\ UNCHANGED <<version, rows, app, pc, v, i, j, floor, faults, installs>>
          /\ RolledBack(r) /\ HasRollback(r[1], r[2])
      BY <1>0, <1>7 DEF RollbackStep, Progress
    <2>3. r[1] \in 1..MaxApp-1 /\ r[2] \in DOMAIN Delta[r[1]] /\ r[1] >= app
      BY <1>0, <1>a, <2>2 DEF TypeOK, RolledBack, HasRollback
    <2>4. SchemaComplete'
      <3>1. Least(version, floor) \in Nat /\ Least(version, floor) <= r[1]
        BY <1>a, <2>2, <2>3 DEF Least
      <3>2. Delta[r[1]][r[2]] \notin Schema(Least(version, floor))
        BY <2>3, <3>1, NotPromised
      <3>3. Delta[r[1]][r[2]] \in Erasable \/ Delta[r[1]][r[2]] \notin objects
        BY <2>1, <2>2 DEF HasRollback, Refused
      <3> QED BY <1>0, <2>1, <2>2, <3>2, <3>3 DEF SchemaComplete
    <2>5. RollbacksRecorded'
      BY <1>0, <2>2 DEF RollbacksRecorded
    <2>6. TypeOK'
      BY <1>0, <2>1, <2>2 DEF TypeOK
    <2>7. Progress'
      <3>1. \A q \in rows : RolledBack(q) /\ HasRollback(q[1], q[2]) =>
               Dropped(q)' \/ q \in todo'
        BY <1>0, <2>1, <2>2 DEF Progress, Dropped
      <3>2. \A q : RolledBack(q)' <=> RolledBack(q)
        BY <2>2 DEF RolledBack
      <3>3. \A q \in todo' : RolledBack(q) /\ HasRollback(q[1], q[2])
        BY <1>0, <2>1, <2>2 DEF Progress
      <3> QED BY <1>a, <2>2, <3>1, <3>2, <3>3 DEF Progress
    <2> QED BY <2>4, <2>5, <2>6, <2>7
  <1>8. CASE RollbackEnd
    <2>1. SchemaComplete' /\ RollbacksRecorded'
      BY <1>0, <1>8, PromisesKept DEF RollbackEnd, disk
    <2>2. TypeOK'
      BY <1>0, <1>8 DEF RollbackEnd, disk, local, TypeOK
    <2>3. Progress'
      BY <1>0, <1>8, <1>a
         DEF RollbackEnd, disk, local, Progress, Dropped, RolledBack, TypeOK
    <2> QED BY <2>1, <2>2, <2>3
  <1>9. CASE RecordStep
    <2>1. /\ pc = "record" /\ version = v /\ v < app /\ i \in 0..app-1
          /\ j \in 1..Len(Steps(i))
          /\ Upgraded /\ Recorded(i, j)
          /\ \A m \in 1..i-1 : Recorded(m, Len(Steps(m)) + 1)
          /\ rows' = rows \cup {<<i, j>>}
          /\ UNCHANGED <<version, objects, app, v, todo, floor, faults, installs>>
      BY <1>0, <1>a, <1>s, <1>9 DEF RecordStep, Progress, TypeOK
    <2>2. SchemaComplete' /\ RollbacksRecorded'
      BY <1>0, <2>1, PromisesKept
    <2>3. \A m : Steps(m)' = Steps(m)
      BY <2>1 DEF Steps
    <2>4. Upgraded'
      BY <2>1, <2>3 DEF Upgraded, ForwardDone, StepsDone
    <2>5. \A m \in 1..i-1 : Recorded(m, Len(Steps(m)) + 1)'
      BY <2>1, <2>3 DEF Recorded
    <2>6. \A k \in 1..j : <<i, k>> \in rows'
      BY <1>a, <1>s, <2>1 DEF Recorded
    <2>7. /\ rows' \subseteq (0..MaxApp-1) \X (Nat \ {0})
          /\ \A r \in rows' : r[1] > 0 => r[2] \in DOMAIN Delta[r[1]]
          /\ todo' \subseteq rows'
      BY <1>0, <1>a, <1>s, <2>1 DEF TypeOK
    <2>8. CASE j < Len(Steps(i)) /\ j' = j + 1 /\ UNCHANGED <<pc, i>>
      <3>1. TypeOK'
        BY <1>0, <2>1, <2>7, <2>8 DEF TypeOK
      <3>2. Recorded(i, j)'
        BY <1>a, <1>s, <2>1, <2>6, <2>8 DEF Recorded
      <3>3. Progress'
        BY <1>a, <1>s, <2>1, <2>3, <2>4, <2>5, <2>8, <3>2 DEF Progress
      <3> QED BY <2>2, <3>1, <3>3
    <2>0. PICK m0 \in 0..app-1 : m0 = i
      BY <2>1
    <2>9. ASSUME j = Len(Steps(i)) PROVE Recorded(m0, Len(Steps(m0)) + 1)'
      <3>1. Len(Steps(m0)) \in Nat /\ Steps(m0)' = Steps(m0)
        BY <1>s, <2>3
      <3> QED BY <2>0, <2>6, <2>9, <3>1 DEF Recorded
    <2>10. CASE /\ j = Len(Steps(i)) /\ i < LastRecorded
                /\ i' = i + 1 /\ j' = 1 /\ UNCHANGED pc
      <3>1. TypeOK'
        BY <1>0, <1>a, <2>1, <2>7, <2>10 DEF TypeOK, LastRecorded
      <3>2. Recorded(i, j)'
        BY <2>10 DEF Recorded
      <3>3. \A m \in 1..i'-1 : Recorded(m, Len(Steps(m)) + 1)'
        BY <1>a, <2>0, <2>1, <2>5, <2>9, <2>10
      <3>4. i' < app' /\ j' <= Len(Steps(i))'
        BY <1>a, <1>s, <2>1, <2>3, <2>10 DEF LastRecorded, Steps
      <3>5. Progress'
        BY <2>1, <2>4, <2>10, <3>2, <3>3, <3>4 DEF Progress
      <3> QED BY <2>2, <3>1, <3>5
    <2>11. CASE /\ j = Len(Steps(i)) /\ i >= LastRecorded
                /\ pc' = "set" /\ UNCHANGED <<i, j>>
      <3>1. TypeOK'
        BY <1>0, <2>1, <2>7, <2>11 DEF TypeOK
      <3>2. \A m \in 1..app-1 : Recorded(m, Len(Steps(m)) + 1)'
        BY <1>a, <2>0, <2>1, <2>5, <2>9, <2>11 DEF LastRecorded
      <3>3. Progress'
        BY <1>a, <2>1, <2>4, <2>11, <3>2 DEF Progress
      <3> QED BY <2>2, <3>1, <3>3
    <2> QED BY <1>9, <2>8, <2>10, <2>11 DEF RecordStep
  <1>10. CASE SetVersion
    <2>1. /\ pc = "set" /\ version = v /\ v # app /\ version' = app /\ pc' = "off"
          /\ floor' = IF v > app /\ app <= floor THEN MaxApp ELSE floor
          /\ UNCHANGED <<objects, rows, app, v, i, j, todo, faults, installs>>
      BY <1>0, <1>10 DEF SetVersion, NewVersion, local, Progress
    <2>2. TypeOK'
      BY <1>0, <1>a, <2>1 DEF TypeOK
    <2>3. Progress'
      BY <2>1 DEF Progress
    <2>4. CASE v < app
      <3>1. Upgraded /\ \A m \in 1..app-1 : Recorded(m, Len(Steps(m)) + 1)
        BY <1>0, <2>1, <2>4 DEF Progress
      <3>a. v # 0 => Base \subseteq objects /\ Schema(v) \ Erasable \subseteq objects
        <4> SUFFICES ASSUME v # 0 PROVE Base \subseteq objects
          BY <1>0, <2>1 DEF SchemaComplete
        <4>1. Least(version, floor) \in Nat /\ Least(version, floor) >= 1
          BY <1>a, <2>1 DEF Least
        <4> QED BY <1>0, <4>1, SchemaElements DEF SchemaComplete
      <3>b. ASSUME v # 0, NEW m \in 1..app-1, m >= v PROVE Created(Delta[m]) \subseteq objects
        <4>1. m \in v..app-1 /\ m \in 0..app-1 /\ m > 0
          BY <1>a, <2>1, <3>b
        <4>2. StepsDone(m, Len(Steps(m)) + 1)
          BY <3>1, <3>b, <4>1 DEF Upgraded, ForwardDone
        <4>3. \A k \in DOMAIN Delta[m] : Delta[m][k] \in objects
          BY <1>s, <4>1, <4>2 DEF StepsDone
        <4> QED BY <4>3 DEF Created
      <3>c. v = 0 => Schema(app) \subseteq objects
        <4> SUFFICES ASSUME v = 0, NEW x \in Created(Latest[app]) PROVE x \in objects
          BY <1>a, LatestAssumption
        <4>1. \A k \in 1..Len(Latest[app]) : Latest[app][k] \in objects
          BY <1>a, <3>1, LatestAssumption DEF Upgraded, ForwardDone, StepsDone, Steps
        <4> QED BY <1>a, <4>1, LatestAssumption DEF Created
      <3>d. Schema(Least(app, floor)) \subseteq objects
        <4> SUFFICES ASSUME NEW x \in Schema(Least(app, floor)) PROVE x \in objects
          OBVIOUS
        <4>1. Least(app, floor) \in 1..app /\ Schema(Least(app, floor)) \subseteq Schema(app)
          BY <1>a, SchemaGrows DEF Least
        <4>2. ASSUME v # 0, NEW m \in 1..Least(app, floor)-1, x \in Created(Delta[m])
              PROVE  x \in objects
          <5>1. CASE m < v
            <6>1. m \in 1..Least(version, floor)-1 /\ Least(version, floor) \in Nat
              BY <1>a, <2>1, <2>4, <5>1 DEF Least
            <6> QED BY <1>0, <4>2, <6>1, SchemaElements DEF SchemaComplete
          <5>2. CASE m >= v
            BY <1>a, <3>b, <4>1, <4>2, <5>2
          <5> QED BY <1>a, <2>1, <5>1, <5>2
        <4>3. CASE v = 0
          BY <3>c, <4>1, <4>3
        <4>4. CASE v # 0
          <5>1. x \in Base \/ \E m \in 1..Least(app, floor)-1 : x \in Created(Delta[m])
            BY <4>1, SchemaElements
          <5> QED BY <3>a, <4>2, <4>4, <5>1
        <4> QED BY <4>3, <4>4
      <3>e. Schema(app) \ Erasable \subseteq objects
        <4> SUFFICES ASSUME NEW x \in Schema(app) \ Erasable PROVE x \in objects
          OBVIOUS
        <4>1. ASSUME v # 0, NEW m \in 1..app-1, x \in Created(Delta[m])
              PROVE  x \in objects
          <5>1. CASE m < v
            <6>1. m \in 1..v-1 /\ v \in Nat
              BY <1>a, <2>1, <5>1
            <6>2. x \in Schema(v)
              BY <4>1, <6>1, SchemaElements
            <6> QED BY <3>a, <4>1, <6>2
          <5>2. CASE m >= v
            BY <3>b, <4>1, <5>2
          <5> QED BY <1>a, <2>1, <5>1, <5>2
        <4>2. CASE v = 0
          BY <3>c, <4>2
        <4>3. CASE v # 0
          <5>1. x \in Base \/ \E m \in 1..app-1 : x \in Created(Delta[m])
            BY <1>a, SchemaElements
          <5> QED BY <3>a, <4>1, <4>3, <5>1
        <4> QED BY <4>2, <4>3
      <3>2. SchemaComplete'
        BY <1>a, <2>1, <2>4, <3>d, <3>e DEF SchemaComplete
      <3>3. RollbacksRecorded'
        <4> SUFFICES ASSUME NEW m \in 1..app-1, NEW n \in DOMAIN Delta[m]
                     PROVE  <<m, n>> \in rows
          BY <2>1 DEF RollbacksRecorded
        <4>1. m \in 0..app-1 /\ m > 0
          BY <1>a
        <4>2. n \in 1..Len(Steps(m)) /\ Len(Steps(m)) \in Nat
          BY <1>s, <4>1
        <4> QED BY <3>1, <4>2 DEF Recorded
      <3> QED BY <2>2, <2>3, <3>2, <3>3
    <2>5. CASE v > app
      <3>1. floor <= app
        BY <1>0, <2>1, <2>5 DEF Progress
      <3>2. Least(app, floor') = Least(version, floor)
        BY <1>a, <2>1, <2>5, <3>1 DEF Least
      <3>5. Schema(app) \subseteq Schema(version)
        BY <1>a, <2>1, <2>5, SchemaGrows
      <3>3. SchemaComplete'
        BY <1>0, <2>1, <3>2, <3>5 DEF SchemaComplete
      <3>4. RollbacksRecorded'
        <4> SUFFICES ASSUME NEW m \in 1..app-1, NEW n \in DOMAIN Delta[m]
                     PROVE  <<m, n>> \in rows
          BY <2>1 DEF RollbacksRecorded
        <4>1. m \in 1..version-1
          BY <1>a, <2>1, <2>5
        <4> QED BY <1>0, <4>1 DEF RollbacksRecorded
      <3> QED BY <2>2, <2>3, <3>3, <3>4
    <2> QED BY <1>0, <1>a, <2>1, <2>4, <2>5
  <1>11. CASE Stop
    <2>1. SchemaComplete' /\ RollbacksRecorded'
      BY <1>0, <1>11, PromisesKept DEF Stop, disk
    <2>2. TypeOK'
      BY <1>0, <1>11 DEF Stop, disk, local, TypeOK
    <2>3. Progress'
      BY <1>11 DEF Stop, Progress
    <2> QED BY <2>1, <2>2, <2>3
  <1>12. CASE RollbackRefused
    <2>1. SchemaComplete' /\ RollbacksRecorded'
      BY <1>0, <1>12, PromisesKept DEF RollbackRefused, disk
    <2>2. TypeOK'
      BY <1>0, <1>12 DEF RollbackRefused, disk, local, TypeOK
    <2>3. Progress'
      BY <1>12 DEF RollbackRefused, Progress
    <2> QED BY <2>1, <2>2, <2>3
  <1>13. CASE UNCHANGED vars
    BY <1>0, <1>13 DEF vars, disk, local, TypeOK, SchemaComplete,
       RollbacksRecorded, Progress, StepsDone, ForwardDone, Recorded, Upgraded,
       Dropped, RolledBack, Steps
  <1> QED BY <1>1, <1>2, <1>3, <1>4, <1>5, <1>6, <1>7, <1>8, <1>9, <1>10,
             <1>11, <1>12, <1>13 DEF Next, Migrate

(* The variables of db_migrate and of the database have their types: no      *)
(* index runs past a migration's steps. (db.c 532-672)                       *)
THEOREM MigrationTypes == Spec => []TypeOK
  <1>1. IInv => TypeOK
    BY DEF IInv
  <1> QED BY <1>1, InvInit, InvStep, PTL DEF Spec

LEMMA MigrationInvariant == Spec => []IInv
  BY InvInit, InvStep, PTL DEF Spec

(* No crash, failure, undo or later upgrade loses an object the version      *)
(* promises, other than what an unfinished downgrade can erase and release    *)
(* floor does not promise. (db.c 541-557, 604-672)                            *)
THEOREM SchemaStaysComplete == Spec => []SchemaComplete
  <1>1. IInv => SchemaComplete
    BY DEF IInv, MigrationInv
  <1> QED BY <1>1, MigrationInvariant, PTL

(* The database knows how to undo every migration behind its version.        *)
(* (db.c 505-530, 649-662)                                                   *)
THEOREM RollbacksStayRecorded == Spec => []RollbacksRecorded
  <1>1. IInv => RollbacksRecorded
    BY DEF IInv, MigrationInv
  <1> QED BY <1>1, MigrationInvariant, PTL

(* A downgrade that lowers the version has left nothing it has a rollback for. *)
(* (db.c 562-602, 640-647)                                                   *)
THEOREM DowngradesAreClean == Spec => DowngradeClean
  <1>1. IInv /\ [Next]_vars =>
          [version' < version =>
             \A m \in version'..version-1 :
                Created(Delta[m]) \cap (Droppable \cup Erasable) \cap objects' = {}]_vars
    <2> SUFFICES ASSUME IInv, [Next]_vars, version' < version,
                        NEW m \in version'..version-1,
                        NEW x \in Created(Delta[m]) \cap (Droppable \cup Erasable)
                 PROVE  x \notin objects'
      OBVIOUS
    <2>0. /\ TypeOK /\ RollbacksRecorded /\ Progress
          /\ version \in 0..MaxApp /\ app \in 1..MaxApp /\ MaxApp \in Nat
      BY BoundsAssumption DEF IInv, MigrationInv, TypeOK
    <2>1. CASE SetVersion
      <3>1. /\ version' = app /\ version = v /\ v > app /\ pc = "set"
            /\ objects' = objects /\ m \in app..version-1
        BY <2>0, <2>1 DEF SetVersion, NewVersion, Progress
      <3>2. PICK n \in DOMAIN Delta[m] : x = Delta[m][n]
        BY DEF Created
      <3>3. <<m, n>> \in rows
        BY <2>0, <3>1 DEF RollbacksRecorded
      <3>4. RolledBack(<<m, n>>) /\ HasRollback(m, n)
        BY <2>0, <3>1, <3>2 DEF RolledBack, HasRollback
      <3>5. Dropped(<<m, n>>)
        BY <2>0, <3>1, <3>3, <3>4 DEF Progress
      <3> QED BY <3>1, <3>2, <3>5 DEF Dropped
    <2>2. CASE ~SetVersion
      <3>1. version' = version
        BY <2>2 DEF Next, Migrate, Install, StartForward, StartRollback,
           ForwardStep, ForwardFail, UndoStep, RollbackStep, RollbackRefused, RollbackEnd,
           RecordStep, Stop, vars, disk
      <3> QED BY <2>0, <3>1
    <2> QED BY <2>1, <2>2
  <1> QED BY <1>1, MigrationInvariant, PTL DEF Spec, DowngradeClean

-----------------------------------------------------------------------------
(* The handle *)

HandleTypeOK ==
    /\ db \in {"null", "open", "sick"} /\ db_connections \in Int
    /\ stack \in [crew -> Seq(Query)]

HandleInv == HandleTypeOK /\ ClosedIsIdle

-----------------------------------------------------------------------------
(* The stack of a thread. *)

LEMMA NewQuery ==
    \A kind \in {"stmt", "exec", "setup"} :
        /\ New(kind, "checked") \in Query /\ New(kind, "refused") \in Query
        /\ New(kind, "stepping") \in Query /\ New(kind, "counted") \in Query
BY DEF New, Query

\* The innermost query is one of the thread's queries.
LEMMA TopQuery ==
    ASSUME HandleTypeOK, NEW t \in crew, stack[t] # <<>>
    PROVE  /\ Top(t) \in Query
           /\ Idle => ~Live(Top(t))
<1>1. stack[t] \in Seq(Query) /\ Len(stack[t]) \in DOMAIN stack[t]
    BY EmptySeq, LenProperties DEF HandleTypeOK
<1>2. Top(t) \in Query
    BY <1>1, ElementOfSeq DEF Top
<1> QED BY <1>1, <1>2 DEF Idle, Top

\* What Push, Replace and Pop leave of the stacks
LEMMA Pushed ==
    ASSUME HandleTypeOK, NEW t \in crew, NEW q \in Query, Push(t, q)
    PROVE  /\ stack' \in [crew -> Seq(Query)] /\ \A u \in crew \ {t} : stack'[u] = stack[u]
           /\ Len(stack[t]) \in Nat /\ DOMAIN stack[t] = 1..Len(stack[t])
           /\ Len(stack'[t]) = Len(stack[t]) + 1
           /\ DOMAIN stack'[t] = 1..(Len(stack[t]) + 1)
           /\ stack'[t][Len(stack[t]) + 1] = q
           /\ \A k \in 1..Len(stack[t]) : stack'[t][k] = stack[t][k]
<1> DEFINE s == stack[t]
           r == Append(s, q)
<1>1. s \in Seq(Query) /\ Len(s) \in Nat /\ DOMAIN s = 1..Len(s)
    BY LenProperties DEF HandleTypeOK
<1>2. /\ r \in Seq(Query) /\ Len(r) = Len(s) + 1 /\ DOMAIN r = 1..(Len(s) + 1)
      /\ r[Len(s) + 1] = q
      /\ \A k \in 1..Len(s) : r[k] = s[k]
    BY <1>1, AppendProperties, LenProperties
<1>3. /\ \A u \in crew \ {t} : stack'[u] = stack[u]
      /\ stack'[t] = r
      /\ stack' \in [crew -> Seq(Query)]
    BY <1>2 DEF Push, HandleTypeOK
<1> HIDE DEF r
<1> QED BY <1>1, <1>2, <1>3

LEMMA Replaced ==
    ASSUME HandleTypeOK, NEW t \in crew, NEW q \in Query, stack[t] # <<>>, Replace(t, q)
    PROVE  /\ stack' \in [crew -> Seq(Query)] /\ \A u \in crew \ {t} : stack'[u] = stack[u]
           /\ Len(stack[t]) \in Nat \ {0} /\ DOMAIN stack[t] = 1..Len(stack[t])
           /\ Len(stack'[t]) = Len(stack[t]) /\ DOMAIN stack'[t] = 1..Len(stack[t])
           /\ stack'[t][Len(stack[t])] = q
           /\ \A k \in 1..(Len(stack[t]) - 1) : stack'[t][k] = stack[t][k]
<1> DEFINE s == stack[t]
           f == SubSeq(s, 1, Len(s) - 1)
           r == Append(f, q)
<1>1. s \in Seq(Query) /\ s # <<>> /\ Len(s) \in Nat \ {0} /\ DOMAIN s = 1..Len(s)
    BY EmptySeq, LenProperties DEF HandleTypeOK
<1>2. /\ f \in Seq(Query) /\ Len(f) = Len(s) - 1
      /\ \A k \in 1..(Len(s) - 1) : f[k] = s[k]
    BY <1>1, SMT
<1>3. /\ r \in Seq(Query) /\ Len(r) = Len(s) /\ DOMAIN r = 1..Len(s) /\ r[Len(s)] = q
      /\ \A k \in 1..(Len(s) - 1) : r[k] = s[k]
    <2> HIDE DEF f
    <2> QED BY <1>1, <1>2, AppendProperties, LenProperties
<1>4. /\ \A u \in crew \ {t} : stack'[u] = stack[u]
      /\ stack'[t] = r
      /\ stack' \in [crew -> Seq(Query)]
    BY <1>3 DEF Replace, HandleTypeOK
<1> HIDE DEF r
<1> QED BY <1>1, <1>3, <1>4

LEMMA Popped ==
    ASSUME HandleTypeOK, NEW t \in crew, stack[t] # <<>>, Pop(t)
    PROVE  /\ stack' \in [crew -> Seq(Query)] /\ \A u \in crew \ {t} : stack'[u] = stack[u]
           /\ Len(stack[t]) \in Nat \ {0} /\ DOMAIN stack[t] = 1..Len(stack[t])
           /\ Len(stack'[t]) = Len(stack[t]) - 1 /\ DOMAIN stack'[t] = 1..(Len(stack[t]) - 1)
           /\ \A k \in 1..(Len(stack[t]) - 1) : stack'[t][k] = stack[t][k]
<1> DEFINE s == stack[t]
           r == SubSeq(s, 1, Len(s) - 1)
<1>1. s \in Seq(Query) /\ s # <<>> /\ Len(s) \in Nat \ {0} /\ DOMAIN s = 1..Len(s)
    BY EmptySeq, LenProperties DEF HandleTypeOK
<1>2. /\ r \in Seq(Query) /\ Len(r) = Len(s) - 1 /\ DOMAIN r = 1..(Len(s) - 1)
      /\ \A k \in 1..(Len(s) - 1) : r[k] = s[k]
    BY <1>1, SMT
<1>3. /\ \A u \in crew \ {t} : stack'[u] = stack[u]
      /\ stack'[t] = r
      /\ stack' \in [crew -> Seq(Query)]
    BY <1>2 DEF Pop, HandleTypeOK
<1> HIDE DEF r
<1> QED BY <1>1, <1>2, <1>3

-----------------------------------------------------------------------------
(* The handle is not closed under a statement. *)

\* A query more that is no statement leaves the handle idle,
LEMMA PushIdle ==
    ASSUME HandleTypeOK, NEW t \in crew, NEW q \in Query, Push(t, q), crew' = crew
    PROVE  /\ stack' \in [crew -> Seq(Query)]
           /\ Idle /\ ~Live(q) => Idle'
<1>1. /\ stack' \in [crew -> Seq(Query)] /\ \A u \in crew \ {t} : stack'[u] = stack[u]
      /\ Len(stack[t]) \in Nat /\ DOMAIN stack[t] = 1..Len(stack[t])
      /\ DOMAIN stack'[t] = 1..(Len(stack[t]) + 1) /\ stack'[t][Len(stack[t]) + 1] = q
      /\ \A k \in 1..Len(stack[t]) : stack'[t][k] = stack[t][k]
    BY Pushed
<1>2. ASSUME Idle, ~Live(q), NEW u \in crew, NEW k \in DOMAIN stack'[u]
      PROVE  ~Live(stack'[u][k])
    <2>1. CASE u # t
        BY <1>1, <1>2, <2>1 DEF Idle
    <2>2. CASE u = t /\ k = Len(stack[t]) + 1
        BY <1>1, <1>2, <2>2
    <2>3. CASE u = t /\ k # Len(stack[t]) + 1
        <3>1. k \in 1..Len(stack[t])
            BY <1>1, <2>3
        <3> QED BY <1>1, <1>2, <2>3, <3>1 DEF Idle
    <2> QED BY <2>1, <2>2, <2>3
<1> QED BY <1>1, <1>2 DEF Idle

\* and so does a query that goes on without becoming one.
LEMMA ReplaceIdle ==
    ASSUME HandleTypeOK, NEW t \in crew, NEW q \in Query, stack[t] # <<>>, Replace(t, q), crew' = crew
    PROVE  /\ stack' \in [crew -> Seq(Query)]
           /\ Idle /\ ~Live(q) => Idle'
<1>1. /\ stack' \in [crew -> Seq(Query)] /\ \A u \in crew \ {t} : stack'[u] = stack[u]
      /\ Len(stack[t]) \in Nat \ {0} /\ DOMAIN stack[t] = 1..Len(stack[t])
      /\ DOMAIN stack'[t] = 1..Len(stack[t]) /\ stack'[t][Len(stack[t])] = q
      /\ \A k \in 1..(Len(stack[t]) - 1) : stack'[t][k] = stack[t][k]
    BY Replaced
<1>2. ASSUME Idle, ~Live(q), NEW u \in crew, NEW k \in DOMAIN stack'[u]
      PROVE  ~Live(stack'[u][k])
    <2>1. CASE u # t
        BY <1>1, <1>2, <2>1 DEF Idle
    <2>2. CASE u = t /\ k = Len(stack[t])
        BY <1>1, <1>2, <2>2
    <2>3. CASE u = t /\ k # Len(stack[t])
        <3>1. k \in 1..(Len(stack[t]) - 1) /\ k \in DOMAIN stack[t]
            BY <1>1, <2>3
        <3> QED BY <1>1, <1>2, <2>3, <3>1 DEF Idle
    <2> QED BY <2>1, <2>2, <2>3
<1> QED BY <1>1, <1>2 DEF Idle

LEMMA PopIdle ==
    ASSUME HandleTypeOK, NEW t \in crew, stack[t] # <<>>, Pop(t), crew' = crew
    PROVE  /\ stack' \in [crew -> Seq(Query)]
           /\ Idle => Idle'
<1>1. /\ stack' \in [crew -> Seq(Query)] /\ \A u \in crew \ {t} : stack'[u] = stack[u]
      /\ Len(stack[t]) \in Nat \ {0} /\ DOMAIN stack[t] = 1..Len(stack[t])
      /\ DOMAIN stack'[t] = 1..(Len(stack[t]) - 1)
      /\ \A k \in 1..(Len(stack[t]) - 1) : stack'[t][k] = stack[t][k]
    BY Popped
<1>2. ASSUME Idle, NEW u \in crew, NEW k \in DOMAIN stack'[u]
      PROVE  ~Live(stack'[u][k])
    <2>1. CASE u # t
        BY <1>1, <1>2, <2>1 DEF Idle
    <2>2. CASE u = t
        <3>1. k \in 1..(Len(stack[t]) - 1) /\ k \in DOMAIN stack[t]
            BY <1>1, <2>2
        <3> QED BY <1>1, <1>2, <2>2, <3>1 DEF Idle
    <2> QED BY <2>1, <2>2
<1> QED BY <1>1, <1>2 DEF Idle

LEMMA HandleInitial == HandleInit => HandleInv
<1> SUFFICES ASSUME HandleInit PROVE HandleInv
    OBVIOUS
<1>1. /\ HandleTypeOK
      /\ \A t \in crew : DOMAIN stack[t] = {}
    BY EmptySeq DEF HandleInit, HandleTypeOK
<1> QED BY <1>1 DEF HandleInv, ClosedIsIdle, Idle

LEMMA HandleStep ==
    ASSUME HandleInv, NEW t \in crew, Act(t)
    PROVE  HandleInv'
<1> USE DEF HandleInv, ClosedIsIdle
<1>1. crew' = crew
    BY DEF Act, Open, Close, SetUpVoid, CloseUndone, Begin, Prepare, CountRead, CountWrite,
           ExecPrepare, Row, RowDone, StepFails, Finalize, UncountRead, UncountWrite, RefusalDone
<1>2. CASE Open(t)
    <2>1. /\ Idle /\ db' \in {"null", "open", "sick"} /\ db_connections' = db_connections
          /\ \E q \in {New("setup", "checked"), New("stmt", "refused")} : Push(t, q)
        BY <1>2 DEF Open
    <2>2. \A q \in {New("setup", "checked"), New("stmt", "refused")} : q \in Query /\ ~Live(q)
        <3>1. New("setup", "checked") \in Query /\ ~Live(New("setup", "checked"))
            BY DEF New, Live, Query
        <3>2. New("stmt", "refused") \in Query /\ ~Live(New("stmt", "refused"))
            BY DEF New, Live, Query
        <3> QED BY <3>1, <3>2
    <2> QED BY <1>1, <2>1, <2>2, PushIdle DEF HandleTypeOK
<1>3. CASE Close(t)
    <2>1. CASE Idle
        BY <1>1, <1>3, <2>1 DEF Close, ClosedBy, HandleTypeOK, Idle, Live
    <2>2. CASE ~Idle
        BY <1>1, <1>3, <2>2, NewQuery, PushIdle DEF Close, ClosedBy, HandleTypeOK
    <2> QED BY <2>1, <2>2
<1>4. CASE Begin(t)
    BY <1>1, <1>4, NewQuery, PushIdle DEF Begin, HandleTypeOK
<1>5. ASSUME NEW at, At(t, at)
      PROVE  stack[t] # <<>> /\ Top(t) \in Query /\ Top(t).at = at /\ (Idle => ~Live(Top(t)))
    BY <1>5, TopQuery DEF At
\* A query of any other action is no statement afterwards, or was one, or the handle is open.
<1>6. ASSUME NEW q \in Query, stack[t] # <<>>, Replace(t, q), db' = db, db_connections' \in Int,
             Live(q) => db # "null" \/ Live(Top(t))
      PROVE  HandleInv'
    BY <1>1, <1>6, ReplaceIdle, TopQuery DEF HandleTypeOK
<1>7. CASE Prepare(t)
    <2>1. /\ [Top(t) EXCEPT !.at = "refused"] \in Query
          /\ [Top(t) EXCEPT !.at = "prepared"] \in Query
          /\ ~Live([Top(t) EXCEPT !.at = "refused"])
        BY <1>5, <1>7 DEF Prepare, Query, Live
    <2> QED BY <1>5, <1>6, <1>7, <2>1 DEF Prepare, GoTo, HandleTypeOK
<1>8. CASE CountRead(t)
    <2> DEFINE q == [Top(t) EXCEPT !.at = "counting", !.reg = db_connections]
    <2>1. q \in Query /\ (Live(q) => Live(Top(t)))
        BY <1>5, <1>8 DEF CountRead, Query, Live, HandleTypeOK
    <2> QED BY <1>5, <1>6, <1>8, <2>1 DEF CountRead, HandleTypeOK
<1>9. CASE CountWrite(t)
    <2> DEFINE q == New(Top(t).kind, IF Top(t).kind = "stmt" THEN "stepping" ELSE "counted")
    <2>1. q \in Query /\ (Live(q) => Live(Top(t))) /\ db_connections' \in Int
        BY <1>5, <1>9 DEF CountWrite, Query, Live, New
    <2> QED BY <1>5, <1>6, <1>9, <2>1 DEF CountWrite
<1>10. CASE ExecPrepare(t)
    <2>1. /\ [Top(t) EXCEPT !.at = "stepping"] \in Query
          /\ [Top(t) EXCEPT !.at = "finalized", !.failed = TRUE] \in Query
          /\ ~Live([Top(t) EXCEPT !.at = "finalized", !.failed = TRUE])
        BY <1>5, <1>10 DEF ExecPrepare, Query, Live
    <2> QED BY <1>5, <1>6, <1>10, <2>1 DEF ExecPrepare, GoTo, HandleTypeOK
<1>11. CASE Row(t)
    <2>1. /\ [Top(t) EXCEPT !.at = "callback"] \in Query
          /\ Live(Top(t))
        BY <1>5, <1>11 DEF Row, Query, Live
    <2> QED BY <1>5, <1>6, <1>11, <2>1 DEF Row, GoTo, HandleTypeOK
<1>12. CASE RowDone(t)
    <2>1. /\ [Top(t) EXCEPT !.at = "stepping"] \in Query
          /\ Live(Top(t))
        BY <1>5, <1>12 DEF RowDone, Query, Live
    <2> QED BY <1>5, <1>6, <1>12, <2>1 DEF RowDone, GoTo, HandleTypeOK
<1>13. CASE StepFails(t)
    <2>1. /\ [Top(t) EXCEPT !.at = "error"] \in Query
          /\ [Top(t) EXCEPT !.at = "finalized", !.failed = TRUE] \in Query
          /\ Live(Top(t))
        BY <1>5, <1>13 DEF StepFails, Query, Live
    <2> QED BY <1>5, <1>6, <1>13, <2>1 DEF StepFails, GoTo, HandleTypeOK
<1>14. CASE Finalize(t)
    <2>1. /\ [Top(t) EXCEPT !.at = "finalized"] \in Query
          /\ ~Live([Top(t) EXCEPT !.at = "finalized"])
        BY <1>5, <1>14 DEF Finalize, Query, Live
    <2> QED BY <1>5, <1>6, <1>14, <2>1 DEF Finalize, GoTo, HandleTypeOK
<1>15. CASE UncountRead(t)
    <2> DEFINE q == [Top(t) EXCEPT !.at = "uncounting", !.reg = db_connections]
    <2>1. q \in Query /\ ~Live(q)
        BY <1>5, <1>15 DEF UncountRead, Query, Live, HandleTypeOK
    <2> QED BY <1>5, <1>6, <1>15, <2>1 DEF UncountRead, HandleTypeOK
<1>16. CASE UncountWrite(t)
    <2>1. /\ New(Top(t).kind, "refused") \in Query /\ ~Live(New(Top(t).kind, "refused"))
          /\ db_connections' \in Int
        BY <1>5, <1>16, NewQuery DEF UncountWrite, Query, Live, New
    <2>2. CASE Top(t).failed
        BY <1>5, <1>6, <1>16, <2>1, <2>2 DEF UncountWrite
    <2>3. CASE ~Top(t).failed
        BY <1>1, <1>5, <1>16, <2>1, <2>3, PopIdle DEF UncountWrite, HandleTypeOK
    <2> QED BY <2>2, <2>3
<1>u. ASSUME stack[t] # <<>>, Top(t) \in Query, GoTo(t, "undone"), UNCHANGED <<db, db_connections>>
      PROVE  HandleInv'
    <2>1. [Top(t) EXCEPT !.at = "undone"] \in Query /\ ~Live([Top(t) EXCEPT !.at = "undone"])
        BY <1>u DEF Query, Live
    <2> QED BY <1>6, <1>u, <2>1 DEF GoTo, HandleTypeOK
<1>17. CASE RefusalDone(t)
    <2>1. CASE Top(t).kind = "setup"
        BY <1>5, <1>17, <1>u, <2>1 DEF RefusalDone
    <2>2. CASE Top(t).kind # "setup"
        BY <1>1, <1>5, <1>17, <2>2, PopIdle DEF RefusalDone, HandleTypeOK
    <2> QED BY <2>1, <2>2
<1>18. CASE SetUpVoid(t)
    BY <1>5, <1>18, <1>u DEF SetUpVoid
<1>19. CASE CloseUndone(t)
    <2>1. stack[t] # <<>> /\ db_connections' = db_connections
        BY <1>5, <1>19 DEF CloseUndone
    <2>2. CASE Pop(t) /\ (db = "null" \/ Idle) /\ db' \in {db, "null"}
        BY <1>1, <2>1, <2>2, PopIdle DEF HandleTypeOK
    <2>3. CASE Replace(t, New("stmt", "refused")) /\ db' = db
        <3>1. New("stmt", "refused") \in Query /\ ~Live(New("stmt", "refused"))
            BY NewQuery DEF New, Live
        <3> QED BY <1>6, <2>1, <2>3, <3>1 DEF HandleTypeOK
    <2> QED BY <1>19, <2>2, <2>3 DEF CloseUndone, ClosedBy
<1> QED BY <1>18, <1>19, <1>2, <1>3, <1>4, <1>7, <1>8, <1>9, <1>10, <1>11, <1>12, <1>13, <1>14, <1>15,
           <1>16, <1>17 DEF Act

(* When the handle is gone no statement of any thread lives on it, whoever      *)
(* tries to close it and from whichever callback. (db.c 196-217, 325-503)        *)
THEOREM HandleClosedIdle == HandleSpec => []ClosedIsIdle
<1>1. HandleInit => HandleInv
    BY HandleInitial
<1>2. HandleInv /\ [HandleNext]_handleVars => HandleInv'
    <2>1. ASSUME HandleInv, UNCHANGED handleVars PROVE HandleInv'
        BY <2>1 DEF HandleInv, HandleTypeOK, ClosedIsIdle, Idle, Live, handleVars
    <2> QED BY <2>1, HandleStep DEF HandleNext
<1>3. HandleInv => ClosedIsIdle
    BY DEF HandleInv
<1> QED BY <1>1, <1>2, <1>3, PTL DEF HandleSpec

-----------------------------------------------------------------------------
(* The counter. *)

\* The queries whose increment is written and whose decrement is not
Counts(q) == q.at \in {"counted", "stepping", "callback", "error", "finalized", "uncounting"}
Counted == UNION {{t} \X {k \in DOMAIN stack[t] : Counts(stack[t][k])} : t \in crew}

\* Under the innermost query of a thread, queries are in a callback.
Nested ==
    \A t \in crew : \A k \in DOMAIN stack[t] :
        /\ k # Len(stack[t]) => stack[t][k].at \in {"callback", "error", "refused"}
        /\ stack[t][k].at \in {"prepared", "error"} => stack[t][k].kind = "stmt"

\* A thread at the counter has read what is still there, if nobody else came.
CountInv ==
    /\ HandleInv /\ Nested /\ IsFiniteSet(Counted)
    /\ Race => raced
    /\ ~raced => /\ db_connections = Cardinality(Counted)
                 /\ \A t \in crew : Updating(t) => Top(t).reg = db_connections

LEMMA InCounted ==
    /\ \A p : p \in Counted <=>
            \E t \in crew : \E k \in DOMAIN stack[t] : p = <<t, k>> /\ Counts(stack[t][k])
    /\ \A p : p \in Counted' <=>
            \E t \in crew' : \E k \in DOMAIN stack'[t] : p = <<t, k>> /\ Counts(stack'[t][k])
BY DEF Counted

\* A query more that is not counted yet
LEMMA PushCounts ==
    ASSUME HandleTypeOK, Nested, NEW t \in crew, NEW q \in Query, Push(t, q), crew' = crew,
           InControl(t), q.at \in {"checked", "refused"}
    PROVE  Nested' /\ Counted' = Counted /\ ~Updating(t)'
<1> DEFINE n == Len(stack[t])
<1>1. /\ \A u \in crew \ {t} : stack'[u] = stack[u]
      /\ n \in Nat /\ DOMAIN stack[t] = 1..n
      /\ Len(stack'[t]) = n + 1 /\ DOMAIN stack'[t] = 1..(n + 1)
      /\ stack'[t][n + 1] = q
      /\ \A k \in 1..n : stack'[t][k] = stack[t][k]
    BY Pushed
<1>2. n # 0 => stack[t][n].at \in {"callback", "error", "refused"}
    BY <1>1, EmptySeq DEF InControl, Top, HandleTypeOK
<1> HIDE DEF n
<1>3. Nested'
    <2>1. ASSUME NEW k \in 1..n, k # n PROVE stack[t][k].at \in {"callback", "error", "refused"}
        BY <1>1, <2>1 DEF Nested, n
    <2>2. ASSUME NEW k \in 1..n
          PROVE  stack'[t][k].at \in {"callback", "error", "refused"}
        BY <1>1, <1>2, <2>1, <2>2
    <2>3. \A k \in 1..n : stack'[t][k].at \in {"prepared", "error"} => stack'[t][k].kind = "stmt"
        BY <1>1 DEF Nested
    <2> QED BY <1>1, <2>2, <2>3 DEF Nested
<1>4. Counted' = Counted
    <2>1. ~Counts(q)
        BY DEF Counts
    <2>2. \A u \in crew : \A k : k \in DOMAIN stack'[u] /\ Counts(stack'[u][k])
                            <=> k \in DOMAIN stack[u] /\ Counts(stack[u][k])
        BY <1>1, <2>1
    <2> QED BY <2>2, InCounted
<1>5. ~Updating(t)'
    BY <1>1 DEF Updating, At, Top
<1> QED BY <1>3, <1>4, <1>5

\* A query that goes on
LEMMA ReplaceCounts ==
    ASSUME HandleTypeOK, Nested, NEW t \in crew, NEW q \in Query, stack[t] # <<>>, Replace(t, q),
           crew' = crew, q.at \in {"prepared", "error"} => q.kind = "stmt"
    PROVE  /\ Nested'
           /\ Counted' = IF Counts(q) THEN Counted \cup {<<t, Len(stack[t])>>}
                                      ELSE Counted \ {<<t, Len(stack[t])>>}
           /\ <<t, Len(stack[t])>> \in Counted <=> Counts(Top(t))
           /\ Updating(t)' => q.at \in {"counting", "uncounting"} /\ Top(t)' = q
<1> DEFINE n == Len(stack[t])
<1>1. /\ \A u \in crew \ {t} : stack'[u] = stack[u]
      /\ n \in Nat \ {0} /\ DOMAIN stack[t] = 1..n
      /\ Len(stack'[t]) = n /\ DOMAIN stack'[t] = 1..n
      /\ stack'[t][n] = q
      /\ \A k \in 1..(n - 1) : stack'[t][k] = stack[t][k]
    BY Replaced
<1>2. Top(t) = stack[t][n]
    BY DEF Top
<1> HIDE DEF n
<1>3. Nested'
    BY <1>1 DEF Nested
<1>4. \A u \in crew : \A k : u # t \/ k # n =>
          (k \in DOMAIN stack'[u] /\ Counts(stack'[u][k])
               <=> k \in DOMAIN stack[u] /\ Counts(stack[u][k]))
    BY <1>1
<1>5. <<t, n>> \in Counted <=> Counts(Top(t))
    BY <1>1, <1>2, InCounted
<1>6. <<t, n>> \in Counted' <=> Counts(q)
    BY <1>1, InCounted
<1>7. \A p : p # <<t, n>> => (p \in Counted' <=> p \in Counted)
    BY <1>4, InCounted
<1>8. Updating(t)' => q.at \in {"counting", "uncounting"} /\ Top(t)' = q
    BY <1>1 DEF Updating, At, Top
<1> QED BY <1>3, <1>5, <1>6, <1>7, <1>8 DEF n

\* A query that ends
LEMMA PopCounts ==
    ASSUME HandleTypeOK, Nested, NEW t \in crew, stack[t] # <<>>, Pop(t), crew' = crew
    PROVE  /\ Nested'
           /\ Counted' = Counted \ {<<t, Len(stack[t])>>}
           /\ <<t, Len(stack[t])>> \in Counted <=> Counts(Top(t))
           /\ ~Updating(t)'
<1> DEFINE n == Len(stack[t])
<1>1. /\ \A u \in crew \ {t} : stack'[u] = stack[u]
      /\ n \in Nat \ {0} /\ DOMAIN stack[t] = 1..n
      /\ Len(stack'[t]) = n - 1 /\ DOMAIN stack'[t] = 1..(n - 1)
      /\ \A k \in 1..(n - 1) : stack'[t][k] = stack[t][k]
      /\ stack' \in [crew -> Seq(Query)]
    BY Popped
<1>2. Top(t) = stack[t][n]
    BY DEF Top
<1> HIDE DEF n
<1>3. Nested'
    BY <1>1 DEF Nested
<1>4. \A u \in crew : \A k : u # t \/ k # n =>
          (k \in DOMAIN stack'[u] /\ Counts(stack'[u][k])
               <=> k \in DOMAIN stack[u] /\ Counts(stack[u][k]))
    BY <1>1
<1>5. <<t, n>> \in Counted <=> Counts(Top(t))
    BY <1>1, <1>2, InCounted
<1>6. <<t, n>> \notin Counted'
    BY <1>1, InCounted
<1>7. \A p : p # <<t, n>> => (p \in Counted' <=> p \in Counted)
    BY <1>4, InCounted
<1>8. ~Updating(t)'
    <2>1. CASE stack'[t] = <<>>
        BY <2>1 DEF Updating, At
    <2>2. CASE stack'[t] # <<>>
        <3>1. n - 1 \in 1..(n - 1) /\ n - 1 # n
            BY <1>1, <2>2, EmptySeq
        <3>2. stack[t][n - 1].at \in {"callback", "error", "refused"}
            BY <1>1, <3>1 DEF Nested, n
        <3> QED BY <1>1, <3>1, <3>2 DEF Updating, At, Top
    <2> QED BY <2>1, <2>2
<1> QED BY <1>3, <1>5, <1>6, <1>7, <1>8 DEF n

\* Other threads' queries and the counter are left alone, and t has read what is there.
LEMMA Elsewhere ==
    ASSUME CountInv, HandleInv', Nested', NEW t \in crew, crew' = crew,
           \A u \in crew \ {t} : stack'[u] = stack[u],
           raced' = (raced \/ Race'),
           Counted' = Counted, db_connections' = db_connections,
           Updating(t)' => Top(t)'.reg = db_connections
    PROVE  CountInv'
<1>1. \A u \in crew \ {t} : (Updating(u)' <=> Updating(u)) /\ Top(u)' = Top(u)
    BY DEF Updating, At, Top
<1>2. ~raced' => \A u \in crew : Updating(u)' => Top(u)'.reg = db_connections
    BY <1>1 DEF CountInv
<1> QED BY <1>2 DEF CountInv

\* Nobody but t is at the counter, and t leaves it with the counter moved by one.
LEMMA Counter ==
    ASSUME CountInv, HandleInv', Nested', NEW t \in crew, crew' = crew,
           \A u \in crew \ {t} : stack'[u] = stack[u],
           raced' = (raced \/ Race'), Updating(t), ~Updating(t)',
           IsFiniteSet(Counted'), db_connections' \in Int,
           ~raced => db_connections' = Cardinality(Counted')
    PROVE  CountInv'
<1>1. \A u \in crew \ {t} : Updating(u)' <=> Updating(u)
    BY DEF Updating, At, Top
<1>2. ~raced => \A u \in crew : ~Updating(u)'
    BY <1>1 DEF CountInv, Race
<1> QED BY <1>2 DEF CountInv

LEMMA CountInitial == HandleInit => CountInv
<1> SUFFICES ASSUME HandleInit PROVE CountInv
    OBVIOUS
<1>1. \A t \in crew : stack[t] = <<>> /\ DOMAIN stack[t] = {}
    BY EmptySeq DEF HandleInit
<1>2. Counted = {}
    BY <1>1, InCounted
<1>3. HandleInv /\ Nested
    BY <1>1, HandleInitial DEF Nested
<1>4. ~Race /\ \A t \in crew : ~Updating(t)
    BY <1>1 DEF Race, Updating, At
<1> QED BY <1>2, <1>3, <1>4, FS_EmptySet DEF CountInv, HandleInit

LEMMA CountStep ==
    ASSUME CountInv, NEW t \in crew, Act(t), raced' = (raced \/ Race')
    PROVE  CountInv'
<1> DEFINE place == <<t, Len(stack[t])>>
<1>1. crew' = crew
    BY DEF Act, Open, Close, SetUpVoid, CloseUndone, Begin, Prepare, CountRead, CountWrite,
           ExecPrepare, Row, RowDone, StepFails, Finalize, UncountRead, UncountWrite, RefusalDone
<1>2. HandleTypeOK /\ Nested /\ HandleInv'
    BY HandleStep DEF CountInv, HandleInv
\* A query that begins, or a refusal to tell
<1>3. ASSUME NEW q \in Query, Push(t, q), InControl(t), q.at \in {"checked", "refused"},
             db_connections' = db_connections
      PROVE  CountInv'
    BY <1>1, <1>2, <1>3, PushCounts, Pushed, Elsewhere
\* A query that goes on and does not write the counter
<1>4. ASSUME NEW q \in Query, stack[t] # <<>>, Replace(t, q), Counts(q) <=> Counts(Top(t)),
             q.at \in {"prepared", "error"} => q.kind = "stmt",
             q.at \in {"counting", "uncounting"} => q.reg = db_connections,
             db_connections' = db_connections
      PROVE  CountInv'
    <2>1. Counted' = Counted /\ Nested'
        BY <1>1, <1>2, <1>4, ReplaceCounts
    <2>2. Updating(t)' => Top(t)'.reg = db_connections
        BY <1>1, <1>2, <1>4, ReplaceCounts
    <2>3. \A u \in crew \ {t} : stack'[u] = stack[u]
        BY <1>2, <1>4, Replaced
    <2> QED BY <1>1, <1>2, <1>4, <2>1, <2>2, <2>3, Elsewhere
<1>5. ASSUME NEW at, At(t, at)
      PROVE  stack[t] # <<>> /\ Top(t) \in Query /\ Top(t).at = at
    BY <1>2, <1>5, TopQuery DEF At
<1>6. CASE Open(t) \/ Close(t)
    <2>1. /\ InControl(t) /\ db_connections' = db_connections
          /\ UNCHANGED stack \/ \E q \in {New("setup", "checked"), New("stmt", "refused")} : Push(t, q)
        BY <1>6 DEF Open, Close
    <2>2. CASE UNCHANGED stack
        <3>1. Nested' /\ Counted' = Counted /\ (Updating(t)' <=> Updating(t)) /\ Top(t)' = Top(t)
            BY <1>1, <1>2, <2>2 DEF Nested, Counted, Updating, At, Top
        <3>2. ~Updating(t)
            BY <2>1 DEF InControl, Updating, At
        <3> QED BY <1>1, <1>2, <2>1, <2>2, <3>1, <3>2, Elsewhere
    <2>3. ASSUME NEW q \in {New("setup", "checked"), New("stmt", "refused")}, Push(t, q)
          PROVE  CountInv'
        <3>1. q \in Query /\ q.at \in {"checked", "refused"}
            <4>1. New("setup", "checked") \in Query /\ New("setup", "checked").at = "checked"
                BY DEF New, Query
            <4>2. New("stmt", "refused") \in Query /\ New("stmt", "refused").at = "refused"
                BY DEF New, Query
            <4> QED BY <2>3, <4>1, <4>2
        <3> QED BY <1>3, <2>1, <2>3, <3>1
    <2> QED BY <2>1, <2>2, <2>3
<1>7. CASE Begin(t)
    <2>1. \A kind \in {"stmt", "exec"} :
              New(kind, "checked") \in Query /\ New(kind, "checked").at = "checked"
        BY NewQuery DEF New
    <2> QED BY <1>3, <1>7, <2>1 DEF Begin
<1>8. CASE Prepare(t)
    <2>1. /\ [Top(t) EXCEPT !.at = "refused"] \in Query
          /\ [Top(t) EXCEPT !.at = "prepared"] \in Query
          /\ ~Counts([Top(t) EXCEPT !.at = "refused"]) /\ ~Counts([Top(t) EXCEPT !.at = "prepared"])
          /\ ~Counts(Top(t))
          /\ [Top(t) EXCEPT !.at = "prepared"].kind = "stmt"
          /\ [Top(t) EXCEPT !.at = "refused"].at = "refused"
          /\ [Top(t) EXCEPT !.at = "prepared"].at = "prepared"
        BY <1>5, <1>8 DEF Prepare, Query, Counts
    <2> QED BY <1>4, <1>5, <1>8, <2>1 DEF Prepare, GoTo
<1>9. CASE CountRead(t)
    <2> DEFINE q == [Top(t) EXCEPT !.at = "counting", !.reg = db_connections]
    <2>1. Top(t) \in Query /\ Top(t).at \in {"prepared", "checked"}
        BY <1>5, <1>9 DEF CountRead
    <2>2. /\ q \in Query /\ ~Counts(q) /\ ~Counts(Top(t))
          /\ q.at = "counting" /\ q.reg = db_connections
        BY <1>2, <2>1 DEF Query, Counts, HandleTypeOK
    <2> QED BY <1>4, <1>5, <1>9, <2>2 DEF CountRead
<1>10. CASE CountWrite(t)
    <2> DEFINE q == New(Top(t).kind, IF Top(t).kind = "stmt" THEN "stepping" ELSE "counted")
    <2>1. /\ q \in Query /\ Counts(q) /\ ~Counts(Top(t)) /\ stack[t] # <<>> /\ Replace(t, q)
          /\ q.at \notin {"counting", "uncounting", "prepared", "error"}
        BY <1>5, <1>10 DEF CountWrite, Query, Counts, New
    <2> HIDE DEF q
    <2>2. /\ Nested' /\ ~Updating(t)'
          /\ Counted' = Counted \cup {place} /\ place \notin Counted
        BY <1>1, <1>2, <2>1, ReplaceCounts
    <2>3. Updating(t) /\ db_connections' = Top(t).reg + 1 /\ db_connections' \in Int
        BY <1>2, <1>10 DEF CountWrite, Updating, HandleInv, HandleTypeOK
    <2>4. IsFiniteSet(Counted') /\ Cardinality(Counted') = Cardinality(Counted) + 1
        BY <2>2, FS_AddElement DEF CountInv
    <2>5. ~raced => db_connections' = Cardinality(Counted')
        BY <2>3, <2>4 DEF CountInv
    <2>6. \A u \in crew \ {t} : stack'[u] = stack[u]
        BY <1>2, <2>1, Replaced
    <2> QED BY <1>1, <1>2, <2>2, <2>3, <2>4, <2>5, <2>6, Counter
<1>11. CASE ExecPrepare(t)
    <2>1. /\ [Top(t) EXCEPT !.at = "stepping"] \in Query
          /\ [Top(t) EXCEPT !.at = "finalized", !.failed = TRUE] \in Query
          /\ Counts([Top(t) EXCEPT !.at = "stepping"])
          /\ Counts([Top(t) EXCEPT !.at = "finalized", !.failed = TRUE])
          /\ Counts(Top(t))
          /\ [Top(t) EXCEPT !.at = "stepping"].at = "stepping"
          /\ [Top(t) EXCEPT !.at = "finalized", !.failed = TRUE].at = "finalized"
        BY <1>5, <1>11 DEF ExecPrepare, Query, Counts
    <2> QED BY <1>4, <1>5, <1>11, <2>1 DEF ExecPrepare, GoTo
<1>12. CASE Row(t)
    <2>1. /\ [Top(t) EXCEPT !.at = "callback"] \in Query
          /\ Counts([Top(t) EXCEPT !.at = "callback"]) /\ Counts(Top(t))
          /\ [Top(t) EXCEPT !.at = "callback"].at = "callback"
        BY <1>5, <1>12 DEF Row, Query, Counts
    <2> QED BY <1>4, <1>5, <1>12, <2>1 DEF Row, GoTo
<1>13. CASE RowDone(t)
    <2>1. /\ [Top(t) EXCEPT !.at = "stepping"] \in Query
          /\ Counts([Top(t) EXCEPT !.at = "stepping"]) /\ Counts(Top(t))
          /\ [Top(t) EXCEPT !.at = "stepping"].at = "stepping"
        BY <1>5, <1>13 DEF RowDone, Query, Counts
    <2> QED BY <1>4, <1>5, <1>13, <2>1 DEF RowDone, GoTo
<1>14. CASE StepFails(t)
    <2>1. /\ [Top(t) EXCEPT !.at = "error"] \in Query
          /\ [Top(t) EXCEPT !.at = "finalized", !.failed = TRUE] \in Query
          /\ Counts([Top(t) EXCEPT !.at = "error"])
          /\ Counts([Top(t) EXCEPT !.at = "finalized", !.failed = TRUE])
          /\ Counts(Top(t))
          /\ [Top(t) EXCEPT !.at = "error"].at = "error"
          /\ [Top(t) EXCEPT !.at = "error"].kind = Top(t).kind
          /\ [Top(t) EXCEPT !.at = "finalized", !.failed = TRUE].at = "finalized"
        BY <1>5, <1>14 DEF StepFails, Query, Counts
    <2> QED BY <1>4, <1>5, <1>14, <2>1 DEF StepFails, GoTo
<1>15. CASE Finalize(t)
    <2>1. /\ [Top(t) EXCEPT !.at = "finalized"] \in Query
          /\ Counts([Top(t) EXCEPT !.at = "finalized"]) /\ Counts(Top(t))
          /\ [Top(t) EXCEPT !.at = "finalized"].at = "finalized"
        BY <1>5, <1>15 DEF Finalize, Query, Counts
    <2> QED BY <1>4, <1>5, <1>15, <2>1 DEF Finalize, GoTo
<1>16. CASE UncountRead(t)
    <2> DEFINE q == [Top(t) EXCEPT !.at = "uncounting", !.reg = db_connections]
    <2>1. /\ q \in Query /\ Counts(q) /\ Counts(Top(t))
          /\ q.at = "uncounting" /\ q.reg = db_connections
        BY <1>2, <1>5, <1>16 DEF UncountRead, Query, Counts, HandleTypeOK
    <2> QED BY <1>4, <1>5, <1>16, <2>1 DEF UncountRead
<1>17. CASE UncountWrite(t)
    <2>1. /\ stack[t] # <<>> /\ Counts(Top(t)) /\ Updating(t)
          /\ db_connections' = Top(t).reg - 1 /\ db_connections' \in Int
        BY <1>2, <1>5, <1>17 DEF UncountWrite, Updating, Counts, HandleInv, HandleTypeOK
    <2>2. /\ Nested' /\ ~Updating(t)'
          /\ Counted' = Counted \ {place} /\ place \in Counted
          /\ \A u \in crew \ {t} : stack'[u] = stack[u]
        <3>1. CASE Top(t).failed
            <4> DEFINE q == New(Top(t).kind, "refused")
            <4>1. q \in Query /\ q.at = "refused" /\ ~Counts(q) /\ Replace(t, q)
                BY <1>5, <1>17, <3>1, NewQuery DEF UncountWrite, New, Counts, Query
            <4> HIDE DEF q
            <4> QED BY <1>1, <1>2, <2>1, <4>1, ReplaceCounts, Replaced
        <3>2. CASE ~Top(t).failed
            BY <1>1, <1>2, <1>17, <2>1, <3>2, PopCounts, Popped DEF UncountWrite
        <3> QED BY <3>1, <3>2
    <2>3. IsFiniteSet(Counted') /\ Cardinality(Counted') = Cardinality(Counted) - 1
        BY <2>2, FS_RemoveElement DEF CountInv
    <2>4. ~raced => db_connections' = Cardinality(Counted')
        BY <2>1, <2>3 DEF CountInv
    <2> QED BY <1>1, <1>2, <2>1, <2>2, <2>3, <2>4, Counter
\* A query that ends and was not counted
<1>p. ASSUME stack[t] # <<>>, ~Counts(Top(t)), Pop(t), db_connections' = db_connections
      PROVE  CountInv'
    <2>1. Nested' /\ ~Updating(t)' /\ Counted' = Counted
        BY <1>1, <1>2, <1>p, PopCounts
    <2> QED BY <1>1, <1>2, <1>p, <2>1, Popped, Elsewhere
<1>u. ASSUME stack[t] # <<>>, Top(t) \in Query, ~Counts(Top(t)), GoTo(t, "undone"),
             db_connections' = db_connections
      PROVE  CountInv'
    <2>1. /\ [Top(t) EXCEPT !.at = "undone"] \in Query
          /\ ~Counts([Top(t) EXCEPT !.at = "undone"])
          /\ [Top(t) EXCEPT !.at = "undone"].at = "undone"
        BY <1>u DEF Query, Counts
    <2> QED BY <1>4, <1>u, <2>1 DEF GoTo
<1>18. CASE RefusalDone(t)
    <2>1. /\ stack[t] # <<>> /\ Top(t) \in Query /\ ~Counts(Top(t))
          /\ db_connections' = db_connections
        BY <1>5, <1>18 DEF RefusalDone, Counts
    <2> QED BY <1>p, <1>u, <1>18, <2>1 DEF RefusalDone
<1>19. CASE SetUpVoid(t)
    BY <1>5, <1>u, <1>19 DEF SetUpVoid, Counts
<1>20. CASE CloseUndone(t)
    <2>1. /\ stack[t] # <<>> /\ Top(t) \in Query /\ ~Counts(Top(t))
          /\ db_connections' = db_connections
        BY <1>5, <1>20 DEF CloseUndone, Counts
    <2>2. CASE Replace(t, New("stmt", "refused"))
        <3>1. /\ New("stmt", "refused") \in Query /\ ~Counts(New("stmt", "refused"))
              /\ New("stmt", "refused").at = "refused"
            BY NewQuery DEF New, Counts
        <3> QED BY <1>4, <2>1, <2>2, <3>1
    <2> QED BY <1>p, <1>20, <2>1, <2>2 DEF CloseUndone
<1> QED BY <1>19, <1>20, <1>6, <1>7, <1>8, <1>9, <1>10, <1>11, <1>12, <1>13, <1>14, <1>15, <1>16, <1>17,
           <1>18 DEF Act

\* Where every thread runs the application's code, the queries that are not refused
\* are the counted ones, and the statements.
LEMMA CountTellsThen == CountInv => CountTells
<1> SUFFICES ASSUME CountInv, ~raced, \A t \in crew : InControl(t)
             PROVE  /\ db_connections = Cardinality(Running)
                    /\ db_connections = 0 <=> Idle
    BY DEF CountTells
<1>1. \A t \in crew : stack[t] \in Seq(Query) /\ DOMAIN stack[t] = 1..Len(stack[t])
    BY LenProperties DEF CountInv, HandleInv, HandleTypeOK
<1>2. ASSUME NEW t \in crew, NEW k \in DOMAIN stack[t]
      PROVE  /\ stack[t][k].at \in {"callback", "error", "refused"}
             /\ stack[t][k] \in Query
             /\ stack[t][k].at = "error" => stack[t][k].kind = "stmt"
    <2>1. stack[t] # <<>>
        BY <1>1, <1>2, EmptySeq
    <2> QED BY <1>1, <1>2, <2>1, ElementOfSeq DEF InControl, Top, CountInv, Nested
<1>3. ASSUME NEW t \in crew, NEW k \in DOMAIN stack[t]
      PROVE  /\ Counts(stack[t][k]) <=> stack[t][k].at # "refused"
             /\ Counts(stack[t][k]) <=> Live(stack[t][k])
    BY <1>2, <1>3 DEF Counts, Live, Query
<1>4. Running = Counted
    BY <1>3 DEF Running, Counted
<1>5. Counted = {} <=> Idle
    BY <1>3, InCounted DEF Idle
<1> QED BY <1>4, <1>5, FS_EmptySet DEF CountInv

(* Whenever the application asks, db_connections is the number of the queries    *)
(* under way, and 0 exactly when db_close is not refused, unless two threads     *)
(* once met at the counter. (db.c 196-217, 320-323, 416-503)                      *)
THEOREM HandleCountTells == HandleSpec => []CountTells
<1>1. CountInv /\ [HandleNext]_handleVars => CountInv'
    <2>1. ASSUME CountInv, UNCHANGED handleVars PROVE CountInv'
        <3>1. HandleInv' /\ Nested' /\ Counted' = Counted
            BY <2>1 DEF CountInv, HandleInv, HandleTypeOK, ClosedIsIdle, Idle, Live, Nested, Counted, handleVars
        <3>2. /\ \A u \in crew : (Updating(u)' <=> Updating(u)) /\ Top(u)' = Top(u)
              /\ Race' <=> Race
            BY <2>1 DEF Race, Updating, At, Top, handleVars
        <3> QED BY <2>1, <3>1, <3>2 DEF CountInv, handleVars
    <2> QED BY <2>1, CountStep DEF HandleNext
<1> QED BY <1>1, CountInitial, CountTellsThen, PTL DEF HandleSpec
=============================================================================
