------------------------- MODULE RewriteFleetProofs -------------------------
(***************************************************************************)
(* Proofs about RewriteFleet, for any number of migrators, attempts, keys  *)
(* and seconds: the inductive invariant FleetInv, and from it what the     *)
(* attempts guarantee to the application and to each other.                *)
(***************************************************************************)
EXTENDS RewriteFleetProps, TLAPS

\* A statement of the workload writes one key of the table and moves no row.
LEMMA ChangeInPlace ==
  ASSUME NEW t \in Table, NEW c \in ChangesOn(t)
  PROVE  /\ c.to \in Keys
         /\ Apply(t, c) \in Table
         /\ \A k \in Keys \ {c.to} : Apply(t, c)[k] = t[k]
<1>1. "rekey" \notin Ops
  BY KeptKeysAssumption
<1>2. \E k \in Keys, v \in Vals \cup {NoRow} : c = SetRow(k, v)
  BY <1>1 DEF ChangesOn, Inserts, Appends, Updates, Deletes, Present
<1>3. PICK k \in Keys, v \in Vals \cup {NoRow} : c = SetRow(k, v)
  BY <1>2
<1>4. c.to = k /\ c.from = k /\ c.val = v
  BY <1>3 DEF SetRow
<1> QED
  BY <1>4 DEF Apply, Table

LEMMA EmptyType == Empty \in Table
BY DEF Empty, Table

LEMMA TablesNat == Tables \subseteq Nat /\ 0 \in Tables /\ Nil \notin Tables
BY BoundAssumption, NilAssumption DEF Tables

LEMMA TypeInit == Init => TypeOK
<1> SUFFICES ASSUME Init PROVE TypeOK
  OBVIOUS
<1> USE DEF Init
<1>1. rows \in [Tables -> Table]
  BY EmptyType
<1>2. /\ made \in Tables /\ live \in 0..made
      /\ attempts \in 0..MaxAttempts /\ writes \in 0..MaxWrites
  BY TablesNat, BoundAssumption
<1> QED
  BY <1>1, <1>2 DEF TypeOK

\* What the statement of an attempt needs, by the statement.
LEMMA PossibleAt ==
  ASSUME NEW m \in Migrators, Possible(m)
  PROVE  /\ pc[m] = "createTrigger" => sec[m] \in hasFn /\ <<live, sec[m]>> \notin triggers
         /\ pc[m] \in {"backfill", "upsert", "delete"} => shadowOf[sec[m]] # Nil
         /\ pc[m] \in {"upsert", "delete", "clear"} => sec[m] \in hasLog
         /\ pc[m] = "cutover" => Swappable(sec[m])
BY DEF Possible

\* The table an existing shadow's name stands for.
LEMMA ShadowType ==
  ASSUME TypeOK, NEW s \in Seconds, shadowOf[s] # Nil
  PROVE  shadowOf[s] \in 1..made /\ shadowOf[s] \in Tables
BY TablesNat, BoundAssumption DEF TypeOK, Tables

-----------------------------------------------------------------------------
(* Type correctness. *)

LEMMA TypeNext == TypeOK /\ [Next]_vars => TypeOK'
<1> SUFFICES ASSUME TypeOK, [Next]_vars PROVE TypeOK'
  OBVIOUS
<1> USE DEF TypeOK
<1> USE TablesNat, BoundAssumption
<1>1. CASE Write
  <2>1. PICK c \in ChangesOn(rows[live]) :
          /\ rows' = [rows EXCEPT ![live] = Apply(rows[live], c)]
          /\ log' = [s \in Seconds |-> IF s \in Firing THEN log[s] \cup {c.to} ELSE log[s]]
          /\ raced' = [m \in Migrators |->
               IF pc[m] \in {"delete", "clear"} THEN raced[m] \cup ({c.to} \cap batch[m])
               ELSE raced[m]]
    BY <1>1 DEF Write
  <2>2. live \in Tables /\ rows[live] \in Table
    BY DEF Tables
  <2>3. c.to \in Keys /\ Apply(rows[live], c) \in Table
    BY <2>2, ChangeInPlace
  <2>4. rows' \in [Tables -> Table] /\ log' \in [Seconds -> SUBSET Keys]
    BY <2>1, <2>2, <2>3
  <2>5. raced' \in [Migrators -> SUBSET Keys]
    BY <2>1, <2>3
  <2>6. writes' \in 0..MaxWrites
    BY <1>1 DEF Write
  <2> QED
    BY <1>1, <2>4, <2>5, <2>6 DEF Write, objects, cursors, clock
<1>2. CASE Tick
  BY <1>2 DEF Tick, data, objects, cursors, app
<1>3. ASSUME NEW m \in Migrators, Begin(m) PROVE TypeOK'
  BY <1>3 DEF Begin, data, objects, cursors, Steps
<1>4. ASSUME NEW m \in Migrators, CreateShadow(m) PROVE TypeOK'
  <2>1. CASE shadowOf[sec[m]] = Nil
    <3>1. made' = made + 1 /\ made' \in Tables
      BY <1>4, <2>1 DEF CreateShadow
    <3>2. rows' \in [Tables -> Table]
      BY <1>4, <2>1, <3>1, EmptyType DEF CreateShadow
    <3>3. live' \in 0..made' /\ triggers' \subseteq (0..made') \X Seconds
      BY <1>4, <3>1 DEF CreateShadow
    <3>4. /\ shadowOf' \in [Seconds -> (1..made') \cup {Nil}]
          /\ backupOf' \in [Seconds -> (0..made') \cup {Nil}]
      <4>1. 1..made \subseteq 1..made' /\ 0..made \subseteq 0..made' /\ made + 1 \in 1..made'
        BY <3>1
      <4> QED
        BY <1>4, <2>1, <4>1 DEF CreateShadow
    <3> QED
      BY <1>4, <3>1, <3>2, <3>3, <3>4 DEF CreateShadow, cursors, clock, app, Goto, Steps
  <2>2. CASE shadowOf[sec[m]] # Nil
    BY <1>4, <2>2 DEF CreateShadow, cursors, clock, app, Goto, Steps
  <2> QED
    BY <2>1, <2>2
<1>5. ASSUME NEW m \in Migrators, CreateChangelog(m) PROVE TypeOK'
  BY <1>5 DEF CreateChangelog, cursors, clock, app, Goto, Steps
<1>6. ASSUME NEW m \in Migrators, CreateFunction(m) PROVE TypeOK'
  BY <1>6 DEF CreateFunction, data, cursors, clock, app, Goto, Steps
<1>7. ASSUME NEW m \in Migrators, DropTrigger(m) PROVE TypeOK'
  BY <1>7 DEF DropTrigger, data, cursors, clock, app, Goto, Steps
<1>8. ASSUME NEW m \in Migrators, CreateTrigger(m) PROVE TypeOK'
  BY <1>8 DEF CreateTrigger, data, clock, app, Goto, Steps
<1>9. ASSUME NEW m \in Migrators, BackfillPage(m) PROVE TypeOK'
  <2> DEFINE sh == shadowOf[sec[m]]
  <2>1. sh \in Tables
    BY <1>9, PossibleAt, ShadowType DEF BackfillPage, At
  <2>2. rows' \in [Tables -> Table] /\ todo' \in [Migrators -> SUBSET Keys]
    <3>1. PICK b \in todo[m] \cap Present(rows[live]) :
            /\ rows' = [rows EXCEPT ![sh] = [k \in Keys |->
                 IF k \in UpTo(m, b) /\ @[k] = NoRow THEN rows[live][k] ELSE @[k]]]
            /\ todo' = [todo EXCEPT ![m] = @ \ UpTo(m, b)]
      BY <1>9 DEF BackfillPage
    <3>2. rows[live] \in Table /\ rows[sh] \in Table
      BY <2>1 DEF Tables
    <3> QED
      BY <2>1, <3>1, <3>2 DEF Table
  <2> QED
    BY <1>9, <2>2 DEF BackfillPage, objects, clock, app
<1>10. ASSUME NEW m \in Migrators, BackfillEnd(m) PROVE TypeOK'
  BY <1>10 DEF BackfillEnd, data, objects, clock, app, Goto, Steps
<1>11. ASSUME NEW m \in Migrators, RoundUpsert(m) PROVE TypeOK'
  <2> DEFINE sh == shadowOf[sec[m]]
  <2>1. sh \in Tables
    BY <1>11, PossibleAt, ShadowType DEF RoundUpsert, At
  <2>2. rows' \in [Tables -> Table] /\ batch' \in [Migrators -> SUBSET Keys]
    <3>1. PICK b \in todo[m] \cap log[sec[m]] :
            /\ batch' = [batch EXCEPT ![m] = UpTo(m, b)]
            /\ rows' = [rows EXCEPT ![sh] = [k \in Keys |->
                 IF k \in UpTo(m, b) \cap log[sec[m]] /\ rows[live][k] # NoRow
                 THEN rows[live][k] ELSE @[k]]]
      BY <1>11 DEF RoundUpsert
    <3>2. rows[live] \in Table /\ rows[sh] \in Table
      BY <2>1 DEF Tables
    <3> QED
      BY <2>1, <3>1, <3>2 DEF Table, UpTo
  <2> QED
    BY <1>11, <2>2 DEF RoundUpsert, objects, clock, app, Goto, Steps
<1>12. ASSUME NEW m \in Migrators, RoundDelete(m) PROVE TypeOK'
  <2>1. shadowOf[sec[m]] \in Tables
    BY <1>12, PossibleAt, ShadowType DEF RoundDelete, At
  <2>2. rows' \in [Tables -> Table]
    BY <1>12, <2>1 DEF RoundDelete, Table
  <2> QED
    BY <1>12, <2>2 DEF RoundDelete, objects, cursors, clock, app, Goto, Steps
<1>13. ASSUME NEW m \in Migrators, RoundClear(m) PROVE TypeOK'
  BY <1>13 DEF RoundClear, objects, clock, app, Goto, Steps
<1>14. ASSUME NEW m \in Migrators, CatchUpEnd(m) PROVE TypeOK'
  BY <1>14 DEF CatchUpEnd, data, objects, cursors, clock, app, Goto, Steps
<1>15. ASSUME NEW m \in Migrators, Cutover(m) PROVE TypeOK'
  <2>1. shadowOf[sec[m]] \in 1..made /\ shadowOf[sec[m]] \in Tables
    BY <1>15, PossibleAt, ShadowType DEF Cutover, At, Swappable
  <2>2. Drained(sec[m]) \in Table
    <3>1. rows[live] \in Table /\ rows[shadowOf[sec[m]]] \in Table
      BY <2>1 DEF Tables
    <3> QED
      BY <3>1 DEF Drained, Table
  <2>3. rows' \in [Tables -> Table] /\ live' \in 0..made
    BY <1>15, <2>1, <2>2 DEF Cutover
  <2>4. overtaken' \subseteq Migrators
    BY <1>15 DEF Cutover
  <2> QED
    BY <1>15, <2>1, <2>3, <2>4 DEF Cutover, cursors, clock, app, Goto, Steps
<1>16. ASSUME NEW m \in Migrators, Refused(m) PROVE TypeOK'
  BY <1>16 DEF Refused, data, objects, cursors, clock, app, Goto, Steps
<1>17. ASSUME NEW m \in Migrators, Fault(m) PROVE TypeOK'
  BY <1>17 DEF Fault, data, objects, cursors, clock, app, Goto, Steps
<1>18. CASE UNCHANGED vars
  BY <1>18 DEF vars, data, objects, cursors, clock, app
<1> QED
  BY <1>1, <1>2, <1>3, <1>4, <1>5, <1>6, <1>7, <1>8, <1>9, <1>10, <1>11, <1>12, <1>13,
     <1>14, <1>15, <1>16, <1>17, <1>18 DEF Next, Advance

-----------------------------------------------------------------------------
(* What a statement of one attempt leaves alone.                             *)

Statement(m) == Advance(m) \/ Fault(m)

\* It moves no other migrator, and neither the clock nor what was raced.
LEMMA OthersStay ==
  ASSUME TypeOK, NEW m \in Migrators, Statement(m)
  PROVE  /\ pc[m] \in Steps /\ pc'[m] # "idle"
         /\ \A n \in Migrators \ {m} :
              pc'[n] = pc[n] /\ todo'[n] = todo[n] /\ batch'[n] = batch[n]
         /\ sec' = sec /\ drawn' = drawn /\ shared' = shared /\ raced' = raced
         /\ writes' = writes /\ attempts' = attempts
BY DEF TypeOK, Statement, Advance, CreateShadow, CreateChangelog, CreateFunction,
   DropTrigger, CreateTrigger, BackfillPage, BackfillEnd, RoundUpsert, RoundDelete,
   RoundClear, CatchUpEnd, Cutover, Refused, Fault, At, Goto, Steps, data, objects,
   cursors, clock, app

\* The names of other seconds keep their objects.
LEMMA NamesApart ==
  ASSUME TypeOK, NEW m \in Migrators, Statement(m), NEW s \in Seconds, s # sec[m]
  PROVE  /\ shadowOf'[s] = shadowOf[s] /\ backupOf'[s] = backupOf[s]
         /\ (s \in hasLog') = (s \in hasLog) /\ (s \in hasFn') = (s \in hasFn)
         /\ log'[s] = log[s]
         /\ \A t \in Tables : (<<t, s>> \in triggers') = (<<t, s>> \in triggers)
BY DEF TypeOK, Statement, Advance, CreateShadow, CreateChangelog, CreateFunction,
   DropTrigger, CreateTrigger, BackfillPage, BackfillEnd, RoundUpsert, RoundDelete,
   RoundClear, CatchUpEnd, Cutover, Refused, Fault, At, Goto, Steps, data, objects,
   cursors, clock, app

\* It changes the rows of its shadow, or of a table it creates, and of no other.
LEMMA RowsApart ==
  ASSUME TypeOK, NEW m \in Migrators, Statement(m), NEW t \in 0..made,
         t # shadowOf[sec[m]]
  PROVE  rows'[t] = rows[t]
<1>1. t \in Tables /\ t # made + 1
  BY TablesNat, BoundAssumption DEF TypeOK, Tables
<1>2. CASE CreateShadow(m)
  BY <1>1, <1>2 DEF CreateShadow, TypeOK
<1>3. CASE \E new : rows' = [rows EXCEPT ![shadowOf[sec[m]]] = new]
  BY <1>1, <1>3 DEF TypeOK
<1>4. CASE UNCHANGED rows
  BY <1>4
<1>5. CASE BackfillPage(m)
  BY <1>3, <1>5 DEF BackfillPage
<1>6. CASE RoundUpsert(m)
  BY <1>3, <1>6 DEF RoundUpsert
<1>7. CASE RoundDelete(m) \/ Cutover(m)
  BY <1>3, <1>7 DEF RoundDelete, Cutover
<1> QED
  BY <1>2, <1>4, <1>5, <1>6, <1>7 DEF Statement, Advance, CreateChangelog, CreateFunction,
     DropTrigger, CreateTrigger, BackfillEnd, RoundClear, CatchUpEnd, Refused, Fault, data

\* Only the cutover moves the application's name.
LEMMA LiveStays ==
  ASSUME NEW m \in Migrators, Statement(m), ~Cutover(m)
  PROVE  /\ live' = live /\ backupOf' = backupOf
         /\ \A n \in Migrators \ {m} : (n \in overtaken') = (n \in overtaken)
BY DEF Statement, Advance, CreateShadow, CreateChangelog,
   CreateFunction, DropTrigger, CreateTrigger, BackfillPage, BackfillEnd, RoundUpsert,
   RoundDelete, RoundClear, CatchUpEnd, Refused, Fault, At, Goto, data, objects,
   cursors, clock, app

-----------------------------------------------------------------------------
(* The parts of the invariant, one by one. *)

LEMMA SecondsNext == TypeOK /\ SecondsOK /\ [Next]_vars => SecondsOK'
<1> SUFFICES ASSUME TypeOK, SecondsOK, [Next]_vars PROVE SecondsOK'
  OBVIOUS
<1>1. CASE Write \/ Tick \/ UNCHANGED vars
  BY <1>1 DEF SecondsOK, Unnamed, Write, Tick, vars, data, objects, cursors, clock, app
<1>2. ASSUME NEW m \in Migrators, Begin(m) PROVE SecondsOK'
  <2>1. /\ sec' = [sec EXCEPT ![m] = now] /\ pc' = [pc EXCEPT ![m] = "shadow"]
        /\ shared' = shared \cup ({now} \cap drawn) /\ drawn' = drawn \cup {now}
        /\ UNCHANGED objects
    BY <1>2 DEF Begin
  <2>2. \A n \in Migrators : pc'[n] # "idle" => sec'[n] \in drawn'
    BY <2>1 DEF SecondsOK, TypeOK
  <2>3. \A n, o \in Migrators :
          n # o /\ pc'[n] # "idle" /\ pc'[o] # "idle" /\ sec'[n] = sec'[o]
            => sec'[n] \in shared'
    BY <2>1 DEF SecondsOK, TypeOK
  <2>4. \A s \in Seconds \ drawn' : Unnamed(s)'
    BY <2>1 DEF SecondsOK, Unnamed, objects
  <2> QED
    BY <2>2, <2>3, <2>4 DEF SecondsOK
<1>3. ASSUME NEW m \in Migrators, Statement(m) PROVE SecondsOK'
  <2>1. sec[m] \in drawn /\ drawn' = drawn
    BY <1>3, OthersStay DEF SecondsOK, Steps
  <2>2. \A s \in Seconds \ drawn' : Unnamed(s)'
    BY <1>3, <2>1, NamesApart DEF SecondsOK, Unnamed
  <2>3. \A n \in Migrators : pc'[n] # "idle" => pc[n] # "idle"
    BY <1>3, OthersStay DEF Steps
  <2> QED
    BY <1>3, <2>2, <2>3, OthersStay DEF SecondsOK
<1> QED
  BY <1>1, <1>2, <1>3 DEF Next, Statement

LEMMA NamesNext == TypeOK /\ NamesOK /\ [Next]_vars => NamesOK'
<1> SUFFICES ASSUME TypeOK, NamesOK, [Next]_vars PROVE NamesOK'
  OBVIOUS
<1>1. CASE UNCHANGED objects
  BY <1>1 DEF NamesOK, Used, objects
<1>2. ASSUME NEW m \in Migrators, CreateShadow(m) PROVE NamesOK'
  <2>1. CASE shadowOf[sec[m]] = Nil
    <3>1. /\ shadowOf' = [shadowOf EXCEPT ![sec[m]] = made + 1]
          /\ live' = live /\ backupOf' = backupOf /\ triggers' = triggers
      BY <1>2, <2>1 DEF CreateShadow
    <3>2. \A s \in Seconds : shadowOf[s] # made + 1 /\ backupOf[s] # made + 1
      BY TablesNat, NilAssumption DEF TypeOK
    <3>3. live # made + 1 /\ \A r \in Seconds : <<made + 1, r>> \notin triggers
      BY TablesNat DEF TypeOK
    <3> QED
      BY <3>1, <3>2, <3>3, <1>2 DEF NamesOK, Used, TypeOK
  <2>2. CASE shadowOf[sec[m]] # Nil
    BY <1>2, <2>2 DEF CreateShadow, NamesOK, Used
  <2> QED
    BY <2>1, <2>2
<1>3. ASSUME NEW m \in Migrators,
             CreateChangelog(m) \/ CreateFunction(m) \/ DropTrigger(m)
      PROVE  NamesOK'
  BY <1>3 DEF CreateChangelog, CreateFunction, DropTrigger, NamesOK, Used
<1>4. ASSUME NEW m \in Migrators, CreateTrigger(m) PROVE NamesOK'
  BY <1>4 DEF CreateTrigger, NamesOK, Used
<1>5. ASSUME NEW m \in Migrators, Cutover(m) PROVE NamesOK'
  <2> DEFINE s == sec[m]
  <2>1. /\ live' = shadowOf[s] /\ shadowOf' = [shadowOf EXCEPT ![s] = Nil]
        /\ backupOf' = [backupOf EXCEPT ![s] = live]
        /\ triggers' = triggers \ {<<live, s>>}
    BY <1>5 DEF Cutover
  <2>2. shadowOf[s] # Nil
    BY <1>5, PossibleAt DEF Cutover, At, Swappable
  <2>3. s \in Seconds
    BY DEF TypeOK
  <2>4. \A r \in Seconds : shadowOf'[r] # Nil => r # s /\ shadowOf'[r] = shadowOf[r]
    BY <2>1, <2>3 DEF TypeOK
  <2>5. \A r \in Seconds : shadowOf'[r] # Nil => shadowOf'[r] \notin Used'
    BY <2>1, <2>2, <2>3, <2>4 DEF NamesOK, Used, TypeOK
  <2> QED
    BY <2>1, <2>4, <2>5 DEF NamesOK
<1> QED
  BY <1>1, <1>2, <1>3, <1>4, <1>5
     DEF Next, Advance, Write, Tick, Begin, BackfillPage, BackfillEnd, RoundUpsert,
         RoundDelete, RoundClear, CatchUpEnd, Refused, Fault, vars

OwnOK == \A m \in Migrators : Own(m) => OwnObjects(m)

RecordedOK ==
  \A m \in Migrators : Own(m) /\ pc[m] \in Mirroring /\ m \notin overtaken => OwnRecorded(m)

\* Only the cutover drops a changelog, and it gives its second a backup.
LEMMA LogsNext == TypeOK /\ LogsReady /\ [Next]_vars => LogsReady'
<1> SUFFICES ASSUME TypeOK, LogsReady, [Next]_vars PROVE LogsReady'
  OBVIOUS
<1>1. ASSUME NEW m \in Migrators, Begin(m) PROVE LogsReady'
  BY <1>1 DEF LogsReady, Begin, TypeOK, objects
<1>2. ASSUME NEW m \in Migrators, CreateChangelog(m) PROVE LogsReady'
  BY <1>2 DEF LogsReady, CreateChangelog, At, Goto, clock, TypeOK
<1>3. ASSUME NEW m \in Migrators, Cutover(m) PROVE LogsReady'
  <2>1. live # Nil
    BY NilAssumption, BoundAssumption DEF TypeOK, Tables
  <2>2. /\ backupOf' = [backupOf EXCEPT ![sec[m]] = live] /\ hasLog' = hasLog \ {sec[m]}
        /\ pc' = [pc EXCEPT ![m] = "done"] /\ sec' = sec
    BY <1>3 DEF Cutover, Goto, clock
  <2>3. \A n \in Migrators : sec[n] \in Seconds
    BY DEF TypeOK
  <2>4. \A n \in Migrators : pc'[n] \in Steps => pc'[n] = pc[n]
    BY <2>2 DEF TypeOK, Steps
  <2>5. \A n \in Migrators :
          backupOf'[sec[n]] = Nil => sec[n] # sec[m] /\ backupOf[sec[n]] = Nil
    BY <2>1, <2>2, <2>3 DEF TypeOK
  <2> QED
    BY <2>2, <2>4, <2>5 DEF LogsReady
<1>4. ASSUME NEW m \in Migrators,
             \/ CreateShadow(m) \/ CreateFunction(m) \/ DropTrigger(m) \/ CreateTrigger(m)
             \/ BackfillPage(m) \/ BackfillEnd(m) \/ RoundUpsert(m) \/ RoundDelete(m)
             \/ RoundClear(m) \/ CatchUpEnd(m) \/ Refused(m) \/ Fault(m)
      PROVE  LogsReady'
  <2>1. backupOf' = backupOf /\ hasLog' = hasLog /\ sec' = sec
    BY <1>4 DEF CreateShadow, CreateFunction, DropTrigger, CreateTrigger, BackfillPage,
       BackfillEnd, RoundUpsert, RoundDelete, RoundClear, CatchUpEnd, Refused, Fault,
       objects, clock
  <2>2. /\ \A n \in Migrators \ {m} : pc'[n] = pc[n]
        /\ pc'[m] \in Steps \ {"shadow", "changelog"} =>
             pc[m] \in Steps \ {"shadow", "changelog"}
    BY <1>4 DEF CreateShadow, CreateFunction, DropTrigger, CreateTrigger, BackfillPage,
       BackfillEnd, RoundUpsert, RoundDelete, RoundClear, CatchUpEnd, Refused, Fault,
       At, Goto, TypeOK, Steps
  <2> QED
    BY <2>1, <2>2 DEF LogsReady
<1>5. CASE Write \/ Tick \/ UNCHANGED vars
  BY <1>5 DEF LogsReady, Write, Tick, vars, objects, clock
<1> QED
  BY <1>1, <1>2, <1>3, <1>4, <1>5 DEF Next, Advance

LEMMA TriggersNext ==
  TypeOK /\ OwnOK /\ LogsReady /\ TriggersComplete /\ [Next]_vars => TriggersComplete'
<1> SUFFICES ASSUME TypeOK, OwnOK, LogsReady, TriggersComplete, [Next]_vars PROVE TriggersComplete'
  OBVIOUS
<1>1. CASE UNCHANGED objects /\ shared \subseteq shared'
  BY <1>1 DEF TriggersComplete, Exposed, objects
<1>2. ASSUME NEW m \in Migrators,
             \/ CreateShadow(m) \/ CreateChangelog(m) \/ CreateFunction(m) \/ DropTrigger(m)
      PROVE  TriggersComplete'
  BY <1>2 DEF TriggersComplete, Exposed, CreateShadow, CreateChangelog, CreateFunction,
     DropTrigger, data, clock
<1>3. ASSUME NEW m \in Migrators, CreateTrigger(m) PROVE TriggersComplete'
  <2>1. /\ triggers' = triggers \cup {<<live, sec[m]>>}
        /\ hasFn' = hasFn /\ hasLog' = hasLog /\ Exposed' = Exposed
    BY <1>3 DEF CreateTrigger, clock, Exposed
  <2>2. sec[m] \in hasFn
    BY <1>3, PossibleAt DEF CreateTrigger, At
  <2>3. pc[m] = "createTrigger" /\ sec[m] \in Seconds
    BY <1>3 DEF CreateTrigger, At, TypeOK
  \* If there is a backup of that second, another attempt of the second has swapped.
  <2>4. backupOf[sec[m]] # Nil => sec[m] \in shared
    BY <2>3 DEF OwnOK, Own, OwnObjects, Steps
  <2>5. sec[m] \notin Exposed => sec[m] \in hasLog
    BY <2>3, <2>4 DEF Exposed, LogsReady, Steps
  <2> QED
    BY <2>1, <2>2, <2>5 DEF TriggersComplete
<1>4. ASSUME NEW m \in Migrators, Cutover(m) PROVE TriggersComplete'
  <2>1. \A t \in Tables \ {live} : <<t, sec[m]>> \notin triggers
    BY <1>4, PossibleAt DEF Cutover, At, Swappable, Blocked
  <2>2. \A s \in Seconds \ {sec[m]} : s \in Exposed <=> s \in Exposed'
    BY <1>4 DEF Cutover, clock, Exposed, TypeOK
  <2> QED
    BY <1>4, <2>1, <2>2 DEF TriggersComplete, Cutover, clock
<1> QED
  BY <1>1, <1>2, <1>3, <1>4
     DEF Next, Advance, Write, Tick, Begin, BackfillPage, BackfillEnd, RoundUpsert,
         RoundDelete, RoundClear, CatchUpEnd, Refused, Fault, vars, objects, clock

\* Two attempts whose seconds are their own have different ones.
LEMMA OwnApart ==
  ASSUME TypeOK, SecondsOK, NEW m \in Migrators, Statement(m),
         NEW n \in Migrators \ {m}, Own(n)'
  PROVE  /\ Own(n) /\ sec[n] \in Seconds /\ sec'[n] = sec[n] /\ sec[n] # sec[m]
         /\ pc'[n] = pc[n]
<1>1. /\ pc[m] \in Steps /\ pc'[n] = pc[n]
      /\ sec' = sec /\ shared' = shared
  BY OthersStay
<1>2. Own(n)
  BY <1>1 DEF Own
<1>3. pc[m] # "idle" /\ pc[n] # "idle"
  BY <1>1, <1>2 DEF Own, Steps
<1> QED
  BY <1>1, <1>2, <1>3 DEF SecondsOK, Own, TypeOK

\* The rows an attempt's shadow holds do not change under another's statement.
LEMMA ShadowApart ==
  ASSUME TypeOK, NamesOK, NEW m \in Migrators, Statement(m),
         NEW s \in Seconds, s # sec[m], shadowOf[s] # Nil
  PROVE  rows'[shadowOf[s]] = rows[shadowOf[s]]
<1>1. shadowOf[s] \in 0..made
  BY ShadowType, TablesNat DEF TypeOK
<1>2. shadowOf[s] # shadowOf[sec[m]]
  BY DEF NamesOK, TypeOK
<1> QED
  BY <1>1, <1>2, RowsApart

LEMMA OwnOthers ==
  ASSUME TypeOK, SecondsOK, NamesOK, OwnOK, NEW m \in Migrators, Statement(m),
         NEW n \in Migrators \ {m}, Own(n)'
  PROVE  OwnObjects(n)'
<1> DEFINE s == sec[n]
<1>1. /\ OwnObjects(n) /\ s \in Seconds /\ s # sec[m]
      /\ sec'[n] = s /\ pc'[n] = pc[n]
  BY OwnApart DEF OwnOK
<1>2. /\ shadowOf'[s] = shadowOf[s] /\ backupOf'[s] = backupOf[s]
      /\ (s \in hasLog') = (s \in hasLog) /\ (s \in hasFn') = (s \in hasFn)
      /\ log'[s] = log[s]
      /\ \A t \in Tables : (<<t, s>> \in triggers') = (<<t, s>> \in triggers)
  BY <1>1, NamesApart
<1>3. shadowOf[s] # Nil => rows'[shadowOf[s]] = rows[shadowOf[s]]
  BY <1>1, ShadowApart
<1>4. live \in Tables
  BY BoundAssumption DEF TypeOK, Tables
<1>5. pc[n] \in Mirroring =>
        IF n \in overtaken' THEN Blocked(s)' ELSE <<live', s>> \in triggers'
  <2>1. CASE ~Cutover(m)
    BY <1>1, <1>2, <1>4, <2>1, LiveStays DEF OwnObjects, Blocked
  <2>2. CASE Cutover(m)
    <3>1. live' = shadowOf[sec[m]] /\ shadowOf[sec[m]] # Nil
      BY <2>2, PossibleAt DEF Cutover, At, Swappable
    <3>2. live' # live /\ <<live', s>> \notin triggers
      BY <1>1, <3>1 DEF NamesOK, Used, TypeOK
    <3>3. pc[n] \in Mirroring => n \in overtaken'
      BY <2>2 DEF Cutover
    <3>4. pc[n] \in Mirroring => \E t \in Tables : t # live' /\ <<t, s>> \in triggers'
      BY <1>1, <1>2, <1>4, <3>2 DEF OwnObjects, Blocked
    <3> QED
      BY <1>1, <3>3, <3>4 DEF Blocked
  <2> QED
    BY <2>1, <2>2
<1> QED
  BY <1>1, <1>2, <1>3, <1>5 DEF OwnObjects, Mirroring

\* A statement of the attempt itself.
LEMMA OwnStatement ==
  ASSUME TypeOK, NamesOK, OwnOK, NEW m \in Migrators, Statement(m), Own(m)'
  PROVE  OwnObjects(m)'
<1> DEFINE s == sec[m]
<1>1. /\ Own(m) /\ OwnObjects(m) /\ s \in Seconds /\ sec'[m] = s
  BY OthersStay DEF OwnOK, Own, TypeOK
<1>2. Tables' = Tables /\ live \in Tables
  BY BoundAssumption DEF TypeOK, Tables
<1> USE DEF OwnObjects, Mirroring, Steps, At, Goto
<1>3. CASE CreateShadow(m)
  <2>1. shadowOf[s] = Nil /\ made + 1 # Nil
    BY <1>1, <1>3, NilAssumption, TablesNat DEF CreateShadow, TypeOK
  <2> QED
    BY <1>1, <1>3, <2>1 DEF CreateShadow, TypeOK
<1>4. CASE CreateChangelog(m)
  BY <1>1, <1>4 DEF CreateChangelog, TypeOK
<1>5. CASE CreateFunction(m)
  BY <1>1, <1>5 DEF CreateFunction, data, TypeOK
<1>6. CASE DropTrigger(m)
  BY <1>1, <1>6 DEF DropTrigger, data, TypeOK
<1>7. CASE CreateTrigger(m)
  <2>1. pc'[m] = "backfill" /\ m \notin overtaken' /\ <<live', s>> \in triggers'
    BY <1>1, <1>7 DEF CreateTrigger, TypeOK
  <2> QED
    BY <1>1, <1>7, <2>1 DEF CreateTrigger, data, TypeOK
<1>8. CASE \/ BackfillPage(m) \/ BackfillEnd(m) \/ RoundUpsert(m) \/ RoundDelete(m)
           \/ RoundClear(m) \/ CatchUpEnd(m)
  <2>1. pc[m] \in Mirroring /\ pc'[m] \in Mirroring
    BY <1>8 DEF BackfillPage, BackfillEnd, RoundUpsert, RoundDelete, RoundClear, CatchUpEnd,
       TypeOK
  <2>2. UNCHANGED objects /\ overtaken' = overtaken
    BY <1>8 DEF BackfillPage, BackfillEnd, RoundUpsert, RoundDelete, RoundClear, CatchUpEnd,
       objects
  <2> QED
    BY <1>1, <2>1, <2>2 DEF objects, Blocked
<1>9. CASE Cutover(m) \/ Refused(m) \/ Fault(m)
  <2>1. pc'[m] \notin Steps
    BY <1>9 DEF Cutover, Refused, Fault, TypeOK
  <2> QED
    BY <2>1 DEF Own
<1> QED
  BY <1>3, <1>4, <1>5, <1>6, <1>7, <1>8, <1>9 DEF Statement, Advance

LEMMA OwnBegin ==
  ASSUME TypeOK, SecondsOK, OwnOK, NEW m \in Migrators, Begin(m),
         NEW n \in Migrators, Own(n)'
  PROVE  OwnObjects(n)'
<1>1. /\ sec' = [sec EXCEPT ![m] = now] /\ pc' = [pc EXCEPT ![m] = "shadow"]
      /\ shared' = shared \cup ({now} \cap drawn) /\ overtaken' = overtaken \ {m}
      /\ UNCHANGED <<objects, data>>
  BY DEF Begin
<1>2. CASE n = m
  <2>1. pc'[n] = "shadow" /\ sec'[n] = now /\ now \in Seconds \ drawn
    BY <1>1, <1>2 DEF Own, TypeOK
  <2> QED
    BY <1>1, <2>1 DEF SecondsOK, Unnamed, OwnObjects, objects, Mirroring
<1>3. CASE n # m
  <2>1. pc'[n] = pc[n] /\ sec'[n] = sec[n] /\ (n \in overtaken') = (n \in overtaken)
    BY <1>1, <1>3 DEF TypeOK
  <2>2. OwnObjects(n)
    BY <1>1, <2>1 DEF Own, OwnOK
  <2> QED
    BY <1>1, <2>1, <2>2 DEF OwnObjects, objects, data, Blocked
<1> QED
  BY <1>2, <1>3

\* What a statement of the application changes.
LEMMA WriteEffect ==
  ASSUME TypeOK, Write
  PROVE  \E k \in Keys :
           /\ \A t \in Tables : t # live => rows'[t] = rows[t]
           /\ \A j \in Keys \ {k} : rows'[live][j] = rows[live][j]
           /\ \A s \in Seconds : log'[s] = IF s \in Firing THEN log[s] \cup {k} ELSE log[s]
           /\ \A m \in Migrators :
                /\ raced[m] \subseteq raced'[m]
                /\ pc[m] \in {"delete", "clear"} /\ k \in batch[m] => k \in raced'[m]
<1>1. PICK c \in ChangesOn(rows[live]) :
        /\ rows' = [rows EXCEPT ![live] = Apply(rows[live], c)]
        /\ log' = [s \in Seconds |-> IF s \in Firing THEN log[s] \cup {c.to} ELSE log[s]]
        /\ raced' = [m \in Migrators |->
             IF pc[m] \in {"delete", "clear"} THEN raced[m] \cup ({c.to} \cap batch[m])
             ELSE raced[m]]
  BY DEF Write
<1>2. live \in Tables
  BY BoundAssumption DEF TypeOK, Tables
<1>3. c.to \in Keys /\ \A j \in Keys \ {c.to} : Apply(rows[live], c)[j] = rows[live][j]
  BY <1>2, ChangeInPlace DEF TypeOK
<1>4. rows'[live] = Apply(rows[live], c)
  BY <1>1, <1>2 DEF TypeOK
<1>5. \A t \in Tables : t # live => rows'[t] = rows[t]
  BY <1>1 DEF TypeOK
<1>6. \A m \in Migrators :
        /\ raced[m] \subseteq raced'[m]
        /\ pc[m] \in {"delete", "clear"} /\ c.to \in batch[m] => c.to \in raced'[m]
  BY <1>1 DEF TypeOK
<1>7. \A s \in Seconds : log'[s] = IF s \in Firing THEN log[s] \cup {c.to} ELSE log[s]
  BY <1>1
<1>8. c.to \in Keys /\ \A j \in Keys \ {c.to} : rows'[live][j] = rows[live][j]
  BY <1>3, <1>4
<1> QED
  BY <1>5, <1>6, <1>7, <1>8

LEMMA OwnWrite ==
  ASSUME TypeOK, NamesOK, OwnOK, Write, NEW m \in Migrators, Own(m)
  PROVE  OwnObjects(m)'
<1> DEFINE s == sec[m]
<1>1. OwnObjects(m) /\ s \in Seconds
  BY DEF OwnOK, TypeOK
<1>2. UNCHANGED <<objects, pc, sec, overtaken>>
  BY DEF Write, clock
<1>3. pc[m] \notin Mirroring => s \notin Firing
  <2>1. live \in Tables
    BY BoundAssumption DEF TypeOK, Tables
  <2> QED
    BY <1>1, <2>1 DEF OwnObjects, Firing
<1>4. pc[m] \notin Mirroring => log'[s] = log[s]
  BY <1>1, <1>3, WriteEffect
<1>5. shadowOf[s] # Nil => rows'[shadowOf[s]] = rows[shadowOf[s]]
  <2> SUFFICES ASSUME shadowOf[s] # Nil PROVE rows'[shadowOf[s]] = rows[shadowOf[s]]
    OBVIOUS
  <2>1. shadowOf[s] \in Tables /\ shadowOf[s] # live
    BY <1>1, ShadowType DEF NamesOK, Used
  <2> QED
    BY <2>1, WriteEffect
<1> QED
  BY <1>1, <1>2, <1>4, <1>5 DEF OwnObjects, objects, Blocked

-----------------------------------------------------------------------------
(* What is not the same in the shadow is recorded. *)

LEMMA RecordedOthers ==
  ASSUME TypeOK, SecondsOK, NamesOK, OwnOK, RecordedOK, NEW m \in Migrators, Statement(m),
         NEW n \in Migrators \ {m}, Own(n)', pc'[n] \in Mirroring, n \notin overtaken'
  PROVE  OwnRecorded(n)'
<1> DEFINE s == sec[n]
<1>1. /\ Own(n) /\ OwnObjects(n) /\ s \in Seconds /\ s # sec[m]
      /\ sec'[n] = s /\ pc'[n] = pc[n]
  BY OwnApart DEF OwnOK
<1>2. ~Cutover(m)
  BY <1>1 DEF Cutover
<1>3. live' = live /\ n \notin overtaken
  BY <1>2, LiveStays
<1>4. OwnRecorded(n)
  BY <1>1, <1>3 DEF RecordedOK
<1>5. shadowOf'[s] = shadowOf[s] /\ log'[s] = log[s]
  BY <1>1, NamesApart
<1>6. todo'[n] = todo[n] /\ batch'[n] = batch[n] /\ raced'[n] = raced[n]
  BY OthersStay
<1>7. rows'[shadowOf[s]] = rows[shadowOf[s]]
  BY <1>1, ShadowApart DEF OwnObjects, Mirroring
<1>8. rows'[live] = rows[live]
  <2>1. live # shadowOf[sec[m]]
    BY NilAssumption, TablesNat DEF NamesOK, Used, TypeOK
  <2> QED
    BY <2>1, RowsApart DEF TypeOK
<1> QED
  BY <1>1, <1>3, <1>4, <1>5, <1>6, <1>7, <1>8 DEF OwnRecorded

LEMMA RecordedStatement ==
  ASSUME TypeOK, NamesOK, OwnOK, RecordedOK, NEW m \in Migrators, Statement(m),
         Own(m)', pc'[m] \in Mirroring, m \notin overtaken'
  PROVE  OwnRecorded(m)'
<1> DEFINE s == sec[m]
           sh == shadowOf[s]
<1>1. /\ Own(m) /\ OwnObjects(m) /\ s \in Seconds /\ sec'[m] = s /\ raced'[m] = raced[m]
  BY OthersStay DEF OwnOK, Own, TypeOK
<1>2. pc[m] # "shadow" => sh \in Tables /\ sh # live /\ rows[sh] \in Table
  BY <1>1, ShadowType DEF OwnObjects, NamesOK, Used, TypeOK
<1>3. live \in Tables /\ rows[live] \in Table
  BY BoundAssumption DEF TypeOK, Tables
<1>4. CASE CreateTrigger(m)
  <2>1. /\ pc[m] = "createTrigger" /\ pc'[m] = "backfill" /\ todo'[m] = Keys
        /\ UNCHANGED <<rows, log, live, shadowOf>>
    BY <1>4 DEF CreateTrigger, At, Goto, data, TypeOK
  <2>2. rows[sh] = Empty
    BY <1>1, <2>1 DEF OwnObjects, Mirroring
  <2> QED
    BY <1>1, <2>1, <2>2 DEF OwnRecorded, Empty
<1> DEFINE Equal(k) == rows[sh][k] = rows[live][k]
<1>5. ASSUME pc[m] \in Mirroring, ~Cutover(m)
      PROVE  /\ live' = live /\ OwnRecorded(m)
  BY <1>1, <1>5, LiveStays DEF RecordedOK, Statement, Advance, Mirroring, CreateShadow,
     CreateChangelog, CreateFunction, DropTrigger, CreateTrigger, At, BackfillPage, BackfillEnd,
     RoundUpsert, RoundDelete, RoundClear, CatchUpEnd, Refused, Fault
<1>6. CASE BackfillPage(m)
  <2>1. PICK b \in todo[m] \cap Present(rows[live]) :
          /\ rows' = [rows EXCEPT ![sh] = [k \in Keys |->
               IF k \in UpTo(m, b) /\ @[k] = NoRow THEN rows[live][k] ELSE @[k]]]
          /\ todo' = [todo EXCEPT ![m] = @ \ UpTo(m, b)]
    BY <1>6 DEF BackfillPage
  <2>2. pc[m] = "backfill" /\ UNCHANGED <<pc, log, shadowOf, batch>> /\ live' = live
    BY <1>6 DEF BackfillPage, At, objects
  <2>3. OwnRecorded(m)
    BY <1>1, <1>5, <1>6, <2>2 DEF Mirroring, BackfillPage, Cutover, At
  <2>4. /\ rows'[live] = rows[live] /\ todo'[m] = todo[m] \ UpTo(m, b)
        /\ \A k \in Keys : rows'[sh][k] = IF k \in UpTo(m, b) /\ rows[sh][k] = NoRow
                                         THEN rows[live][k] ELSE rows[sh][k]
    BY <1>2, <1>3, <2>1, <2>2 DEF TypeOK
  <2>5. UpTo(m, b) \subseteq todo[m] /\ todo[m] \subseteq Keys
    BY DEF UpTo, TypeOK
  <2> QED
    BY <1>1, <2>2, <2>3, <2>4, <2>5 DEF OwnRecorded
<1>7. CASE BackfillEnd(m)
  <2>1. /\ pc[m] = "backfill" /\ pc'[m] = "upsert" /\ UNCHANGED <<rows, log, shadowOf, live>>
        /\ todo[m] \cap Present(rows[live]) = {}
    BY <1>7 DEF BackfillEnd, At, Goto, data, objects, TypeOK
  <2>2. OwnRecorded(m)
    BY <1>1, <1>5, <1>7, <2>1 DEF Mirroring, BackfillEnd, Cutover, At
  <2>3. \A k \in todo[m] : rows[live][k] = NoRow
    BY <2>1 DEF Present, TypeOK
  <2> QED
    BY <1>1, <2>1, <2>2, <2>3 DEF OwnRecorded
<1>8. CASE RoundUpsert(m)
  <2>1. PICK b \in todo[m] \cap log[s] :
          /\ batch' = [batch EXCEPT ![m] = UpTo(m, b)]
          /\ rows' = [rows EXCEPT ![sh] = [k \in Keys |->
               IF k \in UpTo(m, b) \cap log[s] /\ rows[live][k] # NoRow
               THEN rows[live][k] ELSE @[k]]]
    BY <1>8 DEF RoundUpsert
  <2>2. /\ pc[m] = "upsert" /\ pc'[m] = "delete" /\ UNCHANGED <<log, shadowOf, todo, live>>
    BY <1>8 DEF RoundUpsert, At, Goto, objects, TypeOK
  <2>3. OwnRecorded(m)
    BY <1>1, <1>5, <1>8, <2>2 DEF Mirroring, RoundUpsert, Cutover, At
  <2>4. /\ rows'[live] = rows[live] /\ batch'[m] = UpTo(m, b)
        /\ \A k \in Keys : rows'[sh][k] =
             IF k \in UpTo(m, b) \cap log[s] /\ rows[live][k] # NoRow
             THEN rows[live][k] ELSE rows[sh][k]
    BY <1>2, <1>3, <2>1, <2>2 DEF TypeOK
  <2> QED
    BY <1>1, <2>2, <2>3, <2>4 DEF OwnRecorded
<1>9. CASE RoundDelete(m)
  <2>1. /\ pc[m] = "delete" /\ pc'[m] = "clear"
        /\ UNCHANGED <<log, shadowOf, todo, batch, live>>
    BY <1>9 DEF RoundDelete, At, Goto, objects, cursors, TypeOK
  <2>2. OwnRecorded(m)
    BY <1>1, <1>5, <1>9, <2>1 DEF Mirroring, RoundDelete, Cutover, At
  <2>3. /\ rows'[live] = rows[live]
        /\ \A k \in Keys : rows'[sh][k] =
             IF k \in batch[m] \cap log[s] /\ rows[live][k] = NoRow THEN NoRow
             ELSE rows[sh][k]
    BY <1>2, <1>3, <1>9, <2>1 DEF RoundDelete, TypeOK
  <2> QED
    BY <1>1, <2>1, <2>2, <2>3 DEF OwnRecorded
<1>10. CASE RoundClear(m)
  <2>1. /\ pc[m] = "clear" /\ pc'[m] = "upsert" /\ UNCHANGED <<rows, shadowOf, live>>
        /\ log'[s] = log[s] \ batch[m]
    BY <1>1, <1>10 DEF RoundClear, At, Goto, objects, TypeOK
  <2>2. OwnRecorded(m)
    BY <1>1, <1>5, <1>10, <2>1 DEF Mirroring, RoundClear, Cutover, At
  <2> QED
    BY <1>1, <2>1, <2>2 DEF OwnRecorded
<1>11. CASE CatchUpEnd(m)
  <2>1. /\ pc[m] = "upsert" /\ pc'[m] = "cutover"
        /\ UNCHANGED <<rows, log, shadowOf, live>>
    BY <1>11 DEF CatchUpEnd, At, Goto, objects, data, TypeOK
  <2>2. OwnRecorded(m)
    BY <1>1, <1>5, <1>11, <2>1 DEF Mirroring, CatchUpEnd, Cutover, At
  <2> QED
    BY <1>1, <2>1, <2>2 DEF OwnRecorded
<1>12. CASE \/ CreateShadow(m) \/ CreateChangelog(m) \/ CreateFunction(m) \/ DropTrigger(m)
            \/ Cutover(m) \/ Refused(m) \/ Fault(m)
  BY <1>12 DEF CreateShadow, CreateChangelog, CreateFunction, DropTrigger, Cutover, Refused,
     Fault, Goto, Mirroring, TypeOK
<1> QED
  BY <1>4, <1>6, <1>7, <1>8, <1>9, <1>10, <1>11, <1>12 DEF Statement, Advance

LEMMA RecordedWrite ==
  ASSUME TypeOK, NamesOK, OwnOK, RecordedOK, Write, NEW m \in Migrators, Own(m),
         pc[m] \in Mirroring, m \notin overtaken
  PROVE  OwnRecorded(m)'
<1> DEFINE s == sec[m]
           sh == shadowOf[s]
<1>1. OwnObjects(m) /\ OwnRecorded(m) /\ s \in Seconds
  BY DEF OwnOK, RecordedOK, TypeOK
<1>2. UNCHANGED <<live, shadowOf, pc, sec, todo, batch>>
  BY DEF Write, objects, cursors, clock
<1>3. s \in Firing
  BY <1>1 DEF OwnObjects, Firing
<1>4. sh \in Tables /\ sh # live
  BY <1>1, ShadowType DEF OwnObjects, Mirroring, NamesOK, Used
<1>5. PICK k \in Keys :
        /\ \A t \in Tables : t # live => rows'[t] = rows[t]
        /\ \A j \in Keys \ {k} : rows'[live][j] = rows[live][j]
        /\ \A r \in Seconds : log'[r] = IF r \in Firing THEN log[r] \cup {k} ELSE log[r]
        /\ \A n \in Migrators :
             /\ raced[n] \subseteq raced'[n]
             /\ pc[n] \in {"delete", "clear"} /\ k \in batch[n] => k \in raced'[n]
  BY WriteEffect
<1>6. rows'[sh] = rows[sh] /\ log'[s] = log[s] \cup {k}
  BY <1>1, <1>3, <1>4, <1>5
<1> QED
  BY <1>1, <1>2, <1>5, <1>6 DEF OwnRecorded

LEMMA RecordedBegin ==
  ASSUME TypeOK, RecordedOK, NEW m \in Migrators, Begin(m),
         NEW n \in Migrators, Own(n)', pc'[n] \in Mirroring, n \notin overtaken'
  PROVE  OwnRecorded(n)'
<1>1. /\ sec' = [sec EXCEPT ![m] = now] /\ pc' = [pc EXCEPT ![m] = "shadow"]
      /\ raced' = [raced EXCEPT ![m] = {}] /\ shared' = shared \cup ({now} \cap drawn)
      /\ overtaken' = overtaken \ {m} /\ UNCHANGED <<data, objects, cursors>>
  BY DEF Begin
<1>2. n # m
  BY <1>1 DEF Mirroring, TypeOK
<1>3. /\ pc'[n] = pc[n] /\ sec'[n] = sec[n] /\ raced'[n] = raced[n]
      /\ n \notin overtaken
  BY <1>1, <1>2 DEF TypeOK
<1>4. Own(n)
  BY <1>1, <1>3 DEF Own
<1> QED
  BY <1>1, <1>3, <1>4 DEF RecordedOK, OwnRecorded, data, objects, cursors

\* The clock moves nothing else, and a stuttering step nothing at all.
LEMMA OwnIdle ==
  ASSUME OwnOK, RecordedOK, Tick \/ UNCHANGED vars
  PROVE  OwnOK' /\ RecordedOK'
<1>1. UNCHANGED <<rows, log, live, shadowOf, backupOf, hasLog, hasFn, triggers, pc, todo,
                   batch, sec, shared, raced, overtaken>>
  BY DEF Tick, vars, data, objects, cursors, clock, app
<1>2. \A m \in Migrators : /\ Own(m)' = Own(m)
                           /\ OwnObjects(m)' = OwnObjects(m)
                           /\ OwnRecorded(m)' = OwnRecorded(m)
  BY <1>1 DEF Own, OwnObjects, OwnRecorded, Blocked
<1>3. OwnOK'
  BY <1>2 DEF OwnOK
<1>4. RecordedOK'
  BY <1>1, <1>2 DEF RecordedOK
<1> QED
  BY <1>3, <1>4

LEMMA OwnNext ==
  TypeOK /\ SecondsOK /\ NamesOK /\ OwnOK /\ RecordedOK /\ [Next]_vars
    => OwnOK' /\ RecordedOK'
<1> SUFFICES ASSUME TypeOK, SecondsOK, NamesOK, OwnOK, RecordedOK, [Next]_vars
             PROVE  OwnOK' /\ RecordedOK'
  OBVIOUS
<1>1. CASE Tick \/ UNCHANGED vars
  BY <1>1, OwnIdle
<1>2. CASE Write
  <2>1. UNCHANGED <<pc, sec, shared, overtaken>>
    BY <1>2 DEF Write, clock
  <2>2. \A m \in Migrators : Own(m)' => Own(m)
    BY <2>1 DEF Own
  <2>3. OwnOK'
    BY <1>2, <2>2, OwnWrite DEF OwnOK
  <2>4. RecordedOK'
    BY <1>2, <2>1, <2>2, RecordedWrite DEF RecordedOK
  <2> QED
    BY <2>3, <2>4
<1>3. ASSUME NEW m \in Migrators, Begin(m) PROVE OwnOK' /\ RecordedOK'
  BY <1>3, OwnBegin, RecordedBegin DEF OwnOK, RecordedOK
<1>4. ASSUME NEW m \in Migrators, Statement(m) PROVE OwnOK' /\ RecordedOK'
  <2>1. OwnOK'
    BY <1>4, OwnStatement, OwnOthers DEF OwnOK
  <2>2. RecordedOK'
    BY <1>4, RecordedStatement, RecordedOthers DEF RecordedOK
  <2> QED
    BY <2>1, <2>2
<1> QED
  BY <1>1, <1>2, <1>3, <1>4 DEF Next, Statement

-----------------------------------------------------------------------------
(* Attempts that nothing disturbs, also those that share a second. *)

\* Before the first swap only a trigger that another attempt has created under the same
\* name makes a statement fail.
LEMMA OnlyTriggerRefused ==
  ASSUME TypeOK, Undisturbed, live = 0, ~faulted, NEW m \in Migrators, Refused(m)
  PROVE  pc[m] = "createTrigger" /\ triggers # {}
<1> DEFINE s == sec[m]
<1>1. s \in Seconds /\ pc[m] \in Steps /\ ~Possible(m)
  BY DEF Refused, TypeOK
<1>2. /\ pc[m] \in Steps \ {"shadow"} => shadowOf[s] # Nil
      /\ pc[m] \in Steps \ {"shadow", "changelog"} => s \in hasLog
      /\ pc[m] \in Steps \ {"shadow", "changelog", "function"} => s \in hasFn
      /\ backupOf[s] = Nil
  BY <1>1 DEF Undisturbed
<1>3. ~Blocked(s)
  BY <1>1 DEF Undisturbed, Blocked
<1>4. pc[m] = "createTrigger"
  BY <1>1, <1>2, <1>3 DEF Possible, Swappable, Steps
<1>5. s \in hasFn
  BY <1>2, <1>4 DEF Steps
<1>6. <<live, s>> \in triggers
  BY <1>1, <1>4, <1>5 DEF Possible
<1> QED
  BY <1>4, <1>6

\* What no swap and no failure of its own takes from an attempt: a statement creates
\* names, or lets them be, and its migrator goes on or has been refused.
LEMMA UndisturbedStatement ==
  ASSUME TypeOK, live = 0, ~faulted, NEW m \in Migrators, Statement(m), ~Cutover(m),
         ~faulted'
  PROVE  /\ backupOf' = backupOf /\ hasLog \subseteq hasLog' /\ hasFn \subseteq hasFn'
         /\ \A s \in Seconds : shadowOf[s] # Nil => shadowOf'[s] # Nil
         /\ triggers' \subseteq triggers \cup {<<0, sec[m]>>}
         /\ triggers' \subseteq triggers \/ pc'[m] \in Mirroring
         /\ Refused(m) \/ (pc'[m] \in Steps /\ (pc[m] \in Mirroring => pc'[m] \in Mirroring))
<1>1. ~Fault(m)
  BY DEF Fault
<1> USE DEF Mirroring, Steps, At, Goto, TypeOK
<1>2. CASE CreateShadow(m)
  <2>1. \A s \in Seconds : shadowOf[s] # Nil => shadowOf'[s] # Nil
    BY <1>2, TablesNat, NilAssumption DEF CreateShadow
  <2> QED
    BY <1>2, <2>1 DEF CreateShadow
<1>3. CASE CreateChangelog(m) \/ CreateFunction(m) \/ DropTrigger(m)
  BY <1>3 DEF CreateChangelog, CreateFunction, DropTrigger
<1>4. CASE CreateTrigger(m)
  BY <1>4 DEF CreateTrigger
<1>5. CASE BackfillPage(m) \/ BackfillEnd(m) \/ RoundUpsert(m) \/ RoundDelete(m)
  BY <1>5 DEF BackfillPage, BackfillEnd, RoundUpsert, RoundDelete, objects
<1>6. CASE RoundClear(m) \/ CatchUpEnd(m)
  BY <1>6 DEF RoundClear, CatchUpEnd, objects
<1>7. CASE Refused(m)
  BY <1>7 DEF Refused, objects
<1> QED
  BY <1>1, <1>2, <1>3, <1>4, <1>5, <1>6, <1>7 DEF Statement, Advance

\* What the steps of an attempt that is not over have created is there.
LEMMA UndisturbedNames ==
  ASSUME TypeOK, Undisturbed, live = 0, ~faulted, NEW m \in Migrators, Statement(m),
         ~Cutover(m), ~faulted', NEW n \in Migrators
  PROVE  /\ pc'[n] # "done"
         /\ pc'[n] \in Steps \ {"shadow"} => shadowOf'[sec[n]] # Nil
         /\ pc'[n] \in Steps \ {"shadow", "changelog"} => sec[n] \in hasLog'
         /\ pc'[n] \in Steps \ {"shadow", "changelog", "function"} => sec[n] \in hasFn'
<1>1. /\ pc[n] # "done" /\ sec[n] \in Seconds
      /\ pc[n] \in Steps \ {"shadow"} => shadowOf[sec[n]] # Nil
      /\ pc[n] \in Steps \ {"shadow", "changelog"} => sec[n] \in hasLog
      /\ pc[n] \in Steps \ {"shadow", "changelog", "function"} => sec[n] \in hasFn
  BY DEF Undisturbed, TypeOK
<1>2. /\ hasLog \subseteq hasLog' /\ hasFn \subseteq hasFn'
      /\ shadowOf[sec[n]] # Nil => shadowOf'[sec[n]] # Nil
  BY <1>1, UndisturbedStatement
<1>3. CASE n # m
  BY <1>1, <1>2, <1>3, OthersStay
<1>4. CASE n = m
  <2>1. ~Fault(m)
    BY DEF Fault
  <2> USE DEF Steps, At, Goto, TypeOK
  <2>2. CASE CreateShadow(m)
    <3>1. shadowOf'[sec[m]] # Nil
      BY <2>2, TablesNat, NilAssumption DEF CreateShadow
    <3> QED
      BY <1>4, <2>2, <3>1 DEF CreateShadow
  <2>3. CASE CreateChangelog(m)
    BY <1>1, <1>2, <1>4, <2>3 DEF CreateChangelog
  <2>4. CASE CreateFunction(m)
    BY <1>1, <1>2, <1>4, <2>4 DEF CreateFunction
  <2>5. CASE pc[m] \in Steps \ {"shadow", "changelog", "function"} /\ pc'[m] # "done"
    BY <1>1, <1>2, <1>4, <2>5
  <2>6. CASE DropTrigger(m) \/ CreateTrigger(m) \/ BackfillPage(m) \/ BackfillEnd(m)
    BY <2>5, <2>6 DEF DropTrigger, CreateTrigger, BackfillPage, BackfillEnd, objects
  <2>7. CASE RoundUpsert(m) \/ RoundDelete(m) \/ RoundClear(m) \/ CatchUpEnd(m)
    BY <2>5, <2>7 DEF RoundUpsert, RoundDelete, RoundClear, CatchUpEnd, objects
  <2>8. CASE Refused(m)
    BY <1>4, <2>8 DEF Refused
  <2> QED
    BY <2>1, <2>2, <2>3, <2>4, <2>6, <2>7, <2>8 DEF Statement, Advance
<1> QED
  BY <1>3, <1>4

LEMMA UndisturbedNext == TypeOK /\ Undisturbed /\ [Next]_vars => Undisturbed'
<1> SUFFICES ASSUME TypeOK, Undisturbed, [Next]_vars, live' = 0, ~faulted'
             PROVE  Undisturbed'
  BY DEF Undisturbed
<1>1. CASE Write \/ Tick \/ UNCHANGED vars
  <2>1. UNCHANGED <<objects, pc, sec, attempts, faulted>>
    BY <1>1 DEF Write, Tick, vars, clock
  <2> QED
    BY <2>1 DEF Undisturbed, objects
<1>2. ASSUME NEW m \in Migrators, Begin(m) PROVE Undisturbed'
  <2>1. /\ pc' = [pc EXCEPT ![m] = "shadow"] /\ sec' = [sec EXCEPT ![m] = now]
        /\ UNCHANGED <<objects, faulted>> /\ pc[m] \notin Steps
    BY <1>2 DEF Begin
  <2>2. live = 0 /\ ~faulted
    BY <2>1 DEF objects
  <2>3. pc'[m] = "shadow" /\ \A n \in Migrators \ {m} : pc'[n] = pc[n] /\ sec'[n] = sec[n]
    BY <2>1 DEF TypeOK
  <2>4. \E n \in Migrators : pc'[n] \in Steps
    BY <2>3 DEF Steps
  <2>5. triggers # {} => \E n \in Migrators : pc'[n] \in Mirroring
    BY <2>1, <2>2, <2>3 DEF Undisturbed, Mirroring, Steps
  <2> QED
    BY <2>1, <2>2, <2>3, <2>4, <2>5 DEF Undisturbed, objects
<1>3. ASSUME NEW m \in Migrators, Statement(m) PROVE Undisturbed'
  <2>1. ~Cutover(m)
    <3>1. ASSUME Cutover(m) PROVE FALSE
      <4>1. live' \in 1..made /\ made \in Nat
        BY <3>1, PossibleAt, ShadowType, TablesNat DEF Cutover, At, Swappable, TypeOK
      <4> QED
        BY <4>1
    <3> QED
      BY <3>1
  <2>2. live = 0 /\ ~faulted
    <3>1. (faulted' = faulted) \/ faulted'
      BY <1>3 DEF Statement, Advance, CreateShadow, CreateChangelog, CreateFunction,
         DropTrigger, CreateTrigger, BackfillPage, BackfillEnd, RoundUpsert, RoundDelete,
         RoundClear, CatchUpEnd, Cutover, Refused, Fault
    <3> QED
      BY <1>3, <2>1, <3>1, LiveStays
  <2>3. /\ backupOf' = backupOf
        /\ triggers' \subseteq triggers \cup {<<0, sec[m]>>}
        /\ triggers' \subseteq triggers \/ pc'[m] \in Mirroring
        /\ Refused(m) \/ (pc'[m] \in Steps /\ (pc[m] \in Mirroring => pc'[m] \in Mirroring))
    BY <1>3, <2>1, <2>2, UndisturbedStatement
  <2>4. sec' = sec /\ \A n \in Migrators \ {m} : pc'[n] = pc[n]
    BY <1>3, OthersStay
  <2>5. Mirroring \subseteq Steps /\ "createTrigger" \notin Mirroring
    BY DEF Mirroring, Steps
  <2>6. Refused(m) => \E n \in Migrators \ {m} : pc'[n] \in Mirroring
    BY <2>2, <2>4, <2>5, OnlyTriggerRefused DEF Undisturbed
  <2>7. \E n \in Migrators : pc'[n] \in Steps
    BY <2>3, <2>5, <2>6
  <2>8. triggers' # {} => \E n \in Migrators : pc'[n] \in Mirroring
    <3>1. CASE triggers' \subseteq triggers /\ ~Refused(m)
      BY <2>2, <2>3, <2>4, <3>1 DEF Undisturbed
    <3> QED
      BY <2>3, <2>6, <3>1
  <2>9. \A t \in Tables, s \in Seconds : <<t, s>> \in triggers' => t = 0
    BY <2>2, <2>3 DEF Undisturbed
  <2>10. \A s \in Seconds : backupOf'[s] = Nil
    BY <2>2, <2>3 DEF Undisturbed
  <2> QED
    BY <1>3, <2>1, <2>2, <2>4, <2>7, <2>8, <2>9, <2>10, UndisturbedNames DEF Undisturbed
<1> QED
  BY <1>1, <1>2, <1>3 DEF Next, Statement

LEMMA FleetInvParts ==
  FleetInv <=> /\ TypeOK /\ SecondsOK /\ NamesOK /\ TriggersComplete /\ LogsReady
               /\ OwnOK /\ RecordedOK /\ Undisturbed
BY DEF FleetInv, OwnOK, RecordedOK

LEMMA FleetInit == Init => FleetInv
<1> SUFFICES ASSUME Init PROVE FleetInv
  OBVIOUS
<1>1. TypeOK
  BY TypeInit
<1>2. SecondsOK /\ TriggersComplete /\ LogsReady
  BY DEF Init, SecondsOK, Unnamed, TriggersComplete, LogsReady, Steps
<1>3. NamesOK
  BY DEF Init, NamesOK
<1>4. OwnOK /\ RecordedOK
  BY DEF Init, OwnOK, RecordedOK, Own, Steps
<1>5. Undisturbed
  BY DEF Init, Undisturbed, Steps
<1> QED
  BY <1>1, <1>2, <1>3, <1>4, <1>5, FleetInvParts

LEMMA FleetNext == FleetInv /\ [Next]_vars => FleetInv'
<1>1. FleetInv' <=>
        /\ TypeOK' /\ SecondsOK' /\ NamesOK' /\ TriggersComplete' /\ LogsReady'
        /\ OwnOK' /\ RecordedOK' /\ Undisturbed'
  BY DEF FleetInv, OwnOK, RecordedOK
<1> QED
  BY <1>1, FleetInvParts, TypeNext, SecondsNext, NamesNext, TriggersNext, LogsNext,
     OwnNext, UndisturbedNext

-----------------------------------------------------------------------------
(* The theorems. *)

\* Whatever several attempts do to one table (online.rs 145-1093) at the same time,
\* each name stands for a table that exists or for none.
THEOREM TypeCorrect == Spec => []TypeOK
<1>1. Init => TypeOK
  BY TypeInit
<1>2. TypeOK /\ [Next]_vars => TypeOK'
  BY TypeNext
<1> QED
  BY <1>1, <1>2, PTL DEF Spec

\* The inductive invariant of several attempts: names are apart, a trigger is never
\* left without its function and changelog, and what an attempt with a second of its
\* own has not mirrored is in its changelog.
THEOREM FleetInvariant == Spec => []FleetInv
<1>1. Init => FleetInv
  BY FleetInit
<1>2. FleetInv /\ [Next]_vars => FleetInv'
  BY FleetNext
<1> QED
  BY <1>1, <1>2, PTL DEF Spec

\* No trigger makes the application's statements fail, not even one that a failed attempt
\* left on the table or one that attempts of the same second share, before one of these
\* has swapped (create_mirror_trigger, and what the cutover drops, online.rs 1085-1093).
THEOREM ApplicationUndisturbed == Spec => []TriggersWork
<1>1. FleetInv => TriggersWork
  <2> SUFFICES ASSUME FleetInv PROVE TriggersWork
    OBVIOUS
  <2>1. live \in Tables
    BY BoundAssumption DEF FleetInv, TypeOK, Tables
  <2> QED
    BY <2>1 DEF FleetInv, TriggersComplete, TriggersWork, Firing
<1> QED
  BY <1>1, FleetInvariant, PTL

\* Attempts never make each other fail in vain, not even under the same names: if no
\* statement failed for a reason of its own and all attempts are over, one has swapped
\* (CREATE TRIGGER is the only statement of online.rs 145-1093 that is refused before a
\* swap, and the attempt that created the trigger goes on).
THEOREM OneOfThemSwaps == Spec => []SomeoneSwaps
<1>1. FleetInv => SomeoneSwaps
  BY DEF FleetInv, Undisturbed, SomeoneSwaps
<1> QED
  BY <1>1, FleetInvariant, PTL

\* What a table the application has used can lose: nothing, under any names.
LEMMA UsedStep ==
  ASSUME TypeOK, NamesOK, [Next]_vars
  PROVE  /\ Used \subseteq Used'
         /\ \A t \in Used : rows'[t] # rows[t] => t = live /\ writes' # writes
<1>1. Used \subseteq 0..made
  BY DEF Used, TypeOK
<1>2. CASE UNCHANGED objects /\ UNCHANGED rows
  BY <1>2 DEF Used, objects
<1>3. CASE Write
  <2>1. Used' = Used /\ writes' # writes
    BY <1>3 DEF Write, objects, Used, TypeOK
  <2>2. \A t \in Used : t # live => rows'[t] = rows[t]
    <3>1. Used \subseteq Tables
      BY <1>1, BoundAssumption DEF Tables, TypeOK
    <3> QED
      BY <1>3, <3>1, WriteEffect
  <2> QED
    BY <2>1, <2>2
<1>4. ASSUME NEW m \in Migrators, Statement(m)
      PROVE  /\ Used \subseteq Used'
             /\ \A t \in Used : rows'[t] # rows[t] => t = live /\ writes' # writes
  <2>1. shadowOf[sec[m]] \notin Used
    <3>1. 0..made \subseteq Nat
      BY TablesNat DEF TypeOK
    <3>2. Nil \notin Used
      BY <1>1, <3>1, NilAssumption
    <3>3. sec[m] \in Seconds
      BY DEF TypeOK
    <3> QED
      BY <3>2, <3>3 DEF NamesOK
  <2>2. \A t \in Used : rows'[t] = rows[t]
    BY <1>1, <1>4, <2>1, RowsApart
  <2>3. Used \subseteq Used'
    <3>1. CASE Cutover(m)
      <4>1. backupOf[sec[m]] = Nil /\ backupOf' = [backupOf EXCEPT ![sec[m]] = live]
        BY <3>1, PossibleAt DEF Cutover, At, Swappable
      <4> QED
        BY <4>1, NilAssumption DEF Used, TypeOK
    <3>2. CASE ~Cutover(m)
      BY <1>4, <3>2, LiveStays DEF Used
    <3> QED
      BY <3>1, <3>2
  <2> QED
    BY <2>2, <2>3
<1> QED
  BY <1>2, <1>3, <1>4 DEF Next, Statement, Tick, Begin, vars, data

\* Zero loss by backup: a table the application has used keeps a name and its rows,
\* for any number of attempts, also those that share their names.
THEOREM NothingUsedIsLost == Spec => UsedTablesKept
<1>1. FleetInv /\ [Next]_vars =>
        [/\ Used \subseteq Used'
         /\ \A t \in Used : rows'[t] # rows[t] => t = live /\ writes' # writes]_vars
  BY UsedStep DEF FleetInv
<1> QED
  BY <1>1, FleetInvariant, PTL DEF Spec, UsedTablesKept

\* A migrator becomes "done" only by its cutover, the only step that moves the
\* application's name.
LEMMA SwapIsCutover ==
  ASSUME TypeOK, [Next]_vars, NEW m \in Migrators, pc'[m] # pc[m],
         live' # live \/ pc'[m] = "done"
  PROVE  Cutover(m)
<1>1. ~Write /\ ~Tick /\ ~(UNCHANGED vars)
  BY DEF Write, Tick, vars
<1>2. ASSUME NEW n \in Migrators, Begin(n) PROVE FALSE
  BY <1>2 DEF Begin, objects, TypeOK
<1>3. ASSUME NEW n \in Migrators, Statement(n) PROVE Cutover(m)
  <2>1. n = m
    BY <1>3, OthersStay
  <2>2. CASE live' # live
    BY <1>3, <2>1, <2>2, LiveStays
  <2>3. CASE pc'[m] = "done"
    BY <1>3, <2>1, <2>3 DEF Statement, Advance, CreateShadow, CreateChangelog,
       CreateFunction, DropTrigger, CreateTrigger, BackfillPage, BackfillEnd, RoundUpsert,
       RoundDelete, RoundClear, CatchUpEnd, Refused, Fault, Goto, objects, TypeOK
  <2> QED
    BY <2>2, <2>3
<1> QED
  BY <1>1, <1>2, <1>3 DEF Next, Statement

\* An attempt with a second of its own that swaps has not been overtaken: the trigger
\* of one that has is on a backup, where DROP FUNCTION refuses to leave it.
LEMMA CutoverNotOvertaken ==
  ASSUME FleetInv, NEW m \in Migrators, Cutover(m), sec[m] \notin shared
  PROVE  m \notin overtaken /\ OwnRecorded(m)
<1>1. pc[m] = "cutover" /\ Swappable(sec[m])
  BY PossibleAt DEF Cutover, At
<1>2. Own(m) /\ pc[m] \in Mirroring
  BY <1>1 DEF Own, Steps, Mirroring
<1>3. m \notin overtaken
  BY <1>1, <1>2 DEF FleetInv, OwnObjects, Swappable
<1> QED
  BY <1>2, <1>3 DEF FleetInv

\* Of attempts whose seconds are their own, only one that no other has overtaken
\* swaps the table (DROP FUNCTION without CASCADE, online.rs 1085-1087).
THEOREM NoStaleSwap == Spec => OvertakenNeverSwaps
<1>1. ASSUME FleetInv, [Next]_vars, NEW m \in overtaken, sec[m] \notin shared,
             pc'[m] = "done", pc[m] # "done"
      PROVE  FALSE
  <2>1. m \in Migrators /\ Cutover(m)
    BY <1>1, SwapIsCutover DEF FleetInv, TypeOK
  <2> QED
    BY <1>1, <2>1, CutoverNotOvertaken
<1>2. FleetInv /\ [Next]_vars =>
        [\A m \in overtaken :
           sec[m] \notin shared /\ pc'[m] = "done" => pc[m] = "done"]_vars
  BY <1>1
<1> QED
  BY <1>2, FleetInvariant, PTL DEF Spec, OvertakenNeverSwaps

\* The cutover of an attempt with a second of its own puts a table in place that holds
\* the rows of the one it replaces, whatever the other attempts have done, except
\* under keys written inside one of its catch-up rounds.
THEOREM SwapsAreFaithful == Spec => SwapFaithful
<1>1. ASSUME FleetInv, [Next]_vars, NEW m \in Migrators, live' # live, pc'[m] # pc[m],
             sec[m] \notin shared, NEW k \in Keys \ raced[m]
      PROVE  rows'[live'][k] = rows[live][k]
  <2>1. Cutover(m) /\ TypeOK
    BY <1>1, SwapIsCutover DEF FleetInv
  <2>2. OwnRecorded(m) /\ pc[m] = "cutover" /\ shadowOf[sec[m]] # Nil
    BY <1>1, <2>1, CutoverNotOvertaken, PossibleAt DEF Cutover, At, Swappable
  <2>3. rows[shadowOf[sec[m]]][k] = rows[live][k] \/ k \in log[sec[m]]
    BY <2>2 DEF OwnRecorded
  <2>4. shadowOf[sec[m]] \in Tables
    BY <2>1, <2>2, ShadowType DEF TypeOK
  <2>5. rows'[live'] = Drained(sec[m])
    BY <2>1, <2>4 DEF Cutover, TypeOK
  <2> QED
    BY <2>3, <2>5 DEF Drained
<1>2. FleetInv /\ [Next]_vars =>
        [\A m \in Migrators :
           live' # live /\ pc'[m] # pc[m] /\ sec[m] \notin shared =>
             \A k \in Keys \ raced[m] : rows'[live'][k] = rows[live][k]]_vars
  BY <1>1
<1> QED
  BY <1>2, FleetInvariant, PTL DEF Spec, SwapFaithful
=============================================================================
