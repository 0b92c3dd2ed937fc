---------------------------- MODULE RewriteFleet ----------------------------
(***************************************************************************)
(* Several attempts of online_rewrite_table on one table: replicas of an   *)
(* application that migrate when they start, and retries after a failure.  *)
(* Nothing keeps them apart but the names of their objects, which contain  *)
(* the second at which the attempt began (online.rs 157-169, 1330-1352).   *)
(*                                                                         *)
(* A statement finds its tables by name when it runs; a trigger stays with *)
(* the table it was created on, whatever that is called later.  Each SQL   *)
(* statement is a step and the cutover, a transaction under an exclusive   *)
(* lock, is one.  Sizes are left open: a page or a round ends at any key.  *)
(* An application transaction is one statement; what its being open across *)
(* a statement of the migrator means is the subject of OnlineRewrite.      *)
(***************************************************************************)
EXTENDS RowChanges

CONSTANTS
  Migrators,   \* processes that call Migrations::init
  Seconds,     \* values of the clock
  Nil,         \* there is no table of that name
  MaxAttempts, \* bound: rewrites begun
  MaxWrites    \* bound: statements of the application

ASSUME SecondsAssumption == Seconds \subseteq Nat /\ Seconds # {}
ASSUME NilAssumption == Nil \notin Nat
ASSUME KeptKeysAssumption == "rekey" \notin Ops
ASSUME BoundAssumption == MaxAttempts \in Nat /\ MaxWrites \in Nat

\* The original table is 0, the shadows that have been created are 1, 2, ...
Tables == 0..MaxAttempts

Steps == {"shadow", "changelog", "function", "dropTrigger", "createTrigger",
          "backfill", "upsert", "delete", "clear", "cutover"}

Mirroring == {"backfill", "upsert", "delete", "clear", "cutover"}

VARIABLES
  rows,      \* committed rows of every table there has been
  made,      \* shadow tables created so far
  live,      \* the table that has the application's name for it
  shadowOf,  \* the table named shadow_<second>
  backupOf,  \* the table named backup_<second>
  hasLog,    \* seconds for which there is a changelog table
  log,       \* its rows
  hasFn,     \* seconds for which there is a trigger function
  triggers,  \* <<table, second>>: the mirror triggers installed
  pc,        \* the statement each migrator runs next
  sec,       \* the second in the names of its attempt
  todo,      \* keys above the cursor of its running loop
  batch,     \* keys of its running catch-up round
  now,       \* the clock
  attempts,  \* rewrites begun so far (bounded by MaxAttempts)
  writes,    \* statements of the application so far (bounded by MaxWrites)
  drawn,     \* history: seconds some attempt has begun in
  shared,    \* history: seconds more than one attempt has begun in
  raced,     \* history: keys written between the upsert and the clear of a round
  overtaken, \* history: migrators another one has swapped the table under
  faulted    \* history: a statement has failed for a reason of its own

objects == <<made, live, shadowOf, backupOf, hasLog, hasFn, triggers>>
data == <<rows, log>>
cursors == <<todo, batch>>
clock == <<now, attempts, sec, drawn, shared>>
app == <<writes, raced>>
vars == <<data, objects, pc, cursors, clock, app, overtaken, faulted>>

Empty == [k \in Keys |-> NoRow]

Init ==
  /\ \E t \in Table : rows = [i \in Tables |-> IF i = 0 THEN t ELSE Empty]
  /\ made = 0 /\ live = 0
  /\ shadowOf = [s \in Seconds |-> Nil] /\ backupOf = [s \in Seconds |-> Nil]
  /\ hasLog = {} /\ log = [s \in Seconds |-> {}]
  /\ hasFn = {} /\ triggers = {}
  /\ pc = [m \in Migrators |-> "idle"]
  /\ now \in Seconds /\ sec = [m \in Migrators |-> now]
  /\ todo = [m \in Migrators |-> {}] /\ batch = [m \in Migrators |-> {}]
  /\ attempts = 0 /\ writes = 0
  /\ drawn = {} /\ shared = {}
  /\ raced = [m \in Migrators |-> {}]
  /\ overtaken = {} /\ faulted = FALSE

-----------------------------------------------------------------------------
(* The application, and the clock. *)

Firing == {s \in Seconds : <<live, s>> \in triggers}

\* An INSERT, UPDATE or DELETE.  It fails, and changes nothing, if one of the
\* triggers does: its function, or the changelog it inserts into, is gone.
Write ==
  /\ writes < MaxWrites
  /\ Firing \subseteq hasFn \cap hasLog
  /\ \E c \in ChangesOn(rows[live]) :
        /\ rows' = [rows EXCEPT ![live] = Apply(rows[live], c)]
        /\ log' = [s \in Seconds |-> IF s \in Firing THEN log[s] \cup {c.to} ELSE log[s]]
        /\ raced' = [m \in Migrators |->
             IF pc[m] \in {"delete", "clear"} THEN raced[m] \cup ({c.to} \cap batch[m])
             ELSE raced[m]]
  /\ writes' = writes + 1
  /\ UNCHANGED <<objects, pc, cursors, clock, overtaken, faulted>>

Tick ==
  /\ now + 1 \in Seconds
  /\ now' = now + 1
  /\ UNCHANGED <<data, objects, pc, cursors, app, attempts, sec, drawn, shared,
                 overtaken, faulted>>

-----------------------------------------------------------------------------
(* An attempt. *)

\* The driver has read the table's schema, perhaps before another migrator has
\* swapped it, and found a difference.
Begin(m) ==
  /\ pc[m] \notin Steps
  /\ attempts < MaxAttempts
  /\ attempts' = attempts + 1
  /\ sec' = [sec EXCEPT ![m] = now]
  /\ shared' = shared \cup ({now} \cap drawn)
  /\ drawn' = drawn \cup {now}
  /\ raced' = [raced EXCEPT ![m] = {}]
  /\ overtaken' = overtaken \ {m}
  /\ pc' = [pc EXCEPT ![m] = "shadow"]
  /\ UNCHANGED <<data, objects, cursors, now, writes, faulted>>

\* MUTANT of Blocked: DROP FUNCTION .. CASCADE.
BlockedNever(s) == FALSE

\* DROP FUNCTION is refused while a trigger of another table uses it.
Blocked(s) == \E t \in Tables \ {live} : <<t, s>> \in triggers

\* MUTANT of Swappable: an older backup of that name is replaced.
SwappableReplacing(s) == shadowOf[s] # Nil /\ s \in hasLog /\ ~Blocked(s)

\* MUTANT of Swappable: the function is dropped before the trigger.
SwappableFunctionFirst(s) ==
  /\ shadowOf[s] # Nil /\ backupOf[s] = Nil /\ s \in hasLog
  /\ \A t \in Tables : <<t, s>> \notin triggers

\* The cutover finds its changelog and its shadow, and the backup's name free.
Swappable(s) ==
  shadowOf[s] # Nil /\ backupOf[s] = Nil /\ s \in hasLog /\ ~Blocked(s)

\* The statement m runs next finds what it names, and no name it creates.
Possible(m) ==
  LET s == sec[m] IN
  CASE pc[m] = "createTrigger" -> s \in hasFn /\ <<live, s>> \notin triggers
    [] pc[m] = "backfill" -> shadowOf[s] # Nil
    [] pc[m] \in {"upsert", "delete"} -> shadowOf[s] # Nil /\ s \in hasLog
    [] pc[m] = "clear" -> s \in hasLog
    [] pc[m] = "cutover" -> Swappable(s)
    [] OTHER -> TRUE

At(m, step) == pc[m] = step /\ Possible(m)

Goto(m, step) == pc' = [pc EXCEPT ![m] = step]

\* CREATE TABLE IF NOT EXISTS: a shadow of that name is taken as it is.
CreateShadow(m) ==
  /\ At(m, "shadow")
  /\ IF shadowOf[sec[m]] = Nil
     THEN /\ made + 1 \in Tables   \* always so: no more shadows than attempts
          /\ made' = made + 1
          /\ shadowOf' = [shadowOf EXCEPT ![sec[m]] = made + 1]
          /\ rows' = [rows EXCEPT ![made + 1] = Empty]
     ELSE UNCHANGED <<made, shadowOf, rows>>
  /\ Goto(m, "changelog")
  /\ UNCHANGED <<live, backupOf, hasLog, log, hasFn, triggers, cursors, clock, app,
                 overtaken, faulted>>

CreateChangelog(m) ==
  /\ At(m, "changelog")
  /\ hasLog' = hasLog \cup {sec[m]}
  /\ log' = IF sec[m] \in hasLog THEN log ELSE [log EXCEPT ![sec[m]] = {}]
  /\ Goto(m, "function")
  /\ UNCHANGED <<rows, made, live, shadowOf, backupOf, hasFn, triggers, cursors, clock,
                 app, overtaken, faulted>>

CreateFunction(m) ==
  /\ At(m, "function")
  /\ hasFn' = hasFn \cup {sec[m]}
  /\ Goto(m, "dropTrigger")
  /\ UNCHANGED <<data, made, live, shadowOf, backupOf, hasLog, triggers, cursors, clock,
                 app, overtaken, faulted>>

\* DROP TRIGGER IF EXISTS on the live table, a statement of its own.
DropTrigger(m) ==
  /\ At(m, "dropTrigger")
  /\ triggers' = triggers \ {<<live, sec[m]>>}
  /\ Goto(m, "createTrigger")
  /\ UNCHANGED <<data, made, live, shadowOf, backupOf, hasLog, hasFn, cursors, clock,
                 app, overtaken, faulted>>

CreateTrigger(m) ==
  /\ At(m, "createTrigger")
  /\ triggers' = triggers \cup {<<live, sec[m]>>}
  /\ todo' = [todo EXCEPT ![m] = Keys]
  /\ overtaken' = overtaken \ {m}
  /\ Goto(m, "backfill")
  /\ UNCHANGED <<data, made, live, shadowOf, backupOf, hasLog, hasFn, batch, clock,
                 app, faulted>>

UpTo(m, b) == {k \in todo[m] : k <= b}

\* A page of the backfill, ON CONFLICT DO NOTHING.
BackfillPage(m) ==
  /\ At(m, "backfill")
  /\ \E b \in todo[m] \cap Present(rows[live]) :
        /\ rows' = [rows EXCEPT ![shadowOf[sec[m]]] = [k \in Keys |->
             IF k \in UpTo(m, b) /\ @[k] = NoRow THEN rows[live][k] ELSE @[k]]]
        /\ todo' = [todo EXCEPT ![m] = @ \ UpTo(m, b)]
  /\ UNCHANGED <<log, objects, pc, batch, clock, app, overtaken, faulted>>

BackfillEnd(m) ==
  /\ At(m, "backfill")
  /\ todo[m] \cap Present(rows[live]) = {}
  /\ todo' = [todo EXCEPT ![m] = Keys]
  /\ Goto(m, "upsert")
  /\ UNCHANGED <<data, objects, batch, clock, app, overtaken, faulted>>

\* A round of the catch-up: choose its last key, INSERT .. ON CONFLICT DO UPDATE.
RoundUpsert(m) ==
  /\ At(m, "upsert")
  /\ \E b \in todo[m] \cap log[sec[m]] :
        /\ batch' = [batch EXCEPT ![m] = UpTo(m, b)]
        /\ rows' = [rows EXCEPT ![shadowOf[sec[m]]] = [k \in Keys |->
             IF k \in UpTo(m, b) \cap log[sec[m]] /\ rows[live][k] # NoRow
             THEN rows[live][k] ELSE @[k]]]
  /\ Goto(m, "delete")
  /\ UNCHANGED <<log, objects, todo, clock, app, overtaken, faulted>>

RoundDelete(m) ==
  /\ At(m, "delete")
  /\ rows' = [rows EXCEPT ![shadowOf[sec[m]]] = [k \in Keys |->
       IF k \in batch[m] \cap log[sec[m]] /\ rows[live][k] = NoRow THEN NoRow ELSE @[k]]]
  /\ Goto(m, "clear")
  /\ UNCHANGED <<log, objects, cursors, clock, app, overtaken, faulted>>

\* MUTANT of RoundClear: DELETE FROM changelog without the key range.
RoundClearAll(m) ==
  /\ At(m, "clear")
  /\ log' = [log EXCEPT ![sec[m]] = {}]
  /\ todo' = [todo EXCEPT ![m] = @ \ batch[m]]
  /\ Goto(m, "upsert")
  /\ UNCHANGED <<rows, objects, batch, clock, app, overtaken, faulted>>

RoundClear(m) ==
  /\ At(m, "clear")
  /\ log' = [log EXCEPT ![sec[m]] = @ \ batch[m]]
  /\ todo' = [todo EXCEPT ![m] = @ \ batch[m]]
  /\ Goto(m, "upsert")
  /\ UNCHANGED <<rows, objects, batch, clock, app, overtaken, faulted>>

\* Nothing above the cursor, or out of rounds.
CatchUpEnd(m) ==
  /\ At(m, "upsert")
  /\ Goto(m, "cutover")
  /\ UNCHANGED <<data, objects, cursors, clock, app, overtaken, faulted>>

-----------------------------------------------------------------------------
(* The cutover: LOCK, DROP TRIGGER, drain, rename twice, DROP FUNCTION, DROP *)
(* TABLE of the changelog, COMMIT.                                           *)

Drained(s) == [k \in Keys |-> IF k \in log[s] THEN rows[live][k] ELSE rows[shadowOf[s]][k]]

Cutover(m) ==
  LET s == sec[m] IN
  /\ At(m, "cutover")
  /\ rows' = [rows EXCEPT ![shadowOf[s]] = Drained(s)]
  /\ live' = shadowOf[s]
  /\ shadowOf' = [shadowOf EXCEPT ![s] = Nil]
  /\ backupOf' = [backupOf EXCEPT ![s] = live]
  /\ triggers' = triggers \ {<<live, s>>}
  /\ hasFn' = hasFn \ {s}
  /\ hasLog' = hasLog \ {s}
  /\ log' = [log EXCEPT ![s] = {}]
  /\ overtaken' = overtaken \cup {n \in Migrators \ {m} : pc[n] \in Mirroring}
  /\ Goto(m, "done")
  /\ UNCHANGED <<made, cursors, clock, app, faulted>>

\* The statement is refused; a refused cutover is rolled back.
Refused(m) ==
  /\ pc[m] \in Steps
  /\ ~Possible(m)
  /\ Goto(m, "failed")
  /\ UNCHANGED <<data, objects, cursors, clock, app, overtaken, faulted>>

\* MUTANT of Fault: a failed attempt drops its changelog.
FaultCleaning(m) ==
  /\ pc[m] \in Steps
  /\ hasLog' = hasLog \ {sec[m]}
  /\ faulted' = TRUE
  /\ Goto(m, "failed")
  /\ UNCHANGED <<data, made, live, shadowOf, backupOf, hasFn, triggers, cursors, clock,
                 app, overtaken>>

\* A statement fails for another reason, or the process dies: nothing is undone.
Fault(m) ==
  /\ pc[m] \in Steps
  /\ faulted' = TRUE
  /\ Goto(m, "failed")
  /\ UNCHANGED <<data, objects, cursors, clock, app, overtaken>>

-----------------------------------------------------------------------------
Advance(m) ==
  \/ CreateShadow(m) \/ CreateChangelog(m) \/ CreateFunction(m)
  \/ DropTrigger(m) \/ CreateTrigger(m)
  \/ BackfillPage(m) \/ BackfillEnd(m)
  \/ RoundUpsert(m) \/ RoundDelete(m) \/ RoundClear(m) \/ CatchUpEnd(m)
  \/ Cutover(m)
  \/ Refused(m)

Next ==
  \/ Write \/ Tick
  \/ \E m \in Migrators : Begin(m) \/ Advance(m) \/ Fault(m)

Spec == Init /\ [][Next]_vars
=============================================================================
