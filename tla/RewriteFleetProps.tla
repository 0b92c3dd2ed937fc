-------------------------- MODULE RewriteFleetProps -------------------------
(***************************************************************************)
(* What attempts may and may not do to each other, stated over             *)
(* RewriteFleet.                                                           *)
(***************************************************************************)
EXTENDS RewriteFleet

TypeOK ==
  /\ rows \in [Tables -> Table]
  /\ made \in Tables /\ live \in 0..made
  /\ shadowOf \in [Seconds -> (1..made) \cup {Nil}]
  /\ backupOf \in [Seconds -> (0..made) \cup {Nil}]
  /\ hasLog \subseteq Seconds /\ hasFn \subseteq Seconds
  /\ log \in [Seconds -> SUBSET Keys]
  /\ triggers \subseteq (0..made) \X Seconds
  /\ pc \in [Migrators -> Steps \cup {"idle", "done", "failed"}]
  /\ sec \in [Migrators -> Seconds]
  /\ todo \in [Migrators -> SUBSET Keys] /\ batch \in [Migrators -> SUBSET Keys]
  /\ now \in Seconds /\ attempts \in 0..MaxAttempts /\ writes \in 0..MaxWrites
  /\ shared \subseteq drawn /\ drawn \subseteq Seconds
  /\ raced \in [Migrators -> SUBSET Keys]
  /\ overtaken \subseteq Migrators /\ faulted \in BOOLEAN

\* The tables the application has used: the live one and the backups.
Used == {live} \cup {backupOf[s] : s \in {r \in Seconds : backupOf[r] # Nil}}

\* "Zero-loss-by-backup": whatever attempts do at the same time and under the
\* same names, a table the application has used keeps a name of its own, and only
\* the application changes its rows, and only while it is live.
UsedTablesKept ==
  [][/\ Used \subseteq Used'
     /\ \A t \in Used : rows'[t] # rows[t] => t = live /\ writes' # writes]_vars

\* The cutover of an attempt whose second is its own puts a table in place that
\* holds the rows of the one it replaces, whatever other attempts have done,
\* except under keys written inside one of its catch-up rounds.
SwapFaithful ==
  [][\A m \in Migrators :
       live' # live /\ pc'[m] # pc[m] /\ sec[m] \notin shared =>
         \A k \in Keys \ raced[m] : rows'[live'][k] = rows[live][k]]_vars

\* Nor does an attempt with a second of its own swap once another one has
\* overtaken it, by a swap after it began to mirror: its changelog knows nothing
\* of the rows written since.
OvertakenNeverSwaps ==
  [][\A m \in overtaken : sec[m] \notin shared /\ pc'[m] = "done" => pc[m] = "done"]_vars

\* Shared seconds in which an attempt has swapped, and dropped what is named after them
\* while another attempt may still create its trigger.
Exposed == {s \in shared : backupOf[s] # Nil}

\* The application's statements succeed: a trigger on the live table finds its
\* function and its changelog, also one that a failed attempt left behind and one that
\* attempts share, unless one of those that share it has swapped.
TriggersWork == Firing \ Exposed \subseteq hasFn \cap hasLog

\* Attempts never make each other fail in vain: if no statement failed for a
\* reason of its own and all of them are over, one has swapped.
SomeoneSwaps ==
  attempts > 0 /\ ~faulted /\ (\A m \in Migrators : pc[m] \notin Steps) => live # 0

-----------------------------------------------------------------------------
(* Why they hold: the inductive invariant.                                   *)

\* A second that no attempt has drawn names nothing.
Unnamed(s) ==
  /\ shadowOf[s] = Nil /\ backupOf[s] = Nil
  /\ s \notin hasLog /\ s \notin hasFn
  /\ \A t \in Tables : <<t, s>> \notin triggers

SecondsOK ==
  /\ \A m \in Migrators : pc[m] # "idle" => sec[m] \in drawn
  /\ \A m, n \in Migrators :
       m # n /\ pc[m] # "idle" /\ pc[n] # "idle" /\ sec[m] = sec[n] => sec[m] \in shared
  /\ \A s \in Seconds \ drawn : Unnamed(s)

\* A table has one name at a time, and only used tables have triggers.
NamesOK ==
  \A s \in Seconds : shadowOf[s] # Nil =>
    /\ shadowOf[s] \notin Used
    /\ \A r \in Seconds : <<shadowOf[s], r>> \notin triggers
    /\ \A r \in Seconds \ {s} : shadowOf[r] # shadowOf[s]

\* A trigger's function and changelog are there, whatever became of its table.
TriggersComplete ==
  \A t \in Tables, s \in Seconds \ Exposed :
    <<t, s>> \in triggers => s \in hasFn /\ s \in hasLog

\* An attempt that has seen its changelog finds it until one of its second swaps.
LogsReady ==
  \A m \in Migrators :
    pc[m] \in Steps \ {"shadow", "changelog"} /\ backupOf[sec[m]] = Nil => sec[m] \in hasLog

Own(m) == pc[m] \in Steps /\ sec[m] \notin shared

\* What an attempt with a second of its own has created so far, and that its
\* trigger is on the live table until it is overtaken.
OwnObjects(m) ==
  LET s == sec[m] IN
  /\ backupOf[s] = Nil
  /\ shadowOf[s] = Nil <=> pc[m] = "shadow"
  /\ pc[m] \notin {"shadow", "changelog"} => s \in hasLog
  /\ pc[m] \notin {"shadow", "changelog", "function"} => s \in hasFn
  /\ pc[m] \notin Mirroring =>
       /\ \A t \in Tables : <<t, s>> \notin triggers
       /\ s \in hasLog => log[s] = {}
       /\ pc[m] # "shadow" => rows[shadowOf[s]] = Empty
  /\ pc[m] \in Mirroring =>
       IF m \in overtaken THEN Blocked(s) ELSE <<live, s>> \in triggers

\* OnlineRewrite's argument, for a trigger that is on the live table.
OwnRecorded(m) ==
  LET s == sec[m]
      Same(k) == rows[shadowOf[s]][k] = rows[live][k]
  IN  /\ pc[m] = "backfill" => \A k \in todo[m] : rows[shadowOf[s]][k] = NoRow
      /\ \A k \in Keys \ raced[m] :
           /\ (pc[m] = "backfill" => k \notin todo[m]) => Same(k) \/ k \in log[s]
           /\ pc[m] = "delete" /\ k \in batch[m] => Same(k) \/ rows[live][k] = NoRow
           /\ pc[m] = "clear" /\ k \in batch[m] => Same(k)

\* Until a statement fails for a reason of its own or a swap takes place, every statement
\* finds what it names, except where another attempt of the same second has created the
\* trigger first.  So there is an attempt that is not over and, once there is a trigger,
\* one that mirrors.
Undisturbed ==
  live = 0 /\ ~faulted =>
    /\ \A m \in Migrators : pc[m] # "done"
    /\ \A s \in Seconds : backupOf[s] = Nil
    /\ \A t \in Tables, s \in Seconds : <<t, s>> \in triggers => t = 0
    /\ \A m \in Migrators :
         /\ pc[m] \in Steps \ {"shadow"} => shadowOf[sec[m]] # Nil
         /\ pc[m] \in Steps \ {"shadow", "changelog"} => sec[m] \in hasLog
         /\ pc[m] \in Steps \ {"shadow", "changelog", "function"} => sec[m] \in hasFn
    /\ attempts > 0 => \E m \in Migrators : pc[m] \in Steps
    /\ triggers # {} => \E m \in Migrators : pc[m] \in Mirroring

FleetInv ==
  /\ TypeOK
  /\ SecondsOK
  /\ NamesOK
  /\ TriggersComplete
  /\ LogsReady
  /\ \A m \in Migrators : Own(m) => OwnObjects(m)
  /\ \A m \in Migrators :
       Own(m) /\ pc[m] \in Mirroring /\ m \notin overtaken => OwnRecorded(m)
  /\ Undisturbed

=============================================================================
