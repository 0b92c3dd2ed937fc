----------------------------- MODULE LiveTable ------------------------------
(***************************************************************************)
(* What an online rewrite promises the application: it keeps reading and   *)
(* writing ONE table, whose contents change when a writer's transaction    *)
(* commits and at no other moment.  Creating, filling, swapping or         *)
(* abandoning a shadow table is invisible here.                            *)
(***************************************************************************)
EXTENDS RowChanges

CONSTANTS
  Writers,  \* application sessions
  Idle      \* the writer has no open transaction

VARIABLES
  table,    \* the committed rows of the table the application names
  change    \* each writer's open, uncommitted change

ltVars == <<table, change>>

Init ==
  /\ table \in Table
  /\ change = [w \in Writers |-> Idle]

\* Row locks and the primary key index serialise writers that touch one key.
Free(k) == \A w \in Writers : change[w] # Idle => k \notin Touched(change[w])

Write(w) ==
  /\ change[w] = Idle
  /\ \E c \in ChangesOn(table) :
        /\ \A k \in Touched(c) : Free(k)
        /\ change' = [change EXCEPT ![w] = c]
  /\ UNCHANGED table

Commit(w) ==
  /\ change[w] # Idle
  /\ table' = Apply(table, change[w])
  /\ change' = [change EXCEPT ![w] = Idle]

Abort(w) ==
  /\ change[w] # Idle
  /\ change' = [change EXCEPT ![w] = Idle]
  /\ UNCHANGED table

Next == \E w \in Writers : Write(w) \/ Commit(w) \/ Abort(w)

Spec == Init /\ [][Next]_ltVars
=============================================================================
