----------------------------- MODULE RowDelivery -----------------------------
(***************************************************************************)
(* What a columnar reader promises: the rows of the result in order, in    *)
(* batches that are full except the last, and then the end; or an error,   *)
(* after which it promises nothing.                                        *)
(***************************************************************************)
EXTENDS Integers, Sequences

CONSTANT Capacity   \* rows of a batch

VARIABLES
  undelivered,  \* rows the caller has not been given
  delivered,    \* rows it has been given
  state         \* "open", "ended" or "failed"

vars == <<undelivered, delivered, state>>

Init == delivered = <<>> /\ state = "open"

\* One call that returns Ok(n).
Deliver(n) ==
  /\ state = "open"
  /\ n < Capacity => n = Len(undelivered)
  /\ delivered' = delivered \o SubSeq(undelivered, 1, n)
  /\ undelivered' = SubSeq(undelivered, n + 1, Len(undelivered))
  /\ state' = IF n < Capacity THEN "ended" ELSE "open"

Fail ==
  /\ state = "open"
  /\ state' = "failed"
  /\ UNCHANGED <<undelivered, delivered>>

Next == Fail \/ \E n \in 0..Capacity : n <= Len(undelivered) /\ Deliver(n)

Spec == Init /\ [][Next]_vars
=============================================================================
