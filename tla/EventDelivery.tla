--------------------------- MODULE EventDelivery ---------------------------
(***************************************************************************)
(* What the telemetry plane promises of each event, with no queue and no   *)
(* tasks: it is refused at once or accepted; an accepted event is handed   *)
(* to the subscribers at most once, oldest first; a handler either         *)
(* finishes or is abandoned, and neither can be undone.                    *)
(***************************************************************************)
EXTENDS Naturals

CONSTANT MaxEvents
VARIABLE fate

Events == 1..MaxEvents

Init == fate = [n \in Events |-> "unpublished"]

Becomes(n, old, new) == /\ fate[n] = old
                        /\ fate' = [fate EXCEPT ![n] = new]

Published(n) == fate[n] # "unpublished"

(* Events are published in the order of their numbers.                     *)
Accept(n)  == (\A m \in 1..(n - 1) : Published(m)) /\ Becomes(n, "unpublished", "queued")
Refuse(n)  == (\A m \in 1..(n - 1) : Published(m)) /\ Becomes(n, "unpublished", "dropped")

Oldest(n)  == fate[n] = "queued" /\ \A m \in 1..(n - 1) : fate[m] # "queued"

HandOff(n) == Oldest(n) /\ Becomes(n, "queued", "held")
Finish(n)  == Becomes(n, "held", "done")
Abandon(n) == Becomes(n, "held", "cancelled")

(* One handler returns and the same task picks up the next event.          *)
FinishAndHandOff(m, n) == /\ fate[m] = "held"
                          /\ Oldest(n)
                          /\ fate' = [fate EXCEPT ![m] = "done", ![n] = "held"]

Next == \E n \in Events :
          \/ Accept(n) \/ Refuse(n) \/ HandOff(n) \/ Finish(n) \/ Abandon(n)
          \/ \E m \in Events : FinishAndHandOff(m, n)

Spec == Init /\ [][Next]_fate
=============================================================================
