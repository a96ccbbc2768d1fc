-------------------------- MODULE CheckpointStore --------------------------
(***************************************************************************)
(* What tiered checkpoint storage promises: a log per shard.  A checkpoint *)
(* joins its log whole, at an epoch no older than the one before it; a     *)
(* restore hands back a checkpoint of the log it asked, no newer than the  *)
(* gate; and nothing but the end of the process takes a checkpoint away.   *)
(***************************************************************************)
EXTENDS Naturals, Sequences

CONSTANTS Shards, Payloads, Epochs, NoGate
VARIABLES log,       \* per shard: the checkpoints taken, [epoch, payload]
          restored   \* the last restore: its shard, its gate, what it returned

vars == <<log, restored>>

Nothing == [shard |-> "none", gate |-> 0, payload |-> 0]

Init == /\ log = [sh \in Shards |-> << >>]
        /\ restored = Nothing

Take(sh, e, p) ==
  /\ \A i \in 1..Len(log[sh]) : log[sh][i].epoch <= e /\ log[sh][i].payload # p
  /\ log' = [log EXCEPT ![sh] = Append(@, [epoch |-> e, payload |-> p])]
  /\ UNCHANGED restored

Restore(sh, gate) ==
  /\ \E i \in 1..Len(log[sh]) :
       /\ gate # NoGate => log[sh][i].epoch <= gate
       /\ restored' = [shard |-> sh, gate |-> gate, payload |-> log[sh][i].payload]
  /\ UNCHANGED log

Clear   == restored' = Nothing /\ UNCHANGED log    \* a later restore begins or fails

Next == \/ \E sh \in Shards : \/ \E e \in Epochs, p \in Payloads : Take(sh, e, p)
                              \/ \E gate \in Epochs \cup {NoGate} : Restore(sh, gate)
        \/ Clear
        \/ /\ log' = [sh \in Shards |-> << >>]
           /\ restored' = Nothing

Spec == Init /\ [][Next]_vars
=============================================================================
