---------------------------- MODULE AeadEndpoint ----------------------------
(***************************************************************************)
(* What both backends promise the user of sealed objects, whatever their   *)
(* threads, streams, queues and failures: an open is answered once, and    *)
(* the only plaintext it can be answered with is one that was sealed under *)
(* the same key with the same length.  GpuAesGcm and NativeSerde implement *)
(* this specification.                                                     *)
(***************************************************************************)

CONSTANTS
  Slots,  \* plaintext buffers; one open at a time uses one
  Keys,
  Sizes   \* lengths of plaintexts

VARIABLES
  committed, \* the messages sealed: key, plaintext and its length
  open       \* per slot, what its latest open is known to have done

vars == <<committed, open>>

Unused == [state |-> "unused"]
Pending(key, n) == [state |-> "pending", key |-> key, n |-> n]
Accepted(m) == [state |-> "accepted", message |-> m]
Refused == [state |-> "refused"]

Commit ==
  /\ committed \subseteq committed'
  /\ UNCHANGED open

\* A slot is used again, or its buffer for something else.
Ask(s) ==
  /\ \E key \in Keys, n \in Sizes : open' = [open EXCEPT ![s] = Pending(key, n)]
  /\ UNCHANGED committed

Forget(s) ==
  /\ open' = [open EXCEPT ![s] = Unused]
  /\ UNCHANGED committed

Accept(s) ==
  /\ \E m \in committed :
       /\ open[s] = Pending(m.key, m.n)
       /\ open' = [open EXCEPT ![s] = Accepted(m)]
  /\ UNCHANGED committed

Refuse(s) ==
  /\ open[s].state = "pending"
  /\ open' = [open EXCEPT ![s] = Refused]
  /\ UNCHANGED committed

Init == open = [s \in Slots |-> Unused]

Next == Commit \/ \E s \in Slots : Ask(s) \/ Forget(s) \/ Accept(s) \/ Refuse(s)

Spec == Init /\ [][Next]_vars

=============================================================================
