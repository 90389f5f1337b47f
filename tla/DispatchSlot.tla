---------------------------- MODULE DispatchSlot ----------------------------
(***************************************************************************)
(* What the dedup key of harness/bus.py promises the scheduler that fires  *)
(* through try_send: per kind one slot, claimed by a fire, in use while    *)
(* the prompt executes, and free again before the next fire can claim it.  *)
(***************************************************************************)
CONSTANT SlotKinds

VARIABLE phase

TypeOK == phase \in [SlotKinds -> {"free", "queued", "running"}]

Init == phase = [k \in SlotKinds |-> "free"]

\* One slot moves from phase a to phase b.
Move(k, a, b) ==
    /\ phase[k] = a
    /\ phase' = [phase EXCEPT ![k] = b]

Claim(k)  == Move(k, "free", "queued")
Start(k)  == Move(k, "queued", "running")
Finish(k) == Move(k, "running", "free")

Next == \E k \in SlotKinds : Claim(k) \/ Start(k) \/ Finish(k)

Spec == Init /\ [][Next]_phase
=============================================================================
