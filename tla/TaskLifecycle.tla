---------------------------- MODULE TaskLifecycle ----------------------------
(***************************************************************************)
(* The life of an A2A task as its state type names it (a2a/types.rs): a    *)
(* task is submitted, worked on, and reaches one terminal state.           *)
(***************************************************************************)

CONSTANT Tasks

VARIABLE life   \* life[t]: "none" before SendMessage creates t, then its state

Terminal == {"completed", "failed", "canceled"}

Init == life = [t \in Tasks |-> "none"]

Becomes(t, from, to) == life[t] \in from /\ life' = [life EXCEPT ![t] = to]

Submit(t) == Becomes(t, {"none"}, "submitted")
Work(t)   == Becomes(t, {"submitted"}, "working")
Settle(t) == \E end \in Terminal : Becomes(t, {"submitted", "working"}, end)

Next == \E t \in Tasks : Submit(t) \/ Work(t) \/ Settle(t)

Spec == Init /\ [][Next]_life
=============================================================================
