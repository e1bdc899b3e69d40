---------------------------- MODULE TaskDelivery -----------------------------
(* What the queue of a host promises about the tasks sent to it: at least    *)
(* one run each.  A task that waits is never lost; one that runs may end, or  *)
(* has to wait again, for a second delivery; one that ended stays so.         *)

CONSTANT Tasks

VARIABLE fate   \* task -> "unsent", "waiting", "running" or "ended"

Init == fate = [t \in Tasks |-> "unsent"]

Move(t, from, to) ==
    /\ fate[t] = from
    /\ fate' = [fate EXCEPT ![t] = to]

Send(t) == Move(t, "unsent", "waiting")

Run(t) == Move(t, "waiting", "running")

\* One task ends, or all those that a worker ran end with it.
Leave(S) ==
    /\ \A t \in S : fate[t] = "running"
    /\ fate' \in [Tasks -> {"unsent", "waiting", "running", "ended"}]
    /\ \A t \in Tasks : IF t \in S THEN fate'[t] \in {"waiting", "ended"}
                                   ELSE fate'[t] = fate[t]

Next ==
    \/ \E t \in Tasks : Send(t) \/ Run(t)
    \/ \E S \in SUBSET Tasks : Leave(S)

Spec == Init /\ [][Next]_fate
=============================================================================
