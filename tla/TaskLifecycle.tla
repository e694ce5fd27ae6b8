---------------------------- MODULE TaskLifecycle ----------------------------
(***************************************************************************)
(* What the HBA does to a task, without connections, queues or PDUs.  The  *)
(* stack sees a task accepted and completed; between the two it is queued, *)
(* then sent, once each and in this order.  A queued task can be lost: it  *)
(* leaves its queue undispatched and uncompleted, and only a timer of an   *)
(* earlier submission that comes late can still complete it.  Tearing down *)
(* a connection moves several tasks in one step, so a step moves any set.  *)
(***************************************************************************)
CONSTANT Tasks

VARIABLE state

States == {"idle", "queued", "sent", "lost"}

Moves == { <<"idle", "queued">>,    \* accepted
           <<"queued", "sent">>,    \* dispatched
           <<"sent", "idle">>,      \* answered, or timed out
           <<"queued", "idle">>,    \* failed by a late timer
           <<"queued", "lost">>,
           <<"lost", "idle">> }

Init == state = [t \in Tasks |-> "idle"]

Next == /\ state' \in [Tasks -> States]
        /\ \A t \in Tasks : state'[t] # state[t] => <<state[t], state'[t]>> \in Moves

Spec == Init /\ [][Next]_state
=============================================================================
