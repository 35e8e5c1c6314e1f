---------------------------- MODULE Subscriptions ----------------------------
(***************************************************************************)
(* What SolanaWsClient promises of a subscription: it is asked for once,   *)
(* then live, then gone, and never comes back.  Each lives and dies alone, *)
(* unless the connection takes all of them with it; an ended connection    *)
(* has none and gets none.                                                 *)
(***************************************************************************)
CONSTANT Handles       \* the subscriptions that may be asked for

VARIABLES
    life,       \* of each handle: "none", "asked", "live" or "gone"
    over        \* has the connection ended?

subscriptionVars == <<life, over>>

Init ==
    /\ life = [h \in Handles |-> "none"]
    /\ over = FALSE

Becomes(h, from, to) ==
    /\ ~over
    /\ life[h] = from
    /\ life' = [life EXCEPT ![h] = to]
    /\ UNCHANGED over

Ask(h)     == Becomes(h, "none", "asked")
Confirm(h) == Becomes(h, "asked", "live")
Fail(h)    == Becomes(h, "asked", "gone")      \* refused, or cancelled unsent
End(h)     == Becomes(h, "live", "gone")       \* unsubscribed, or its last notification

Disconnect ==
    /\ over' = TRUE
    /\ life' = [h \in Handles |-> IF life[h] = "none" THEN "none" ELSE "gone"]

Next == Disconnect \/ \E h \in Handles : Ask(h) \/ Confirm(h) \/ Fail(h) \/ End(h)

Spec == Init /\ [][Next]_subscriptionVars
=============================================================================
