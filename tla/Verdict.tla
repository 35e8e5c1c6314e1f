------------------------------- MODULE Verdict -------------------------------
(***************************************************************************)
(* What a confirmation promises.  A transaction has one fate: it lands in  *)
(* a block that no fork can drop, or its blockhash expires and it never    *)
(* will.  The client may claim either, once, and only when it is so as far *)
(* as the node recalls: of a transaction that landed so long ago that the  *)
(* node has forgotten its status, all a client can claim is its expiry.    *)
(***************************************************************************)

VARIABLES
    fate,       \* "open", "confirmed" or "expired"
    recalled,   \* does the node still know the status of a transaction that landed?
    claim       \* what the client told its caller: "none", or a fate

Init ==
    /\ fate = "open"
    /\ recalled = TRUE
    /\ claim = "none"

Settle ==
    /\ fate = "open"
    /\ fate' \in {"confirmed", "expired"}
    /\ UNCHANGED <<recalled, claim>>

Forget ==
    /\ fate = "confirmed" /\ recalled
    /\ recalled' = FALSE
    /\ UNCHANGED <<fate, claim>>

Claim ==
    /\ claim = "none"
    /\ fate # "open"
    /\ claim' = IF recalled THEN fate ELSE "expired"
    /\ UNCHANGED <<fate, recalled>>

Next == Settle \/ Forget \/ Claim

Spec == Init /\ [][Next]_<<fate, recalled, claim>>
=============================================================================
