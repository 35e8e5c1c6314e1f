-------------------------- MODULE NotificationStream --------------------------
(***************************************************************************)
(* What a receiver of SolanaWsClient is promised, without the queue: the   *)
(* notifications of one connection are numbered as the client reads them,  *)
(* and the receiver gets some of them, in order and each once.  Which ones *)
(* it misses is bounded by the number of notifications it is behind:       *)
(* nothing is lost while fewer than Capacity are unread.                   *)
(***************************************************************************)
EXTENDS Integers, Sequences

CONSTANT Capacity      \* the notifications kept for a receiver that is behind

VARIABLES
    policy,     \* what happens to the next notification when the receiver is
                \* Capacity behind: "raise", "drop_oldest" or "drop_newest"
    seen,       \* the last notification the client took in
    got,        \* what the receiver got
    lost,       \* how many the receiver will never get
    ended,      \* is the connection over?
    told        \* has the receiver been told?

streamVars == <<policy, seen, got, lost, ended, told>>

Unread == seen - lost - Len(got)
Behind == Unread >= Capacity
Last   == IF got = <<>> THEN 0 ELSE got[Len(got)]

Init ==
    /\ policy \in {"raise", "drop_oldest", "drop_newest"}
    /\ seen = 0
    /\ got = <<>>
    /\ lost = 0
    /\ ended = FALSE
    /\ told = FALSE

(* A notification is taken in ...                                          *)
Accept ==
    /\ ~ended /\ ~Behind
    /\ seen' = seen + 1
    /\ UNCHANGED <<policy, got, lost, ended, told>>

(* ... or, by a client that may lose some, costs one of them.              *)
AcceptWithLoss ==
    /\ ~ended /\ Behind /\ policy # "raise"
    /\ seen' = seen + 1
    /\ lost' = lost + 1
    /\ UNCHANGED <<policy, got, ended, told>>

(* The unread notifications are among those after the last one received.   *)
(* Under drop_oldest they are the latest: the receiver never gets one that *)
(* is Capacity or more behind.                                             *)
Deliver ==
    /\ Unread > 0 /\ ~told
    /\ \E n \in (Last + 1)..(seen - Unread + 1) :
        /\ policy = "drop_oldest" => n = seen - Unread + 1
        /\ got' = Append(got, n)
    /\ UNCHANGED <<policy, seen, lost, ended, told>>

End ==
    /\ ended' = TRUE
    /\ UNCHANGED <<policy, seen, got, lost, told>>

(* The receiver is told of the end when it has all it will get.            *)
Tell ==
    /\ ended /\ Unread = 0
    /\ told' = TRUE
    /\ UNCHANGED <<policy, seen, got, lost, ended>>

Next == Accept \/ AcceptWithLoss \/ Deliver \/ End \/ Tell

Spec == Init /\ [][Next]_streamVars
=============================================================================
