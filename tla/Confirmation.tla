---------------------------- MODULE Confirmation ----------------------------
(***************************************************************************)
(* AsyncClient.send_raw_transaction and confirm_transaction: one task that *)
(* sends a transaction and polls for it, by block height when it was given *)
(* a last valid block height and against the clock otherwise.              *)
(*                                                                         *)
(* Each await is a value of pc.  A request is evaluated by the node and    *)
(* its answer processed in one action: nothing else reads or writes the    *)
(* state of the client, so the delay between the two is not visible.  A    *)
(* request may take up to one tick of the clock, and sleep takes one.      *)
(*                                                                         *)
(* Definitions named Slip... are deliberate mistakes, one step away from   *)
(* the definition that follows; no specification uses them.                *)
(***************************************************************************)
EXTENDS Ledger

CONSTANTS
    Timeout        \* the 90 seconds of the clock path, in ticks

ASSUME ConfirmationAssumption == Timeout \in Nat \ {0}

VARIABLES
    client,     \* the client's default commitment
    opts,       \* the TxOpts of the call
    pc,         \* what the task awaits
    seen,       \* current_blockheight
    elapsed,    \* ticks since confirm_transaction began, at most Timeout + 1
    outcome     \* what the call returned or raised

clientVars == <<client, opts, pc, seen, elapsed, outcome>>
vars       == <<ledgerVars, clientVars>>

NoLevel  == 3                              \* preflight_commitment is None
NoHeight == -1                             \* last_valid_block_height is None
TxOpts   == [skip : BOOLEAN, preflight : Levels \cup {NoLevel}, height : {NoHeight, 0, LastValid}]
Awaits   == {"sending", "firstHeight", "status", "height", "sleeping", "finalStatus", "done"}
Outcomes == {"none", "sent", "no_result", "rpc_error", "cancelled",
             "confirmed", "expired", "unconfirmed"}

TypeOK ==
    /\ LedgerTypeOK
    /\ client \in Levels
    /\ opts \in TxOpts
    /\ pc \in Awaits
    /\ seen \in 0..MaxHeight
    /\ elapsed \in 0..(Timeout + 1)
    /\ outcome \in Outcomes
    /\ (pc = "done" <=> outcome # "none")

(* opts.preflight_commitment or self._commitment: the same level for the   *)
(* preflight, the height and the status.                                   *)
Commitment == IF opts.preflight = NoLevel THEN client ELSE opts.preflight

(* The height is tested for truth.                                         *)
SlipTestedForNone == opts.height # NoHeight

UsesHeight == opts.height \notin {NoHeight, 0}
FirstPoll  == IF UsesHeight THEN "firstHeight" ELSE "status"

(* A call of send_raw_transaction, or of confirm_transaction alone for a   *)
(* transaction that was sent before.                                       *)
Init ==
    /\ LedgerInit
    /\ client \in Levels
    /\ opts \in TxOpts
    /\ pc \in {"sending", FirstPoll}
    /\ known = (pc # "sending")
    /\ seen = 0
    /\ elapsed = 0
    /\ outcome = "none"

SlipNoResult(o) ==
    /\ pc' = "done"
    /\ outcome' = IF o = "confirmed" THEN outcome ELSE o

Conclude(o) ==
    /\ pc' = "done"
    /\ outcome' = o

Later      == IF elapsed <= Timeout THEN elapsed + 1 ELSE elapsed
TimePasses == elapsed' \in {elapsed, Later}

----------------------------------------------------------------------------
(* The node took the transaction and answers with its signature.           *)
SendOk ==
    /\ pc = "sending"
    /\ known' = TRUE
    /\ IF opts.skip THEN Conclude("sent") ELSE pc' = FirstPoll /\ UNCHANGED outcome
    /\ UNCHANGED <<bank, at, forks, client, opts, seen, elapsed>>

(* Every attempt failed, or the answer is an error; the transaction may    *)
(* have reached a leader all the same.  An answer without a signature has  *)
(* sent nothing.                                                           *)
SendFails ==
    /\ pc = "sending"
    /\ \/ known' \in BOOLEAN /\ Conclude("rpc_error")
       \/ known' = FALSE /\ Conclude("no_result")
    /\ UNCHANGED <<bank, at, forks, client, opts, seen, elapsed>>

(* while current_blockheight <= last_valid_block_height, and its else.     *)
HeightLoop(h) == IF h <= opts.height THEN "status" ELSE "finalStatus"

AskFirstHeight ==
    /\ pc = "firstHeight"
    /\ seen' = bank[Commitment]
    /\ pc' = HeightLoop(seen')
    /\ TimePasses
    /\ UNCHANGED <<ledgerVars, client, opts, outcome>>

SlipHeightStale ==
    /\ pc = "height"
    /\ pc' = "sleeping"
    /\ TimePasses
    /\ UNCHANGED <<ledgerVars, client, opts, seen, outcome>>

AskHeight ==
    /\ pc = "height"
    /\ seen' = bank[Commitment]
    /\ pc' = "sleeping"
    /\ TimePasses
    /\ UNCHANGED <<ledgerVars, client, opts, outcome>>

ReachedCommitment == ConfirmationStatus >= Commitment

AskStatus ==
    /\ pc = "status"
    /\ IF ReachedCommitment THEN Conclude("confirmed")
       ELSE pc' = (IF UsesHeight THEN "height" ELSE "sleeping") /\ UNCHANGED outcome
    /\ TimePasses
    /\ UNCHANGED <<ledgerVars, client, opts, seen>>

(* sleep is over: the loop condition is evaluated again, on the height     *)
(* asked for before the sleep, or on the clock.                            *)
WakeByHeight ==
    /\ pc = "sleeping" /\ UsesHeight
    /\ elapsed' = Later
    /\ pc' = HeightLoop(seen)
    /\ UNCHANGED <<ledgerVars, client, opts, seen, outcome>>

WakeByClock ==
    /\ pc = "sleeping" /\ ~UsesHeight
    /\ elapsed' = Later
    /\ IF Later < Timeout THEN pc' = "status" /\ UNCHANGED outcome ELSE Conclude("unconfirmed")
    /\ UNCHANGED <<ledgerVars, client, opts, seen>>

SlipNoFinalPoll ==
    /\ pc = "finalStatus"
    /\ Conclude("expired")
    /\ TimePasses
    /\ UNCHANGED <<ledgerVars, client, opts, seen>>

(* The last poll, after the height was seen to be exceeded.                *)
AskFinalStatus ==
    /\ pc = "finalStatus"
    /\ Conclude(IF ReachedCommitment THEN "confirmed" ELSE "expired")
    /\ TimePasses
    /\ UNCHANGED <<ledgerVars, client, opts, seen>>

(* A request raises, or the task is cancelled: nothing is caught.  Inside  *)
(* the send, the transaction may have reached a leader all the same.       *)
Interrupted ==
    /\ pc # "done"
    /\ \/ pc \notin {"sending", "sleeping"} /\ Conclude("rpc_error")
       \/ Conclude("cancelled")
    /\ IF pc = "sending" THEN known' \in BOOLEAN ELSE UNCHANGED known
    /\ UNCHANGED <<bank, at, forks, client, opts, seen, elapsed>>

Poll == AskFirstHeight \/ AskHeight \/ AskStatus \/ WakeByHeight \/ WakeByClock \/ AskFinalStatus

Chain == LedgerStep /\ UNCHANGED clientVars

Next == SendOk \/ SendFails \/ Poll \/ Interrupted \/ Chain

Spec == Init /\ [][Next]_vars

(* The HTTP session times requests out and the event loop wakes a sleeper. *)
PollSpec == Spec /\ WF_vars(Poll)

(* The chain produces blocks and votes on them.                            *)
ChainGrows ==
    /\ WF_vars(Produce /\ UNCHANGED clientVars)
    /\ WF_vars(Advance(Confirmed) /\ UNCHANGED clientVars)
    /\ WF_vars(Advance(Finalized) /\ UNCHANGED clientVars)

----------------------------------------------------------------------------
(* The fate of the transaction is settled at level confirmed.  A claim     *)
(* about a processed block promises nothing: a fork may drop it.           *)
Fate ==
    IF at # 0 /\ at <= bank[Confirmed] THEN "confirmed"
    ELSE IF bank[Confirmed] >= LastValid THEN "expired"
    ELSE "open"

Claim ==
    IF Commitment # Processed /\ outcome \in {"confirmed", "expired"} THEN outcome ELSE "none"

V == INSTANCE Verdict WITH fate <- Fate, recalled <- ~Forgotten, claim <- Claim

(* At confirmed or finalized the call never reports a transaction that a   *)
(* fork can still drop, and never reports as expired one that still may    *)
(* land or has landed, unless the node had forgotten its status by then,   *)
(* however blocks, votes and forks fall between its polls.                 *)
ClaimsAreTrue == V!Spec

Polling == pc \notin {"sending", "done"}

(* Without a last valid block height, or with one of 0, the call ends by   *)
(* the clock, even on a chain that has stopped.                            *)
ClockConcludes == Polling /\ opts.height \in {NoHeight, 0} ~> pc = "done"

(* With a last valid block height the call ends if the chain grows past it. *)
HeightConcludes == ChainGrows => (Polling /\ UsesHeight ~> pc = "done")

(* models.py on skip_confirmation: send_transaction polls until the        *)
(* transaction is confirmed, the blockhash expires, or a 90-second timeout *)
(* elapses.                                                                *)
TimeoutElapses == elapsed > Timeout => ~Polling
=============================================================================
