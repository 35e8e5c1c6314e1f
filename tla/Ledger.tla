------------------------------- MODULE Ledger -------------------------------
(***************************************************************************)
(* The chain as confirm_transaction sees it through getBlockHeight and     *)
(* getSignatureStatuses, about one transaction whose blockhash is valid up *)
(* to block height LastValid.  None of it is code of the repository.       *)
(*                                                                         *)
(* A commitment level is the rank solders gives it.  A fork may drop       *)
(* processed blocks; a confirmed block stays.                              *)
(***************************************************************************)
EXTENDS Integers

CONSTANTS
    LastValid,     \* the block height by which the transaction becomes invalid
    MaxHeight,     \* bound on the height of the chain
    MaxForks,      \* bound on the switches to another fork
    Retained       \* MAX_RECENT_BLOCKHASHES: the rooted blocks whose statuses a node keeps

ASSUME LedgerAssumption ==
    /\ LastValid \in Nat \ {0}
    /\ MaxHeight \in Nat /\ MaxHeight > LastValid
    /\ MaxForks \in Nat
    /\ Retained \in Nat \ {0}

Processed == 0
Confirmed == 1
Finalized == 2
Levels    == {Processed, Confirmed, Finalized}

VARIABLES
    bank,       \* the height of the chain at each level
    at,         \* the height of the block that holds the transaction, or 0
    known,      \* has the transaction reached a leader?
    forks       \* forks so far

ledgerVars == <<bank, at, known, forks>>

LedgerTypeOK ==
    /\ bank \in [Levels -> 0..MaxHeight]
    /\ at \in 0..LastValid
    /\ known \in BOOLEAN
    /\ forks \in 0..MaxForks

LedgerInit ==
    /\ bank = [l \in Levels |-> 0]
    /\ at = 0
    /\ forks = 0

(* The leader appends a block, with the transaction while it is valid.     *)
Produce ==
    /\ bank[Processed] < MaxHeight
    /\ bank' = [bank EXCEPT ![Processed] = @ + 1]
    /\ \/ at' = at
       \/ /\ known /\ at = 0
          /\ bank[Processed] + 1 <= LastValid
          /\ at' = bank[Processed] + 1
    /\ UNCHANGED <<known, forks>>

(* The cluster votes: the next block reaches level l.                      *)
Advance(l) ==
    /\ bank[l] < bank[l - 1]
    /\ bank' = [bank EXCEPT ![l] = @ + 1]
    /\ UNCHANGED <<at, known, forks>>

(* Processed blocks that were never confirmed are dropped.                 *)
Fork ==
    /\ forks < MaxForks
    /\ forks' = forks + 1
    /\ \E h \in 0..MaxHeight :
        /\ bank[Confirmed] <= h /\ h < bank[Processed]
        /\ bank' = [bank EXCEPT ![Processed] = h]
        /\ at' = IF at > h THEN 0 ELSE at
    /\ UNCHANGED known

LedgerStep == Produce \/ Advance(Confirmed) \/ Advance(Finalized) \/ Fork

(* Without searchTransactionHistory, getSignatureStatuses looks only in    *)
(* the recent status cache: blocks that are not rooted, and the last       *)
(* Retained rooted ones.                                                   *)
Forgotten == at # 0 /\ at + Retained <= bank[Finalized]

(* The confirmation_status it reports: no status, or the highest level     *)
(* that holds the transaction.                                             *)
NoStatus == -1

ConfirmationStatus ==
    IF at = 0 \/ at > bank[Processed] \/ Forgotten THEN NoStatus
    ELSE IF at <= bank[Finalized] THEN Finalized
    ELSE IF at <= bank[Confirmed] THEN Confirmed
    ELSE Processed
=============================================================================
