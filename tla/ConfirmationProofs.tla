------------------------- MODULE ConfirmationProofs -------------------------
(***************************************************************************)
(* What confirm_transaction claims is true, for every last valid height,   *)
(* every height and number of forks of the chain, every status cache and   *)
(* every timeout.                                                          *)
(***************************************************************************)
EXTENDS Confirmation, TLAPS

USE LedgerAssumption, ConfirmationAssumption
    DEF LedgerAssumption, ConfirmationAssumption

(* A level is at most as high as the one below it, and holds no block the  *)
(* chain does not have.                                                    *)
ChainOrdered ==
    /\ bank[Finalized] <= bank[Confirmed]
    /\ bank[Confirmed] <= bank[Processed]
    /\ at <= bank[Processed]

(* The height the client last saw is still reached, unless it asked for    *)
(* processed blocks; and the last poll comes after the height was seen to  *)
(* be exceeded.                                                            *)
SeenIsReached  == Commitment # Processed => seen <= bank[Commitment]
FinalIsExpired ==
    /\ pc = "finalStatus" => UsesHeight /\ seen > opts.height
    /\ pc \in {"firstHeight", "height"} => UsesHeight

ConfInv == TypeOK /\ ChainOrdered /\ SeenIsReached /\ FinalIsExpired

LEMMA CommitmentIsLevel == TypeOK => Commitment \in Levels
BY DEF TypeOK, Commitment, TxOpts, NoLevel, Levels, Processed, Confirmed, Finalized

(* The chain keeps the types and the order of its levels, never lowers a   *)
(* level above processed, settles a fate once, and forgets for good, only  *)
(* what was confirmed before.                                              *)
LEMMA ChainStep ==
    ASSUME LedgerTypeOK, ChainOrdered, LedgerStep
    PROVE  /\ LedgerTypeOK'
           /\ ChainOrdered'
           /\ bank'[Confirmed] >= bank[Confirmed]
           /\ bank'[Finalized] >= bank[Finalized]
           /\ Fate # "open" => Fate' = Fate
           /\ Fate' \in {"open", "confirmed", "expired"}
           /\ Forgotten => Forgotten'
           /\ ~Forgotten /\ Forgotten' => Fate = "confirmed"
<1> USE DEF LedgerTypeOK, ChainOrdered, Levels, Processed, Confirmed, Finalized, Fate, Forgotten
<1>1. CASE Produce
  BY <1>1 DEF Produce
<1>2. CASE Advance(Confirmed)
  BY <1>2 DEF Advance
<1>3. CASE Advance(Finalized)
  BY <1>3 DEF Advance
<1>4. CASE Fork
  <2>1. PICK h \in 0..MaxHeight :
            /\ bank[Confirmed] <= h /\ h < bank[Processed]
            /\ bank' = [bank EXCEPT ![Processed] = h]
            /\ at' = IF at > h THEN 0 ELSE at
    BY <1>4 DEF Fork
  <2>2. known' \in BOOLEAN /\ forks' \in 0..MaxForks
    BY <1>4 DEF Fork
  <2>3. QED BY <2>1, <2>2
<1>5. QED BY <1>1, <1>2, <1>3, <1>4 DEF LedgerStep

LEMMA ConfInvInit == Init => ConfInv
<1> SUFFICES ASSUME Init PROVE ConfInv
  OBVIOUS
<1> USE DEF Init, LedgerInit
<1>1. known \in BOOLEAN
  OBVIOUS
<1>2. TypeOK
  BY <1>1 DEF TypeOK, LedgerTypeOK, FirstPoll, Awaits, Outcomes, Levels, Processed, Confirmed,
              Finalized
<1>3. ChainOrdered /\ SeenIsReached
  BY <1>2, CommitmentIsLevel DEF ChainOrdered, SeenIsReached, Levels, Processed, Confirmed, Finalized
<1>4. FinalIsExpired
  BY DEF FinalIsExpired, FirstPoll
<1>5. QED BY <1>2, <1>3, <1>4 DEF ConfInv

(* Every step that is not of the chain leaves the chain alone.             *)
LEMMA ClientStep ==
    ASSUME TypeOK, SendOk \/ SendFails \/ Poll \/ Interrupted
    PROVE  /\ UNCHANGED <<bank, at, forks, client, opts>>
           /\ known' \in BOOLEAN
           /\ pc # "done"
<1> USE DEF TypeOK, LedgerTypeOK, ledgerVars
<1>1. CASE SendOk \/ SendFails
  BY <1>1 DEF SendOk, SendFails
<1>2. CASE Poll
  BY <1>2 DEF Poll, AskFirstHeight, AskHeight, AskStatus, WakeByHeight, WakeByClock, AskFinalStatus
<1>3. CASE Interrupted
  BY <1>3 DEF Interrupted
<1>4. QED BY <1>1, <1>2, <1>3

LEMMA ClientType ==
    ASSUME ConfInv, SendOk \/ SendFails \/ Poll \/ Interrupted
    PROVE  TypeOK'
<1> USE DEF ConfInv, TypeOK
<1>1. LedgerTypeOK' /\ client' \in Levels /\ opts' \in TxOpts /\ pc # "done"
  BY ClientStep DEF LedgerTypeOK
<1>2. bank[Commitment] \in 0..MaxHeight
  BY CommitmentIsLevel DEF LedgerTypeOK
<1>3. Later \in 0..(Timeout + 1) /\ (TimePasses => elapsed' \in 0..(Timeout + 1))
  BY DEF Later, TimePasses
<1>4. CASE SendOk \/ SendFails
  BY <1>1, <1>4 DEF SendOk, SendFails, Conclude, FirstPoll, Awaits, Outcomes
<1>5. CASE AskFirstHeight \/ AskHeight
  BY <1>1, <1>2, <1>3, <1>5 DEF AskFirstHeight, AskHeight, HeightLoop, Awaits
<1>6. CASE AskStatus \/ AskFinalStatus
  BY <1>1, <1>3, <1>6 DEF AskStatus, AskFinalStatus, Conclude, Awaits, Outcomes
<1>7. CASE WakeByHeight \/ WakeByClock
  BY <1>1, <1>3, <1>7 DEF WakeByHeight, WakeByClock, HeightLoop, Conclude, Awaits, Outcomes
<1>8. CASE Interrupted
  BY <1>1, <1>8 DEF Interrupted, Conclude, Awaits, Outcomes
<1>9. QED BY <1>4, <1>5, <1>6, <1>7, <1>8 DEF Poll

LEMMA ConfInvStep == ConfInv /\ [Next]_vars => ConfInv'
<1> SUFFICES ASSUME ConfInv, [Next]_vars PROVE ConfInv'
  OBVIOUS
<1> USE DEF ConfInv
<1>1. CASE Chain
  <2>1. LedgerTypeOK' /\ ChainOrdered' /\ bank'[Confirmed] >= bank[Confirmed]
                      /\ bank'[Finalized] >= bank[Finalized]
    BY <1>1, ChainStep DEF Chain, TypeOK
  <2>2. UNCHANGED clientVars
    BY <1>1 DEF Chain
  <2>3. TypeOK'
    BY <2>1, <2>2 DEF TypeOK, clientVars
  <2>4. SeenIsReached'
    BY <2>1, <2>2, CommitmentIsLevel
       DEF SeenIsReached, Commitment, clientVars, TypeOK, LedgerTypeOK, Levels, Processed,
           Confirmed, Finalized
  <2>5. FinalIsExpired'
    BY <2>2 DEF FinalIsExpired, UsesHeight, clientVars
  <2>6. QED BY <2>1, <2>3, <2>4, <2>5
<1>2. CASE SendOk \/ SendFails \/ Poll \/ Interrupted
  <2>1. TypeOK'
    BY <1>2, ClientType
  <2>2. ChainOrdered' /\ Commitment' = Commitment /\ UsesHeight' = UsesHeight
    BY <1>2, ClientStep DEF ChainOrdered, Commitment, UsesHeight
  <2>3. /\ seen' = seen \/ seen' = bank[Commitment]
        /\ FinalIsExpired'
    <3> USE DEF FinalIsExpired, UsesHeight, TypeOK
    <3>1. CASE SendOk \/ SendFails
      BY <1>2, <3>1, ClientStep DEF SendOk, SendFails, Conclude, FirstPoll, UsesHeight
    <3>2. CASE AskFirstHeight \/ AskHeight
      <4>1. bank[Commitment] \in Nat /\ opts.height \in Nat
        BY <3>2, CommitmentIsLevel DEF AskFirstHeight, AskHeight, LedgerTypeOK, TxOpts, NoHeight
      <4>2. QED BY <3>2, <4>1 DEF AskFirstHeight, AskHeight, HeightLoop
    <3>3. CASE AskStatus \/ AskFinalStatus
      BY <3>3 DEF AskStatus, AskFinalStatus, Conclude
    <3>4. CASE WakeByHeight \/ WakeByClock
      BY <3>4 DEF WakeByHeight, WakeByClock, HeightLoop, Conclude, TxOpts, NoHeight
    <3>5. CASE Interrupted
      BY <3>5 DEF Interrupted, Conclude
    <3>6. QED BY <1>2, <3>1, <3>2, <3>3, <3>4, <3>5 DEF Poll
  <2>4. SeenIsReached'
    <3>1. bank' = bank
      BY <1>2, ClientStep
    <3>2. bank[Commitment] \in 0..MaxHeight
      BY CommitmentIsLevel DEF TypeOK, LedgerTypeOK
    <3>3. QED BY <2>2, <2>3, <3>1, <3>2 DEF SeenIsReached
  <2>5. QED BY <2>1, <2>2, <2>3, <2>4
<1>3. CASE UNCHANGED vars
  BY <1>3 DEF vars, ledgerVars, clientVars, TypeOK, LedgerTypeOK, ChainOrdered, SeenIsReached,
              FinalIsExpired, Commitment, UsesHeight
<1>4. QED BY <1>1, <1>2, <1>3 DEF Next

(* Every value the client and the chain hold stays in its range, and a     *)
(* call has an outcome exactly when it has ended.                          *)
THEOREM ConfirmationTypeCorrect == Spec => []TypeOK
<1>1. ConfInv => TypeOK
  BY DEF ConfInv
<1>2. QED BY ConfInvInit, ConfInvStep, <1>1, PTL DEF Spec

(* A status at or above the commitment means a block no fork can drop,     *)
(* which the node recalls.                                                 *)
LEMMA ReachedIsConfirmed ==
    ASSUME ConfInv, Commitment # Processed
    PROVE  ReachedCommitment => Fate = "confirmed" /\ ~Forgotten
<1>1. ReachedCommitment => ~Forgotten
  BY CommitmentIsLevel DEF ConfInv, ReachedCommitment, ConfirmationStatus, NoStatus, Levels,
     Processed, Confirmed, Finalized
<1>2. ReachedCommitment => Fate = "confirmed"
  BY CommitmentIsLevel DEF ConfInv, TypeOK, LedgerTypeOK, ChainOrdered, ReachedCommitment,
     ConfirmationStatus, NoStatus, Fate, Levels, Processed, Confirmed, Finalized
<1>3. QED BY <1>1, <1>2

(* A status below the commitment, asked for after the height was seen to   *)
(* be exceeded, means that the transaction can no longer land, or that the *)
(* node has forgotten where it landed.                                     *)
LEMMA UnreachedIsExpired ==
    ASSUME ConfInv, Commitment # Processed, pc = "finalStatus", ~ReachedCommitment, ~Forgotten
    PROVE  Fate = "expired"
<1>1. seen > LastValid /\ seen <= bank[Commitment]
  BY DEF ConfInv, FinalIsExpired, SeenIsReached, UsesHeight, TypeOK, TxOpts, NoHeight
<1>2. bank[Commitment] > LastValid
  BY <1>1, CommitmentIsLevel DEF ConfInv, TypeOK, LedgerTypeOK
<1>3. QED
  BY <1>2, CommitmentIsLevel DEF ConfInv, TypeOK, LedgerTypeOK, ChainOrdered, ReachedCommitment,
     ConfirmationStatus, NoStatus, Fate, Levels, Processed, Confirmed, Finalized

(* What is forgotten had landed.                                           *)
LEMMA ForgottenIsConfirmed == ConfInv /\ Forgotten => Fate = "confirmed"
BY DEF ConfInv, TypeOK, LedgerTypeOK, ChainOrdered, Forgotten, Fate, Levels, Processed, Confirmed,
       Finalized

(* The client ends with a claim only where the fate is settled, and the    *)
(* claim is the fate unless the node has forgotten it.                     *)
Recalled == IF ~Forgotten THEN Fate ELSE "expired"

LEMMA ClaimStep ==
    ASSUME ConfInv, SendOk \/ SendFails \/ Poll \/ Interrupted
    PROVE  /\ Fate' = Fate /\ Forgotten' = Forgotten
           /\ Claim' # Claim => Claim = "none" /\ Fate # "open" /\ Claim' = Recalled
<1>1. Fate' = Fate /\ Forgotten' = Forgotten /\ Commitment' = Commitment
  BY ClientStep DEF ConfInv, Fate, Forgotten, Commitment
<1>2. outcome = "none"
  BY ClientStep DEF ConfInv, TypeOK
<1>3. outcome' \in {"confirmed", "expired"} /\ Commitment # Processed =>
          outcome' = Recalled /\ Fate # "open"
  <2>1. CASE SendOk \/ SendFails
    BY <1>2, <2>1 DEF SendOk, SendFails, Conclude
  <2>2. CASE AskFirstHeight \/ AskHeight \/ WakeByHeight
    BY <1>2, <2>2 DEF AskFirstHeight, AskHeight, WakeByHeight
  <2>3. CASE AskStatus
    BY <1>2, <2>3, ReachedIsConfirmed DEF AskStatus, Conclude, Recalled
  <2>4. CASE WakeByClock
    BY <1>2, <2>4 DEF WakeByClock, Conclude
  <2>5. CASE AskFinalStatus
    BY <2>5, ReachedIsConfirmed, UnreachedIsExpired, ForgottenIsConfirmed
       DEF AskFinalStatus, Conclude, Recalled
  <2>6. CASE Interrupted
    BY <1>2, <2>6 DEF Interrupted, Conclude
  <2>7. QED BY <2>1, <2>2, <2>3, <2>4, <2>5, <2>6 DEF Poll
<1>4. Claim = "none" /\ (Claim' # "none" => Claim' = outcome' /\ Commitment # Processed
                                            /\ outcome' \in {"confirmed", "expired"})
  BY <1>1, <1>2 DEF Claim
<1>5. QED BY <1>1, <1>3, <1>4

(* confirm_transaction at confirmed or finalized claims only what is so,   *)
(* as far as the node recalls: Confirmation implements Verdict.            *)
THEOREM ClaimsHold == Spec => ClaimsAreTrue
<1>1. Init => V!Init
  BY DEF Init, LedgerInit, V!Init, Fate, Forgotten, Claim, Levels, Processed, Confirmed, Finalized
<1>2. ConfInv /\ [Next]_vars => [V!Next]_<<Fate, ~Forgotten, Claim>>
  <2> SUFFICES ASSUME ConfInv, [Next]_vars PROVE [V!Next]_<<Fate, ~Forgotten, Claim>>
    OBVIOUS
  <2>1. CASE Chain
    <3>1. Claim' = Claim
      BY <2>1 DEF Chain, Claim, Commitment, clientVars
    <3>2. CASE Fate' = Fate /\ Forgotten' = Forgotten
      BY <3>1, <3>2
    <3>3. CASE Fate' # Fate
      <4>1. Fate = "open" /\ Fate' \in {"confirmed", "expired"}
        BY <2>1, <3>3, ChainStep DEF Chain, ConfInv, TypeOK
      <4>2. ~Forgotten /\ ~Forgotten'
        BY <2>1, <4>1, ChainStep, ForgottenIsConfirmed DEF Chain, ConfInv, TypeOK
      <4>3. QED BY <3>1, <4>1, <4>2 DEF V!Next, V!Settle
    <3>4. CASE Fate' = Fate /\ ~(Forgotten' = Forgotten)
      <4>1. ~Forgotten /\ Forgotten' /\ Fate = "confirmed"
        BY <2>1, <3>4, ChainStep DEF Chain, ConfInv, TypeOK, Forgotten
      <4>2. QED BY <3>1, <3>4, <4>1 DEF V!Next, V!Forget
    <3>5. QED BY <3>2, <3>3, <3>4
  <2>2. CASE SendOk \/ SendFails \/ Poll \/ Interrupted
    <3>1. /\ Fate' = Fate /\ Forgotten' = Forgotten
          /\ Claim' # Claim => Claim = "none" /\ Fate # "open" /\ Claim' = Recalled
      BY <2>2, ClaimStep
    <3>2. QED BY <3>1 DEF V!Next, V!Claim, Recalled
  <2>3. CASE UNCHANGED vars
    BY <2>3 DEF vars, ledgerVars, clientVars, Fate, Forgotten, Claim, Commitment
  <2>4. QED BY <2>1, <2>2, <2>3 DEF Next
<1>3. QED BY <1>1, <1>2, ConfInvInit, ConfInvStep, PTL DEF Spec, ClaimsAreTrue, V!Spec
=============================================================================
