------------------------- MODULE HttpProviderProofs -------------------------
(***************************************************************************)
(* Safety of HttpProvider for any set of calls, any number of retries and  *)
(* any rate.                                                               *)
(***************************************************************************)
EXTENDS HttpProvider, TLAPS

USE ProviderAssumption DEF ProviderAssumption

(* Attempts made and retries left add up, and an attempt in flight has not *)
(* been counted as received.                                               *)
CallInv(c) ==
    /\ pc[c] \in {"idle", "ready"} => attempts[c] + retriesLeft[c] = MaxRetries
    /\ pc[c] = "posting" => attempts[c] + retriesLeft[c] = MaxRetries + 1
    /\ received[c] <= attempts[c]
    /\ pc[c] = "posting" => received[c] < attempts[c]
    /\ out[c] = "transport_error" => attempts[c] = MaxRetries + 1
    /\ pc[c] # "done" => out[c] = "none"
    /\ reply[c] # NoReply => pc[c] \in {"answered", "done"}

ProviderInv == TypeOK /\ \A c \in Calls : CallInv(c)

(* The posts of the last k ticks are in the bucket, or have leaked in one  *)
(* of the k - 1 ticks between them.                                        *)
BucketInv == \A k \in 1..Rate : recent[k] <= level + k - 1

LEMMA ProviderInvInit == Init => ProviderInv /\ BucketInv
BY DEF Init, ProviderInv, TypeOK, CallInv, BucketInv, NoReply, Outcomes, Response, Member, Readers

(* Counting one more reception of a call that was posted more often than   *)
(* it was received.                                                        *)
LEMMA OneMoreReceived ==
    ASSUME NEW c \in Calls, NEW f \in [Calls -> 0..(MaxRetries + 1)],
           NEW n \in 0..(MaxRetries + 1), f[c] < n
    PROVE  LET g == [f EXCEPT ![c] = @ + 1]
           IN  /\ g \in [Calls -> 0..(MaxRetries + 1)]
               /\ g[c] <= n
               /\ \A d \in Calls \ {c} : g[d] = f[d]
OBVIOUS

(* One retry less makes up for one attempt more.                           *)
LEMMA OneRetryLess ==
    ASSUME NEW n \in Nat, NEW r \in Nat, NEW most \in Nat, n + r = most + 1,
           NEW m, m = n, NEW q, q = r - 1
    PROVE  m + q = most
OBVIOUS

(* A step of one call leaves the others alone and keeps its own invariant. *)
LEMMA CallStepKeeps ==
    ASSUME ProviderInv, NEW c \in Calls, CallStep(c)
    PROVE  ProviderInv'
<1> USE DEF ProviderInv, TypeOK, CallInv, rateVars, Outcomes
<1>1. CASE Begin(c)
  BY <1>1 DEF Begin
<1>2. CASE Post(c)
  <2>1. level' \in 0..Rate
    BY <1>2 DEF Post, PassLimiter
  <2>2. CASE session = "open"
    <3>1. recent' \in [1..Rate -> Nat]
      BY <1>2, <2>2 DEF Post
    <3>2. attempts' \in [Calls -> 0..(MaxRetries + 1)] /\ pc' = [pc EXCEPT ![c] = "posting"]
      <4>1. attempts[c] + retriesLeft[c] = MaxRetries
        BY <1>2 DEF Post
      <4>2. attempts[c] + 1 \in 0..(MaxRetries + 1)
        BY <4>1
      <4>3. /\ attempts' = [attempts EXCEPT ![c] = @ + 1]
            /\ pc' = [pc EXCEPT ![c] = "posting"]
        BY <1>2, <2>2 DEF Post
      <4>4. QED BY <4>2, <4>3
    <3>3. TypeOK'
      BY <1>2, <2>1, <2>2, <3>1, <3>2 DEF Post
    <3>4. ASSUME NEW d \in Calls PROVE CallInv(d)'
      BY <1>2, <2>2 DEF Post
    <3>5. QED BY <3>3, <3>4
  <2>3. CASE session # "open"
    <3>1. /\ recent' = recent /\ attempts' = attempts
          /\ pc' = [pc EXCEPT ![c] = "done"]
          /\ out' = [out EXCEPT ![c] = "closed_session"]
      BY <1>2, <2>3 DEF Post, Finish
    <3>2. QED BY <1>2, <2>1, <3>1 DEF Post
  <2>4. QED BY <2>2, <2>3
<1>3. CASE TransportError(c)
  <2>1. received' \in [Calls -> 0..(MaxRetries + 1)] /\ received'[c] <= attempts[c]
        /\ \A d \in Calls \ {c} : received'[d] = received[d]
    <3>1. CASE received' = received
      BY <3>1
    <3>2. CASE pc[c] = "posting" /\ received' = [received EXCEPT ![c] = @ + 1]
      BY <3>2, OneMoreReceived
    <3>3. QED BY <1>3, <3>1, <3>2 DEF TransportError
  <2>2. CASE GivesUp(c)
    <3>1. /\ retriesLeft[c] = 0 /\ retriesLeft' = retriesLeft
          /\ pc' = [pc EXCEPT ![c] = "done"]
          /\ out' = [out EXCEPT ![c] = "transport_error"]
      BY <1>3, <2>2 DEF TransportError, Retry, GivesUp, Finish
    <3>2. TypeOK'
      BY <1>3, <2>1, <3>1 DEF TransportError
    <3>3. ASSUME NEW d \in Calls PROVE CallInv(d)'
      BY <1>3, <2>1, <3>1 DEF TransportError
    <3>4. QED BY <3>2, <3>3
  <2>3. CASE ~GivesUp(c)
    <3>1. /\ retriesLeft[c] > 0 /\ retriesLeft' = [retriesLeft EXCEPT ![c] = @ - 1]
          /\ pc' = [pc EXCEPT ![c] = "ready"]
          /\ out' = out
      BY <1>3, <2>3 DEF TransportError, Retry, GivesUp
    <3>2. TypeOK'
      <4>1. retriesLeft[c] - 1 \in 0..MaxRetries
        BY <3>1
      <4>2. retriesLeft' \in [Calls -> 0..MaxRetries]
        BY <3>1, <4>1
      <4>3. /\ UNCHANGED <<session, reader, reply, attempts, rateVars>>
            /\ pc' \in [Calls -> {"idle", "ready", "posting", "answered", "done"}]
        BY <1>3, <3>1 DEF TransportError
      <4>4. QED BY <2>1, <3>1, <4>2, <4>3
    <3>3. ASSUME NEW d \in Calls PROVE CallInv(d)'
      <4>1. CASE d = c
        <5>1. /\ retriesLeft'[c] = retriesLeft[c] - 1
              /\ attempts'[c] = attempts[c]
              /\ attempts[c] + retriesLeft[c] = MaxRetries + 1
          BY <1>3, <3>1 DEF TransportError
        <5>2. attempts'[c] + retriesLeft'[c] = MaxRetries
          <6>1. attempts[c] \in Nat /\ retriesLeft[c] \in Nat
            OBVIOUS
          <6> HIDE DEF ProviderInv, TypeOK, CallInv
          <6>2. QED BY <5>1, <6>1, OneRetryLess, ProviderAssumption
        <5>3. /\ pc'[c] = "ready" /\ out'[c] = "none" /\ reply'[c] = NoReply
              /\ received'[c] <= attempts'[c]
          BY <1>3, <2>1, <3>1, <5>1 DEF TransportError
        <5>4. QED BY <4>1, <5>2, <5>3
      <4>2. CASE d # c
        BY <1>3, <2>1, <3>1, <4>2 DEF TransportError
      <4>3. QED BY <4>1, <4>2
    <3>4. QED BY <3>2, <3>3
  <2>4. QED BY <2>2, <2>3
<1>4. ASSUME NEW r \in Response, Answer(c, r) PROVE ProviderInv'
  BY <1>4, SMTT(20) DEF Answer
<1>5. CASE StatusError(c)
  BY <1>5, SMTT(20) DEF StatusError, Finish
<1>6. CASE Read(c)
  <2>1. PICK o \in Outcomes \ {"none", "transport_error"} : Finish(c, o)
    BY <1>6 DEF Read, Parsed, Unwrapped
  <2>2. QED BY <1>6, <2>1 DEF Read, Finish
<1>7. CASE Cancel(c)
  <2>1. received' \in [Calls -> 0..(MaxRetries + 1)] /\ received'[c] <= attempts[c]
        /\ \A d \in Calls \ {c} : received'[d] = received[d]
    <3>1. CASE received' = received
      BY <3>1
    <3>2. CASE pc[c] = "posting" /\ received' = [received EXCEPT ![c] = @ + 1]
      BY <3>2, OneMoreReceived
    <3>3. QED BY <1>7, <3>1, <3>2 DEF Cancel
  <2>2. QED BY <1>7, <2>1 DEF Cancel, Finish
<1>8. QED BY <1>1, <1>2, <1>3, <1>4, <1>5, <1>6, <1>7 DEF CallStep

LEMMA ProviderInvStep == ProviderInv /\ [Next]_vars => ProviderInv'
<1> SUFFICES ASSUME ProviderInv, [Next]_vars PROVE ProviderInv'
  OBVIOUS
<1>1. CASE \E c \in Calls : CallStep(c)
  BY <1>1, CallStepKeeps
<1>2. CASE Close
  BY <1>2 DEF Close, ProviderInv, TypeOK, CallInv, callVars, rateVars
<1>3. CASE Tick
  <2>1. level' \in 0..Rate /\ recent' \in [1..Rate -> Nat]
    BY <1>3 DEF Tick, ProviderInv, TypeOK
  <2>2. QED BY <1>3, <2>1 DEF Tick, ProviderInv, TypeOK, CallInv, callVars
<1>4. CASE UNCHANGED vars
  BY <1>4 DEF vars, ProviderInv, TypeOK, CallInv, callVars, rateVars
<1>5. QED BY <1>1, <1>2, <1>3, <1>4 DEF Next

LEMMA BucketInvStep == TypeOK /\ BucketInv /\ [Next]_vars => BucketInv'
<1> SUFFICES ASSUME TypeOK, BucketInv, [Next]_vars PROVE BucketInv'
  OBVIOUS
<1> USE DEF TypeOK, BucketInv
<1>1. ASSUME NEW c \in Calls, Post(c) PROVE BucketInv'
  <2> SUFFICES ASSUME NEW k \in 1..Rate PROVE recent'[k] <= level' + k - 1
    OBVIOUS
  <2>1. level' = level + 1
    BY <1>1 DEF Post, PassLimiter
  <2>2. recent'[k] \in {recent[k], recent[k] + 1}
    BY <1>1 DEF Post
  <2>3. QED BY <2>1, <2>2
<1>2. CASE Tick
  BY <1>2 DEF Tick
<1>3. CASE UNCHANGED rateVars
  BY <1>3 DEF rateVars
<1>4. QED
  BY <1>1, <1>2, <1>3
     DEF Next, CallStep, Begin, TransportError, Answer, StatusError, Read, Cancel, Close, vars

(* Attempts, receptions and retries stay within max_transport_retries + 1, *)
(* and the bucket within its rate.                                         *)
THEOREM ProviderTypeCorrect == Spec => []TypeOK
<1>1. ProviderInv => TypeOK
  BY DEF ProviderInv
<1>2. QED BY ProviderInvInit, ProviderInvStep, <1>1, PTL DEF Spec

(* A transport error is reported only after every allowed attempt, and     *)
(* nothing is posted or received more often than it should.                *)
THEOREM RetriesAreExact == Spec => []RetriesExact
<1>1. ProviderInv => RetriesExact
  BY DEF ProviderInv, CallInv, RetriesExact
<1>2. QED BY ProviderInvInit, ProviderInvStep, <1>1, PTL DEF Spec

(* No call is posted again once it has an answer.                          *)
THEOREM AnswersAreFinal == Spec => []AnsweredIsFinal
<1>1. ProviderInv => AnsweredIsFinal
  BY DEF ProviderInv, CallInv, AnsweredIsFinal
<1>2. QED BY ProviderInvInit, ProviderInvStep, <1>1, PTL DEF Spec

(* For every rate, k ticks see at most Rate + k - 1 posts, retries         *)
(* included.                                                               *)
THEOREM RateIsBounded == Spec => []RateBound
<1>1. TypeOK /\ BucketInv => RateBound
  BY DEF TypeOK, BucketInv, RateBound
<1>2. QED BY ProviderInvInit, ProviderTypeCorrect, BucketInvStep, <1>1, PTL DEF Spec

----------------------------------------------------------------------------
(* An answer that was read ended its call, and nothing ends it again.      *)
ReadInv ==
    \A c \in Calls : pc[c] = "done" /\ reply[c] # NoReply =>
        IF reply[c].ok THEN reader[c] # "solders" => out[c] = Unwrapped(c, reply[c])
                       ELSE out[c] = "http_error"

LEMMA ReadInvStep == ProviderInv /\ ReadInv /\ [Next]_vars => ReadInv'
<1> SUFFICES ASSUME ProviderInv, ReadInv, [Next]_vars PROVE ReadInv'
  OBVIOUS
<1>1. UNCHANGED reader
  BY DEF Next, CallStep, Begin, Post, TransportError, Answer, StatusError, Read, Cancel, Close,
         Tick, callVars, vars
<1>2. ASSUME NEW c \in Calls, CallStep(c) PROVE ReadInv'
  <2>1. \A d \in Calls \ {c} : pc'[d] = pc[d] /\ out'[d] = out[d] /\ reply'[d] = reply[d]
    BY <1>2 DEF CallStep, Begin, Post, TransportError, Retry, Answer, StatusError, Read, Cancel,
                Finish, ProviderInv, TypeOK
  <2>2. CASE StatusError(c) \/ Read(c)
    <3>1. /\ pc[c] = "answered" /\ reply' = reply
          /\ IF reply[c].ok THEN reader[c] # "solders" => out'[c] = Unwrapped(c, reply[c])
                            ELSE out'[c] = "http_error"
      BY <2>2 DEF StatusError, Read, Finish, ProviderInv, TypeOK
    <3>2. QED BY <1>1, <2>1, <3>1 DEF ReadInv, Unwrapped, Fits
  <2>3. CASE \E r \in Response : Answer(c, r)
    <3>1. pc'[c] # "done"
      BY <2>3 DEF Answer, ProviderInv, TypeOK
    <3>2. QED BY <1>1, <2>1, <3>1 DEF ReadInv, Unwrapped, Fits
  <2>4. CASE Begin(c) \/ Post(c) \/ TransportError(c) \/ Cancel(c)
    <3>1. pc[c] \in {"idle", "ready", "posting"} /\ reply' = reply
      BY <2>4 DEF Begin, Post, TransportError, Cancel
    <3>2. reply'[c] = NoReply
      BY <3>1 DEF ProviderInv, CallInv
    <3>3. QED BY <1>1, <2>1, <3>2 DEF ReadInv, Unwrapped, Fits
  <2>5. QED BY <1>2, <2>2, <2>3, <2>4 DEF CallStep
<1>3. CASE UNCHANGED callVars
  BY <1>3 DEF ReadInv, Unwrapped, Fits, callVars
<1>4. QED BY <1>2, <1>3 DEF Next, Close, Tick, vars

(* However it was retried, send_rpc_request returns a value exactly from   *)
(* an answer that has a result of the type asked for and no error, and     *)
(* raises the node's error exactly from an answer that has one and no      *)
(* result.                                                                 *)
THEOREM EnvelopesAreRead == Spec => []EnvelopeRead
<1>1. Init => ReadInv
  BY DEF Init, ReadInv
<1>2. ProviderInv /\ ReadInv => EnvelopeRead
  <2> SUFFICES ASSUME ProviderInv, ReadInv, NEW c \in Calls,
                      pc[c] = "done", reader[c] # "solders", reply[c] # NoReply
               PROVE  /\ out[c] = "result" <=>
                             /\ reply[c].ok /\ reply[c].error \in {"absent", "null"}
                             /\ \/ reply[c].result = "object"
                                \/ reply[c].result = "null" /\ reader[c] = "value_or_null"
                      /\ out[c] = "rpc_error" <=>
                             /\ reply[c].ok
                             /\ reply[c].result = "absent" /\ reply[c].error = "object"
    BY DEF EnvelopeRead
  <2>1. IF reply[c].ok THEN out[c] = Unwrapped(c, reply[c]) ELSE out[c] = "http_error"
    BY DEF ReadInv
  <2>2. reply[c].ok \in BOOLEAN /\ reply[c].result \in Member /\ reply[c].error \in Member
    BY DEF ProviderInv, TypeOK, Response, Member
  <2>3. CASE ~reply[c].ok
    BY <2>1, <2>3
  <2>4. CASE reply[c].ok
    <3>1. out[c] = Unwrapped(c, reply[c])
      BY <2>1, <2>4
    <3>2. CASE Malformed(reply[c])
      BY <2>2, <2>4, <3>1, <3>2 DEF Unwrapped, Malformed, HasResult, HasError, Member
    <3>3. CASE ~Malformed(reply[c])
      BY <2>2, <2>4, <3>1, <3>3 DEF Unwrapped, Fits, Malformed, HasResult, HasError, Member
    <3>4. QED BY <3>2, <3>3
  <2>5. QED BY <2>2, <2>3, <2>4
<1>3. QED BY ProviderInvInit, ProviderInvStep, ReadInvStep, <1>1, <1>2, PTL DEF Spec
=============================================================================
