---------------------------- MODULE HttpProvider ----------------------------
(***************************************************************************)
(* AsyncHTTPProvider: concurrent requests over one HTTP session, each with *)
(* its transport retries, all behind one rate limiter; and what becomes of *)
(* the answer, for the typed methods (make_request) and for                *)
(* send_rpc_request.                                                       *)
(*                                                                         *)
(* The limiter is a leaky bucket of Rate requests that leaks one of them   *)
(* per tick, Rate ticks to the second.                                     *)
(*                                                                         *)
(* Definitions named Slip... are deliberate mistakes, one step away from   *)
(* the definition that follows; no specification uses them.                *)
(***************************************************************************)
EXTENDS Integers

CONSTANTS
    Calls,         \* the requests of the application, each made once
    MaxRetries,    \* max_transport_retries
    Rate           \* rate_limit: requests per second, 0 for no limiter

ASSUME ProviderAssumption ==
    /\ MaxRetries \in Nat
    /\ Rate \in Nat

VARIABLES
    session,       \* the HTTP session: open or closed
    pc,            \* where each call is suspended
    reader,        \* who reads the answer of each call
    retriesLeft,   \* retries_left of each call
    reply,         \* the HTTP response of each call, or NoReply
    out,           \* how each call ended
    level,         \* the level of the limiter's bucket
    attempts,      \* history: posts of each call
    received,      \* history: how often each call reached the node
    recent         \* history: recent[k] is the number of posts in the last k ticks

callVars == <<pc, reader, retriesLeft, reply, out, attempts, received>>
rateVars == <<level, recent>>
vars     == <<session, callVars, rateVars>>

(* A typed method reads with a parser of solders; a call of                *)
(* send_rpc_request, with the type it is given, which may allow null.      *)
Readers == {"solders", "value", "value_or_null"}

(* A response: its status, and the members of its envelope.  An "object"   *)
(* is of the type that is expected, a member that is "other" is not; a     *)
(* body that is no envelope has an "other" error.  Behind an error status  *)
(* no body is read.                                                        *)
Member   == {"absent", "null", "object", "other"}
Response == [ok : {TRUE}, result : Member, error : Member]
                \cup [ok : {FALSE}, result : {"absent"}, error : {"absent"}]
NoReply  == [ok |-> FALSE, result |-> "none", error |-> "none"]

Outcomes == {"none", "result", "rpc_error", "invalid", "http_error", "transport_error",
             "closed_session", "cancelled"}

TypeOK ==
    /\ session \in {"open", "closed"}
    /\ pc \in [Calls -> {"idle", "ready", "posting", "answered", "done"}]
    /\ reader \in [Calls -> Readers]
    /\ retriesLeft \in [Calls -> 0..MaxRetries]
    /\ reply \in [Calls -> Response \cup {NoReply}]
    /\ out \in [Calls -> Outcomes]
    /\ level \in 0..Rate
    /\ attempts \in [Calls -> 0..(MaxRetries + 1)]
    /\ received \in [Calls -> 0..(MaxRetries + 1)]
    /\ recent \in [1..Rate -> Nat]

Init ==
    /\ session = "open"
    /\ pc = [c \in Calls |-> "idle"]
    /\ reader \in [Calls -> Readers]
    /\ retriesLeft = [c \in Calls |-> MaxRetries]
    /\ reply = [c \in Calls |-> NoReply]
    /\ out = [c \in Calls |-> "none"]
    /\ level = 0
    /\ attempts = [c \in Calls |-> 0]
    /\ received = [c \in Calls |-> 0]
    /\ recent = [k \in 1..Rate |-> 0]

Finish(c, o) ==
    /\ pc' = [pc EXCEPT ![c] = "done"]
    /\ out' = [out EXCEPT ![c] = o]

----------------------------------------------------------------------------
(* _post_request begins: the body has been serialized once, for every      *)
(* attempt.                                                                *)
Begin(c) ==
    /\ pc[c] = "idle"
    /\ pc' = [pc EXCEPT ![c] = "ready"]
    /\ UNCHANGED <<session, reader, retriesLeft, reply, out, attempts, received, rateVars>>

(* Each attempt, a retry too, passes the limiter first.                    *)
SlipLimiterOutsideLoop(c) ==
    /\ attempts[c] = 0 /\ Rate # 0 => level < Rate
    /\ level' = IF attempts[c] = 0 /\ Rate # 0 THEN level + 1 ELSE level

PassLimiter(c) ==
    /\ Rate # 0 => level < Rate
    /\ level' = IF Rate # 0 THEN level + 1 ELSE level

Post(c) ==
    /\ pc[c] = "ready"
    /\ PassLimiter(c)
    /\ IF session = "open"
       THEN /\ pc' = [pc EXCEPT ![c] = "posting"]
            /\ attempts' = [attempts EXCEPT ![c] = @ + 1]
            /\ recent' = [k \in 1..Rate |-> recent[k] + 1]
            /\ UNCHANGED out
       ELSE /\ Finish(c, "closed_session")
            /\ UNCHANGED <<attempts, recent>>
    /\ UNCHANGED <<session, reader, retriesLeft, reply, received>>

(* The post raised a transport error: it may have reached the node or not. *)
(* It is sent again while retries are left.                                *)
SlipOneRetryLess(c) == retriesLeft[c] <= 1
SlipOneRetryMore(c) == retriesLeft[c] < 0

GivesUp(c) == retriesLeft[c] <= 0

Retry(c) ==
    IF GivesUp(c)
    THEN /\ Finish(c, "transport_error")
         /\ UNCHANGED retriesLeft
    ELSE /\ pc' = [pc EXCEPT ![c] = "ready"]
         /\ retriesLeft' = [retriesLeft EXCEPT ![c] = @ - 1]
         /\ UNCHANGED out

TransportError(c) ==
    /\ pc[c] = "posting"
    /\ \/ received' = received
       \/ received' = [received EXCEPT ![c] = @ + 1]
    /\ Retry(c)
    /\ UNCHANGED <<session, reader, reply, attempts, rateVars>>

(* The post returned a response, whatever its status.                      *)
Answer(c, r) ==
    /\ pc[c] = "posting"
    /\ received' = [received EXCEPT ![c] = @ + 1]
    /\ reply' = [reply EXCEPT ![c] = r]
    /\ pc' = [pc EXCEPT ![c] = "answered"]
    /\ UNCHANGED <<session, reader, retriesLeft, out, attempts, rateVars>>

----------------------------------------------------------------------------
(* raise_for_status, then the answer is read: no await from here on.       *)
HasResult(r) == r.result # "absent"
HasError(r)  == r.error = "object"

(* The validation of JsonRpcResponseEnvelope.                              *)
SlipBothAccepted(r) == r.error = "other" \/ (~HasResult(r) /\ ~HasError(r))

Malformed(r) == r.error = "other" \/ HasResult(r) = HasError(r)

(* TypeAdapter(result_type) takes the result.                              *)
Fits(c, r) == r.result = "object" \/ (r.result = "null" /\ reader[c] = "value_or_null")

(* send_rpc_request: the envelope, unwrap_result, the result.              *)
Unwrapped(c, r) ==
    IF Malformed(r) THEN "invalid"
    ELSE IF HasError(r) THEN "rpc_error"
    ELSE IF Fits(c, r) THEN "result" ELSE "invalid"

(* _parse_raw: the parsers of solders read a well-formed answer; of any    *)
(* other they may take either member, or none.                             *)
Parsed(c, r) ==
    IF Malformed(r) \/ r.result \in {"null", "other"} THEN {"invalid", "rpc_error", "result"}
    ELSE {Unwrapped(c, r)}

SlipStatusRetried(c) ==
    /\ pc[c] = "answered" /\ ~reply[c].ok
    /\ Retry(c)
    /\ UNCHANGED <<session, reader, reply, attempts, received, rateVars>>

(* An HTTP status error is no transport error: it is raised at once.       *)
StatusError(c) ==
    /\ pc[c] = "answered" /\ ~reply[c].ok
    /\ Finish(c, "http_error")
    /\ UNCHANGED <<session, reader, retriesLeft, reply, attempts, received, rateVars>>

Read(c) ==
    /\ pc[c] = "answered" /\ reply[c].ok
    /\ IF reader[c] = "solders"
       THEN \E o \in Parsed(c, reply[c]) : Finish(c, o)
       ELSE Finish(c, Unwrapped(c, reply[c]))
    /\ UNCHANGED <<session, reader, retriesLeft, reply, attempts, received, rateVars>>

(* The caller is cancelled behind the limiter or inside the post.          *)
Cancel(c) ==
    /\ pc[c] \in {"ready", "posting"}
    /\ \/ received' = received
       \/ pc[c] = "posting" /\ received' = [received EXCEPT ![c] = @ + 1]
    /\ Finish(c, "cancelled")
    /\ UNCHANGED <<session, reader, retriesLeft, reply, attempts, rateVars>>

(* close() or __aexit__: what is in flight fails, later posts raise.       *)
Close ==
    /\ session = "open"
    /\ session' = "closed"
    /\ UNCHANGED <<callVars, rateVars>>

Tick ==
    /\ Rate # 0
    /\ level' = IF level = 0 THEN 0 ELSE level - 1
    /\ recent' = [k \in 1..Rate |-> IF k = 1 THEN 0 ELSE recent[k - 1]]
    /\ UNCHANGED <<session, callVars>>

CallStep(c) ==
    \/ Begin(c) \/ Post(c) \/ TransportError(c)
    \/ \E r \in Response : Answer(c, r)
    \/ StatusError(c) \/ Read(c) \/ Cancel(c)

Next == (\E c \in Calls : CallStep(c)) \/ Close \/ Tick

Spec == Init /\ [][Next]_vars

----------------------------------------------------------------------------
(* A caller is told of a transport error only when every attempt the       *)
(* configuration allows has been made, and no call makes more; no call     *)
(* reaches the node more often than it was posted.                         *)
RetriesExact ==
    \A c \in Calls :
        /\ out[c] = "transport_error" => attempts[c] = MaxRetries + 1
        /\ pc[c] = "ready" => attempts[c] + retriesLeft[c] = MaxRetries
        /\ received[c] <= attempts[c]

(* A request the node has answered, even with an error status, is never    *)
(* posted again: only a lost answer can make the node execute it twice.    *)
AnsweredIsFinal ==
    \A c \in Calls : reply[c] # NoReply => pc[c] \in {"answered", "done"}

(* However retries and new calls mix, in one second no more are posted     *)
(* than the bucket holds and leaks.                                        *)
RateBound == \A k \in 1..Rate : recent[k] <= Rate + k - 1

(* send_rpc_request returns a value exactly from an answer with a result   *)
(* of the type asked for and no error, null only for a type that allows    *)
(* it, and raises the node's error exactly from an answer with an error    *)
(* and no result, not even null.                                           *)
EnvelopeRead ==
    \A c \in Calls : pc[c] = "done" /\ reader[c] # "solders" /\ reply[c] # NoReply =>
        /\ out[c] = "result" <=>
               /\ reply[c].ok /\ reply[c].error \in {"absent", "null"}
               /\ \/ reply[c].result = "object"
                  \/ reply[c].result = "null" /\ reader[c] = "value_or_null"
        /\ out[c] = "rpc_error" <=>
               reply[c].ok /\ reply[c].result = "absent" /\ reply[c].error = "object"
=============================================================================
