--------------------------- MODULE SolanaWsClient ---------------------------
(***************************************************************************)
(* solana.rpc.websocket_api.SolanaWsClient: one WebSocket, one reader task *)
(* that dispatches answers and notifications, any number of tasks inside   *)
(* subscribe and unsubscribe calls, one receiver, tasks that close.        *)
(*                                                                         *)
(* The client runs on one asyncio loop: code between two awaits is one     *)
(* action, and resolving a future or setting an event only makes a task    *)
(* runnable, so the waiter's own step is an action of its own.  A call is  *)
(* named by the id of the request it sends, and a handle by the id of the  *)
(* subscribe call that created it, which is its object identity.           *)
(*                                                                         *)
(* Definitions named Slip... are deliberate mistakes, one step away from    *)
(* the definition that follows; no specification uses them.                *)
(*                                                                         *)
(* A call that raises before it touches the state (not connected, stale    *)
(* handle, second receiver, reused client) is a stuttering step.           *)
(***************************************************************************)
EXTENDS WsPeer, FiniteSets

CONSTANTS
    QueueSize,     \* notification_queue_size
    Policies,      \* the overflow policies a client may be created with
    Closers,       \* tasks that call close() or leave the context once
    Receiving      \* does the application call recv()?

OverflowPolicy == {"raise", "drop_oldest", "drop_newest"}

ASSUME ClientAssumption ==
    /\ QueueSize \in Nat \ {0}
    /\ Policies \subseteq OverflowPolicy
    /\ Receiving \in BOOLEAN

VARIABLES
    closedExc,      \* _closed_exc: why the connection ended, or NoExc
    reader,         \* the _read_loop task
    nextReq,        \* _request_counter
    pc,             \* where each call is suspended
    kind,           \* the kind of a subscribe call; NoKind for an unsubscribe
    target,         \* the handle an unsubscribe call ends; 0 for a subscribe
    sid,            \* subscription_id of the handle a call created
    fut,            \* the future of each _PendingRequest
    out,            \* how each call ended
    pending,        \* the keys of _pending_requests
    subs,           \* _subscriptions: the handle registered under each id, or 0
    unsubscribing,  \* _unsubscribing
    overflow,       \* _overflow
    queue,          \* _notifications
    ready,          \* _notification_ready
    rcv,            \* the task inside recv()
    dropped,        \* _dropped_notifications
    arrived,        \* history: the last notification the reader dispatched
    delivered,      \* history: what recv() returned
    reported,       \* history: has recv() raised the closure?
    closer,         \* where each close() call is suspended
    release         \* the _release task of each close() call

callVars   == <<nextReq, pc, kind, target, sid, fut, out, pending, subs, unsubscribing>>
streamVars == <<overflow, queue, ready, rcv, dropped, arrived, delivered, reported>>
lifeVars   == <<closedExc, reader, closer, release>>
vars       == <<peerVars, callVars, streamVars, lifeVars>>

NoExc    == "none"
Causes   == {"local_close", "user_error", "remote_close", "protocol", "overflow",
             "timeout", "cancelled"}
Futures  == {"absent", "pending", "handle", "ack", "nack", "error", "closed", "cancelled"}
Outcomes == {"none", "ok", "refused", "server_error", "closed", "timeout", "cancelled"}

TypeOK ==
    /\ PeerTypeOK
    /\ closedExc \in Causes \cup {NoExc}
    /\ reader \in {"none", "created", "reading", "done"}
    /\ nextReq \in 1..(MaxRequests + 1)
    /\ pc \in [Requests -> {"idle", "queued", "sending", "draining", "waiting", "done"}]
    /\ kind \in [Requests -> Kinds \cup {NoKind}]
    /\ target \in [Requests -> 0..MaxRequests]
    /\ sid \in [Requests -> 0..MaxSubs]
    /\ fut \in [Requests -> Futures]
    /\ out \in [Requests -> Outcomes]
    /\ pending \in SUBSET Requests
    /\ subs \in [SubIds -> 0..MaxRequests]
    /\ unsubscribing \in SUBSET (0..MaxSubs)
    /\ overflow \in Policies
    /\ queue \in Seq(0..MaxNotes)
    /\ ready \in BOOLEAN
    /\ rcv \in {"idle", "waiting"}
    /\ dropped \in Nat
    /\ arrived \in 0..MaxNotes
    /\ delivered \in Seq(0..MaxNotes)
    /\ reported \in BOOLEAN
    /\ closer \in [Closers -> {"idle", "waiting", "cancelledOnce", "gone", "raised",
                               "returned", "returnedEarly"}]
    /\ release \in [Closers -> {"none", "created", "closing", "ended"}]

Init ==
    /\ PeerInit
    /\ closedExc = NoExc
    /\ reader = "none"
    /\ nextReq = 1
    /\ pc = [r \in Requests |-> "idle"]
    /\ kind = [r \in Requests |-> NoKind]
    /\ target = [r \in Requests |-> 0]
    /\ sid = [r \in Requests |-> 0]
    /\ fut = [r \in Requests |-> "absent"]
    /\ out = [r \in Requests |-> "none"]
    /\ pending = {}
    /\ subs = [s \in SubIds |-> 0]
    /\ unsubscribing = {}
    /\ overflow \in Policies
    /\ queue = <<>>
    /\ ready = FALSE
    /\ rcv = "idle"
    /\ dropped = 0
    /\ arrived = 0
    /\ delivered = <<>>
    /\ reported = FALSE
    /\ closer = [c \in Closers |-> "idle"]
    /\ release = [c \in Closers |-> "none"]

(* _ws is set by connect() once the opening handshake is over, and stays.  *)
Connected == sock \notin {"none", "handshake"}
IsOpen    == Connected /\ closedExc = NoExc          \* connection_state

----------------------------------------------------------------------------
(* _abandon(exc): the first cause wins, every pending future fails with    *)
(* it, the subscriptions are dropped and the receiver is woken.            *)
SlipLastCause(e) == e

FirstCause(e) == IF closedExc = NoExc THEN e ELSE closedExc

SlipFutLeft == fut

AbandonedFut ==
    IF closedExc # NoExc THEN fut
    ELSE [r \in Requests |-> IF r \in pending /\ fut[r] = "pending" THEN "closed" ELSE fut[r]]

SlipSubsLeft == subs

AbandonedSubs == IF closedExc # NoExc THEN subs ELSE [s \in SubIds |-> 0]

SlipNotWoken == ready

AbandonedReady == ready \/ closedExc = NoExc

Abandon(e) ==
    /\ closedExc' = FirstCause(e)
    /\ subs' = AbandonedSubs
    /\ ready' = AbandonedReady

(* The cleanup of _request and _wait_pending: the entry goes, and a future *)
(* nobody will await is cancelled.                                         *)
Forgotten(f, r) == [f EXCEPT ![r] = IF @ = "pending" THEN "cancelled" ELSE @]

SlipEntryKept(f, r) ==
    /\ pending' = pending
    /\ fut' = Forgotten(f, r)

Forget(f, r) ==
    /\ pending' = pending \ {r}
    /\ fut' = Forgotten(f, r)

(* The call ends; an unsubscribe call leaves _unsubscribing on every path. *)
Reserved(r) == IF target[r] = 0 THEN {} ELSE {sid[target[r]]}

SlipReservationKept(r, o) ==
    /\ pc' = [pc EXCEPT ![r] = "done"]
    /\ out' = [out EXCEPT ![r] = o]
    /\ unsubscribing' = IF o = "ok" THEN unsubscribing \ Reserved(r) ELSE unsubscribing

Finish(r, o) ==
    /\ pc' = [pc EXCEPT ![r] = "done"]
    /\ out' = [out EXCEPT ![r] = o]
    /\ unsubscribing' = unsubscribing \ Reserved(r)

----------------------------------------------------------------------------
(* The calls.  _send_lock is held while the call is suspended in ws.send;  *)
(* asyncio.Lock is first come first served, and calls arrive in id order.  *)
InSend    == {r \in Requests : pc[r] \in {"sending", "draining"}}
LockQueue == {r \in Requests : pc[r] = "queued"}
LockFree  == InSend = {}
NextInLine(r) == r \in LockQueue /\ LockFree /\ \A q \in LockQueue : r <= q

(* _request, up to its first suspension.                                   *)
BeginRequest(k, h) ==
    /\ IsOpen
    /\ nextReq \in Requests
    /\ nextReq' = nextReq + 1
    /\ kind' = [kind EXCEPT ![nextReq] = k]
    /\ target' = [target EXCEPT ![nextReq] = h]
    /\ fut' = [fut EXCEPT ![nextReq] = "pending"]
    /\ pending' = pending \cup {nextReq}
    /\ pc' = [pc EXCEPT ![nextReq] = IF LockFree /\ LockQueue = {} THEN "sending" ELSE "queued"]
    /\ UNCHANGED <<peerVars, sid, out, subs, streamVars, lifeVars>>

Subscribe(k) ==
    /\ BeginRequest(k, 0)
    /\ UNCHANGED unsubscribing

(* unsubscribe(h) for a handle the application got from a subscribe call.  *)
CanUnsubscribe(h) ==
    /\ out[h] = "ok" /\ target[h] = 0
    /\ subs[sid[h]] = h
    /\ sid[h] \notin unsubscribing

Unsubscribe(h) ==
    /\ CanUnsubscribe(h)
    /\ BeginRequest(NoKind, h)
    /\ unsubscribing' = unsubscribing \cup {sid[h]}

(* The next waiter gets the lock and finds the connection open ...         *)
LockGranted(r) ==
    /\ NextInLine(r)
    /\ closedExc = NoExc
    /\ pc' = [pc EXCEPT ![r] = "sending"]
    /\ UNCHANGED <<peerVars, nextReq, kind, target, sid, fut, out, pending, subs,
                   unsubscribing, streamVars, lifeVars>>

(* ... or closed, and raises its cause.                                    *)
LockRefused(r) ==
    /\ NextInLine(r)
    /\ closedExc # NoExc
    /\ Forget(fut, r)
    /\ Finish(r, "closed")
    /\ UNCHANGED <<peerVars, nextReq, kind, target, sid, subs, streamVars, lifeVars>>

(* ws.send hands the frame to the transport, then waits for it to drain.   *)
Request(r) == [id |-> r, kind |-> kind[r], sid |-> IF target[r] = 0 THEN 0 ELSE sid[target[r]]]

Write(r) ==
    /\ pc[r] = "sending"
    /\ sock = "open"
    /\ toServer' = toServer \cup {Request(r)}
    /\ pc' = [pc EXCEPT ![r] = "draining"]
    /\ UNCHANGED <<sock, toClient, srv, asked, granted, lastSid, notes, faults, nextReq, kind,
                   target, sid, fut, out, pending, subs, unsubscribing, streamVars, lifeVars>>

(* ws.send returns; the call releases the lock and awaits its future.      *)
Sent(r) ==
    /\ pc[r] = "draining"
    /\ fut[r] = "pending"
    /\ pc' = [pc EXCEPT ![r] = "waiting"]
    /\ UNCHANGED <<peerVars, nextReq, kind, target, sid, fut, out, pending, subs,
                   unsubscribing, streamVars, lifeVars>>

(* ws.send raises on a dead connection: the client abandons it.            *)
SendFailed(r) ==
    /\ r \in InSend
    /\ sock = "closed"
    /\ Abandon("remote_close")
    /\ Forget(AbandonedFut, r)
    /\ Finish(r, "closed")
    /\ UNCHANGED <<peerVars, nextReq, kind, target, sid, queue, rcv, dropped, arrived,
                   delivered, reported, overflow, reader, closer, release>>

(* The caller is cancelled while it waits for the lock or is inside        *)
(* ws.send: _request cleans up and re-raises, whatever was written.        *)
CancelRequest(r) ==
    /\ r \in LockQueue \cup InSend
    /\ Forget(fut, r)
    /\ Finish(r, "cancelled")
    /\ UNCHANGED <<peerVars, nextReq, kind, target, sid, subs, streamVars, lifeVars>>

(* _wait_pending is resumed by its future, or finds it resolved when       *)
(* ws.send returns.  A confirmed unsubscribe drops what is registered      *)
(* under its id.                                                           *)
SlipRawResult(f) == IF f = "handle" THEN "ok" ELSE f

OutcomeOf(f) ==
    CASE f \in {"handle", "ack"} -> "ok"
      [] f = "nack" -> "refused"
      [] f = "error" -> "server_error"
      [] OTHER -> "closed"

Removed(r) == IF fut[r] = "ack" THEN [subs EXCEPT ![sid[target[r]]] = 0] ELSE subs

Return(r) ==
    /\ pc[r] \in {"draining", "waiting"}
    /\ fut[r] # "pending"
    /\ Forget(fut, r)
    /\ Finish(r, OutcomeOf(fut[r]))
    /\ subs' = Removed(r)
    /\ UNCHANGED <<peerVars, nextReq, kind, target, sid, streamVars, lifeVars>>

(* request_timeout expires, or the caller is cancelled, while _wait_pending *)
(* awaits: the connection is abandoned, even when the future is already    *)
(* resolved and the call merely has not been resumed yet.                  *)
SlipNoTeardown(r, e) ==
    /\ pc[r] = "waiting"
    /\ Forget(fut, r)
    /\ Finish(r, e)
    /\ UNCHANGED <<peerVars, nextReq, kind, target, sid, subs, streamVars, lifeVars>>

EndWait(r, e) ==
    /\ pc[r] = "waiting"
    /\ Abandon(e)
    /\ Forget(AbandonedFut, r)
    /\ Finish(r, e)
    /\ UNCHANGED <<peerVars, nextReq, kind, target, sid, queue, rcv, dropped, arrived,
                   delivered, reported, overflow, reader, closer, release>>

SlipNoTimer(r) == FALSE

Timeout(r)    == EndWait(r, "timeout")
CancelWait(r) == EndWait(r, "cancelled")

----------------------------------------------------------------------------
(* The reader task runs for the first time.                                *)
ReaderStart ==
    /\ reader = "created"
    /\ reader' = IF closedExc = NoExc THEN "reading" ELSE "done"
    /\ UNCHANGED <<peerVars, callVars, streamVars, closedExc, closer, release>>

frame == Head(toClient)

TakeFrame ==
    /\ reader = "reading"
    /\ toClient # <<>>
    /\ toClient' = Tail(toClient)
    /\ UNCHANGED <<sock, toServer, srv, asked, granted, lastSid, notes, faults>>

(* A frame is dispatched only on an open connection.                       *)
SlipDispatchAlways == TRUE

CanDispatch == closedExc = NoExc

(* The entry of _pending_requests an answer belongs to.                    *)
SlipOldestCall ==
    IF pending = {} THEN frame.id ELSE CHOOSE r \in pending : \A q \in pending : r <= q

Owner == frame.id

(* The answer of a subscribe call: the handle is registered before the     *)
(* caller is woken.                                                        *)
DispatchSubscribed ==
    /\ TakeFrame /\ CanDispatch
    /\ frame.type = "confirm"
    /\ Owner \in pending /\ kind[Owner] # NoKind
    /\ pending' = pending \ {Owner}
    /\ fut' = [fut EXCEPT ![Owner] = "handle"]
    /\ sid' = [sid EXCEPT ![Owner] = frame.sid]
    /\ subs' = [subs EXCEPT ![frame.sid] = Owner]
    /\ UNCHANGED <<nextReq, pc, kind, target, out, unsubscribing, streamVars, lifeVars>>

(* The answer of an unsubscribe call, or an error for any call.            *)
DispatchAnswer ==
    /\ TakeFrame /\ CanDispatch
    /\ frame.type \in {"ack", "nack", "error"}
    /\ Owner \in pending
    /\ pending' = pending \ {Owner}
    /\ fut' = [fut EXCEPT ![Owner] = frame.type]
    /\ UNCHANGED <<nextReq, pc, kind, target, sid, out, subs, unsubscribing, streamVars, lifeVars>>

(* An answer whose call has gone: late, or the second copy.                *)
DispatchStray ==
    /\ TakeFrame /\ CanDispatch
    /\ frame.type \in Answers
    /\ Owner \notin pending
    /\ UNCHANGED <<callVars, streamVars, lifeVars>>

(* The processed notification ends a signature subscription.               *)
SlipEndedKept == subs

EndedSubs == IF frame.type = "final" THEN [subs EXCEPT ![frame.sid] = 0] ELSE subs

TakeNotification ==
    /\ TakeFrame /\ CanDispatch
    /\ frame.type \in {"note", "final"}
    /\ UNCHANGED <<nextReq, pc, kind, target, sid, out, pending, unsubscribing, rcv, delivered,
                   reported, overflow, closer, release>>

Full == Len(queue) >= QueueSize

Enqueue ==
    /\ TakeNotification
    /\ ~Full
    /\ queue' = Append(queue, frame.n)
    /\ ready' = TRUE
    /\ arrived' = frame.n
    /\ subs' = EndedSubs
    /\ UNCHANGED <<fut, dropped, closedExc, reader>>

(* dropped_notifications counts what a lossy policy discards.              *)
SlipUncounted == dropped

Discarded == dropped + 1

(* DROP_OLDEST makes room for the newest notification at the other end.    *)
SlipNewestDropped(q, n) == q

Displaced(q, n) == Append(Tail(q), n)

OverflowDropOldest ==
    /\ TakeNotification
    /\ Full /\ overflow = "drop_oldest"
    /\ queue' = Displaced(queue, frame.n)
    /\ ready' = TRUE
    /\ dropped' = Discarded
    /\ arrived' = frame.n
    /\ subs' = EndedSubs
    /\ UNCHANGED <<fut, closedExc, reader>>

OverflowDropNewest ==
    /\ TakeNotification
    /\ Full /\ overflow = "drop_newest"
    /\ dropped' = Discarded
    /\ arrived' = frame.n
    /\ subs' = EndedSubs
    /\ UNCHANGED <<fut, queue, ready, closedExc, reader>>

SlipSilentLoss ==
    /\ TakeNotification
    /\ Full /\ overflow = "raise"
    /\ UNCHANGED <<fut, subs, closedExc, ready, reader, queue, dropped, arrived>>

OverflowRaise ==
    /\ TakeNotification
    /\ Full /\ overflow = "raise"
    /\ Abandon("overflow")
    /\ fut' = AbandonedFut
    /\ reader' = "done"
    /\ UNCHANGED <<queue, dropped, arrived>>

(* A frame that does not parse, or an error nobody can own, ends the loop. *)
ReadFatal ==
    /\ TakeFrame /\ CanDispatch
    /\ frame.type = "bad"
    /\ Abandon("protocol")
    /\ fut' = AbandonedFut
    /\ reader' = "done"
    /\ UNCHANGED <<nextReq, pc, kind, target, sid, out, pending, unsubscribing, queue, rcv,
                   dropped, arrived, delivered, reported, overflow, closer, release>>

(* The connection was abandoned while the reader was suspended: the frame  *)
(* is discarded and the loop ends.                                         *)
ReadAfterClose ==
    /\ TakeFrame
    /\ ~CanDispatch
    /\ reader' = "done"
    /\ UNCHANGED <<callVars, streamVars, closedExc, closer, release>>

(* ws.recv raises once the socket is closed and its frames are read.       *)
SlipSilentEOF ==
    /\ reader = "reading"
    /\ toClient = <<>>
    /\ sock = "closed"
    /\ reader' = "done"
    /\ UNCHANGED <<peerVars, callVars, streamVars, closedExc, closer, release>>

ReaderEOF ==
    /\ reader = "reading"
    /\ toClient = <<>>
    /\ sock = "closed"
    /\ Abandon("remote_close")
    /\ fut' = AbandonedFut
    /\ reader' = "done"
    /\ UNCHANGED <<peerVars, nextReq, pc, kind, target, sid, out, pending, unsubscribing, queue,
                   rcv, dropped, arrived, delivered, reported, overflow, closer, release>>

----------------------------------------------------------------------------
(* recv(): one receiver.  It is running (just called, or woken by the      *)
(* event) or suspended on the event.                                       *)
RecvRuns == (rcv = "idle" /\ Receiving) \/ (rcv = "waiting" /\ ready)

SlipLatestFirst ==
    /\ RecvRuns
    /\ queue # <<>>
    /\ delivered' = Append(delivered, queue[Len(queue)])
    /\ queue' = SubSeq(queue, 1, Len(queue) - 1)
    /\ rcv' = "idle"
    /\ UNCHANGED <<peerVars, callVars, ready, dropped, arrived, reported, overflow, lifeVars>>

RecvTake ==
    /\ RecvRuns
    /\ queue # <<>>
    /\ delivered' = Append(delivered, Head(queue))
    /\ queue' = Tail(queue)
    /\ rcv' = "idle"
    /\ UNCHANGED <<peerVars, callVars, ready, dropped, arrived, reported, overflow, lifeVars>>

(* The closure is due once the queue is empty.                             *)
SlipClosureFirst == closedExc # NoExc

ClosureDue == queue = <<>> /\ closedExc # NoExc

RecvRaise ==
    /\ RecvRuns
    /\ ClosureDue
    /\ rcv' = "idle"
    /\ reported' = TRUE
    /\ UNCHANGED <<peerVars, callVars, queue, ready, dropped, arrived, delivered, overflow, lifeVars>>

RecvBlock ==
    /\ rcv = "idle" /\ Receiving
    /\ queue = <<>>
    /\ IsOpen
    /\ ready' = FALSE
    /\ rcv' = "waiting"
    /\ UNCHANGED <<peerVars, callVars, queue, dropped, arrived, delivered, reported, overflow, lifeVars>>

RecvCancel ==
    /\ rcv = "waiting"
    /\ rcv' = "idle"
    /\ UNCHANGED <<peerVars, callVars, queue, ready, dropped, arrived, delivered, reported, overflow, lifeVars>>

----------------------------------------------------------------------------
(* connect(): refused on a used client; a failed handshake owns nothing.   *)
ConnectBegin ==
    /\ sock = "none"
    /\ closedExc = NoExc
    /\ sock' = "handshake"
    /\ UNCHANGED <<toServer, toClient, srv, asked, granted, lastSid, notes, faults, callVars,
                   streamVars, lifeVars>>

ConnectFail ==
    /\ sock = "handshake"
    /\ sock' = "none"
    /\ UNCHANGED <<toServer, toClient, srv, asked, granted, lastSid, notes, faults, callVars,
                   streamVars, lifeVars>>

ConnectOk ==
    /\ sock = "handshake"
    /\ sock' = "open"
    /\ reader' = "created"
    /\ UNCHANGED <<toServer, toClient, srv, asked, granted, lastSid, notes, faults, callVars,
                   streamVars, closedExc, closer, release>>

(* close(), or __aexit__ which records the context's own failure first.    *)
(* Without a socket it returns at once; otherwise it awaits a shielded     *)
(* _release task.                                                          *)
CloseBegin(c, e) ==
    /\ closer[c] = "idle"
    /\ Abandon(e)
    /\ fut' = AbandonedFut
    /\ IF Connected
       THEN /\ closer' = [closer EXCEPT ![c] = "waiting"]
            /\ release' = [release EXCEPT ![c] = "created"]
       ELSE /\ closer' = [closer EXCEPT ![c] = "returnedEarly"]
            /\ UNCHANGED release
    /\ UNCHANGED <<peerVars, nextReq, pc, kind, target, sid, out, pending, unsubscribing, queue,
                   rcv, dropped, arrived, delivered, reported, overflow, reader>>

(* _release: ws.close starts the closing handshake, once.                  *)
ReleaseBegin(c) ==
    /\ release[c] = "created"
    /\ release' = [release EXCEPT ![c] = "closing"]
    /\ sock' = IF sock = "open" THEN "closing" ELSE sock
    /\ UNCHANGED <<toServer, toClient, srv, asked, granted, lastSid, notes, faults, callVars,
                   streamVars, closedExc, reader, closer>>

(* ws.close returned: the reader is cancelled and gathered.                *)
ReleaseEnd(c) ==
    /\ release[c] = "closing"
    /\ sock = "closed"
    /\ release' = [release EXCEPT ![c] = "ended"]
    /\ reader' = "done"
    /\ UNCHANGED <<peerVars, callVars, streamVars, closedExc, closer>>

CloseReturn(c) ==
    /\ release[c] = "ended"
    /\ \/ /\ closer[c] = "waiting"
          /\ closer' = [closer EXCEPT ![c] = "returned"]
       \/ /\ closer[c] = "cancelledOnce"
          /\ closer' = [closer EXCEPT ![c] = "raised"]
    /\ UNCHANGED <<peerVars, callVars, streamVars, closedExc, reader, release>>

(* The first cancellation of close() waits for the release again, the      *)
(* second one propagates; the release task runs on.                        *)
SlipUnshielded(c) ==
    /\ closer[c] = "waiting"
    /\ closer' = [closer EXCEPT ![c] = "raised"]
    /\ release' = [release EXCEPT ![c] = "none"]
    /\ UNCHANGED <<peerVars, callVars, streamVars, closedExc, reader>>

CloseCancel(c) ==
    /\ \/ /\ closer[c] = "waiting"
          /\ closer' = [closer EXCEPT ![c] = "cancelledOnce"]
       \/ /\ closer[c] = "cancelledOnce"
          /\ closer' = [closer EXCEPT ![c] = "gone"]
    /\ UNCHANGED <<peerVars, callVars, streamVars, closedExc, reader, release>>

----------------------------------------------------------------------------
Peer == PeerStep /\ UNCHANGED <<callVars, streamVars, lifeVars>>

Call ==
    \/ \E k \in Kinds : Subscribe(k)
    \/ \E r \in Requests :
        \/ Unsubscribe(r)
        \/ LockGranted(r) \/ LockRefused(r)
        \/ Write(r) \/ Sent(r) \/ SendFailed(r)
        \/ CancelRequest(r)
        \/ Return(r) \/ Timeout(r) \/ CancelWait(r)

Read ==
    \/ ReaderStart
    \/ DispatchSubscribed \/ DispatchAnswer \/ DispatchStray
    \/ Enqueue \/ OverflowDropOldest \/ OverflowDropNewest \/ OverflowRaise
    \/ ReadFatal \/ ReadAfterClose \/ ReaderEOF

Recv == RecvTake \/ RecvRaise \/ RecvBlock \/ RecvCancel

Connect == ConnectBegin \/ ConnectFail \/ ConnectOk

Close ==
    \E c \in Closers :
        \/ \E e \in {"local_close", "user_error"} : CloseBegin(c, e)
        \/ ReleaseBegin(c) \/ ReleaseEnd(c)
        \/ CloseReturn(c) \/ CloseCancel(c)

Next == Peer \/ Call \/ Read \/ Recv \/ Connect \/ Close

Spec == Init /\ [][Next]_vars

(* The event loop runs every task it has woken; websockets wakes a sender  *)
(* and the reader of a connection that is lost, and ends ws.close within   *)
(* close_timeout.  Nothing makes ws.send end on a live connection.         *)
LoopFairness ==
    /\ \A r \in Requests :
        /\ WF_vars(LockGranted(r)) /\ WF_vars(LockRefused(r))
        /\ WF_vars(SendFailed(r)) /\ WF_vars(pc[r] = "waiting" /\ Return(r))
    /\ WF_vars(Read)
    /\ WF_vars(rcv = "waiting" /\ (RecvTake \/ RecvRaise))
    /\ \A c \in Closers :
        WF_vars(ReleaseBegin(c)) /\ WF_vars(ReleaseEnd(c)) /\ WF_vars(CloseReturn(c))
    /\ WF_vars(SocketClosed /\ UNCHANGED <<callVars, streamVars, lifeVars>>)

(* request_timeout fires in _wait_pending.                                 *)
RequestTimers == \A r \in Requests : WF_vars(Timeout(r))

LoopSpec == Spec /\ LoopFairness

----------------------------------------------------------------------------
InCall  == {r \in Requests : pc[r] \in {"queued", "sending", "draining", "waiting"}}
Handles == {r \in Requests : fut[r] = "handle"}      \* the Subscription objects

(* The reader resolves a future without asking whether it is done: every   *)
(* entry of _pending_requests belongs to a call in progress and, exactly   *)
(* while the connection is open, has an unresolved future; and no call     *)
(* waits for an unresolved future that the reader cannot find.             *)
PendingExact ==
    /\ \A r \in pending : r \in InCall /\ (fut[r] = "pending" <=> closedExc = NoExc)
    /\ \A r \in Requests : fut[r] = "pending" => r \in pending

(* A dead connection owns no handle, and no call keeps an open future.     *)
DeadConnectionOwnsNothing ==
    closedExc # NoExc =>
        /\ \A s \in SubIds : subs[s] = 0
        /\ \A r \in Requests : fut[r] # "pending"

(* The first cause of a closure is the one every waiter reports: no later  *)
(* failure, timeout, cancellation or close() replaces it.                  *)
FirstCauseWins == [][closedExc # NoExc => closedExc' = closedExc]_vars

(* Whatever order the node answers in, a call gets its own answer: the     *)
(* handle of a subscribe carries the id granted to that very request, and  *)
(* an unsubscribe that succeeded ended that very subscription.             *)
AnswersReachTheirCall ==
    \A r \in Requests :
        /\ r \in Handles => sid[r] = granted[r] /\ sid[r] # 0
        /\ fut[r] = "ack" => target[r] # 0 /\ srv[sid[target[r]]] # target[r]

(* On an open connection every subscription the node serves can still be   *)
(* ended: its call has not returned yet, or its handle is registered, or   *)
(* the caller was cancelled inside ws.send.                                *)
NoOrphan ==
    IsOpen => \A s \in SubIds : srv[s] # 0 =>
        LET r == srv[s] IN
        \/ r \in InCall /\ fut[r] = "pending"
        \/ subs[s] = r
        \/ out[r] = "cancelled"

InFlight(t, s) == \E i \in DOMAIN toClient : toClient[i].type = t /\ toClient[i].sid = s

(* On an open connection a registered handle is live at the node, or the   *)
(* frame that ends it is on its way, or the unsubscribe call that ended it *)
(* has its answer, or was cancelled inside ws.send.                        *)
HandleLiveOrEnding ==
    IsOpen /\ sock = "open" => \A s \in SubIds : subs[s] # 0 =>
        \/ srv[s] = subs[s]
        \/ InFlight("final", s)
        \/ \E r \in Requests :
            /\ target[r] = subs[s]
            /\ \/ out[r] = "cancelled"
               \/ r \in InCall /\ (fut[r] = "ack" \/ InFlight("ack", s))

(* An id is reserved for an unsubscribe exactly while one call is ending   *)
(* it: no exit path leaks the reservation, which would make every later    *)
(* unsubscribe of the id fail, and no two calls end the same id.           *)
UnsubscribingExact ==
    LET Ending == {r \in InCall : target[r] # 0} IN
    /\ unsubscribing = {sid[target[r]] : r \in Ending}
    /\ \A q, r \in Ending : sid[target[q]] = sid[target[r]] => q = r

(* No lost wake-up: a suspended receiver has been woken exactly when there *)
(* is something for it, a notification or the closure.                     *)
ReceiverWoken ==
    rcv = "waiting" => (ready <=> queue # <<>> \/ closedExc # NoExc)

(* Notifications are handed out in the order they arrived, never twice,    *)
(* and each one is delivered, queued or counted as dropped.                *)
StreamConserved ==
    LET stream == delivered \o queue IN
    /\ \A i, j \in DOMAIN stream : i < j => stream[i] < stream[j]
    /\ Len(stream) + dropped = arrived

(* Under RAISE the stream has no gap: what was delivered and what is       *)
(* queued are the first notifications, to the last one accepted.           *)
NoGapUnderRaise == overflow = "raise" => delivered \o queue = [i \in 1..arrived |-> i]

(* Under DROP_OLDEST the queue holds the latest notifications, no gap.     *)
FreshestKept ==
    overflow = "drop_oldest" =>
        \A i \in DOMAIN queue : queue[i] = arrived - Len(queue) + i

(* Notifications queued at the closure are delivered before it is          *)
(* reported, and nothing is delivered after.                               *)
ClosureReportedLast == [][reported => delivered' = delivered /\ queue' = queue]_vars

(* What the receiver sees of the queue, its limit and its overflow policy  *)
(* is a NotificationStream, which knows of no queue.                       *)
Receiver == INSTANCE NotificationStream WITH
    Capacity <- QueueSize, policy <- overflow, seen <- arrived, got <- delivered,
    lost <- dropped, ended <- (closedExc # NoExc), told <- reported

StreamKept == Receiver!Spec

(* Whatever calls, answers, timeouts and cancellations interleave, the     *)
(* handles go through the life Subscriptions gives them, one at a time: no *)
(* step revives one, ends another's, or leaves one on an ended connection. *)
(* (Assumes ids that are not given again: see unsubscribe.)                *)
LifeOf(h) ==
    IF kind[h] = NoKind THEN "none"
    ELSE IF fut[h] = "pending" THEN "asked"
    ELSE IF \E s \in SubIds : subs[s] = h THEN "live"
    ELSE "gone"

Lives == INSTANCE Subscriptions WITH
    Handles <- Requests, life <- [h \in Requests |-> LifeOf(h)], over <- (closedExc # NoExc)

HandleLives == Lives!Spec

(* When close() returns, or re-raises its first cancellation, the socket   *)
(* it found is closed and the reader has ended.                            *)
CloseReleased ==
    \A c \in Closers : closer[c] \in {"returned", "raised"} => sock = "closed" /\ reader = "done"

(* Once close() waits for the release, the socket is released, even if its *)
(* caller is cancelled twice and never hears of it.                        *)
ReleaseHappens ==
    \A c \in Closers : closer[c] = "waiting" ~> sock = "closed" /\ reader = "done"

(* A call whose connection is abandoned returns, without any timer.        *)
AbandonedCallsReturn ==
    \A r \in Requests : pc[r] = "waiting" /\ closedExc # NoExc ~> pc[r] = "done"

(* A dead socket ends every call, wherever it is suspended: behind the     *)
(* send lock, in ws.send or waiting for its answer, without any timer.     *)
DeadSocketEndsCalls ==
    \A r \in Requests : sock = "closed" /\ r \in InCall ~> pc[r] = "done"

(* With its timer, a call that has written its request ends even if the    *)
(* node never answers.                                                     *)
WaitEnds == RequestTimers => \A r \in Requests : pc[r] = "waiting" ~> pc[r] = "done"

----------------------------------------------------------------------------
(* What the documentation promises and the code does not keep.             *)

(* subscribing-to-events.md: when a cancelled call had already written its *)
(* request, the connection goes with it, so that no subscription is left   *)
(* behind whose handle nobody has.                                         *)
CancelledSendLeavesNoOrphan ==
    IsOpen /\ sock = "open" => \A s \in SubIds : srv[s] # 0 =>
        (pc[srv[s]] = "done" => subs[s] = srv[s])

(* close() releases the connection and is safe to call concurrently: once  *)
(* it has returned, no socket is open.                                     *)
CloseLeavesNoSocket ==
    \A c \in Closers : closer[c] \in {"returned", "raised", "returnedEarly"} => sock # "open"
=============================================================================
