# A formal model of solana-py

TLA+ modules, TLC configurations and TLAPS proofs for the parts of solana-py
that are hard to test: first of all `solana.rpc.websocket_api.SolanaWsClient`,
where one reader task, any number of callers, one receiver and several closers
share one connection on one asyncio loop. Source lines are those of
`src/solana/...` and `src/spl/...` in the repository; `PROJECT.json` maps every
definition to its lines.

## The system

| component | state it keeps | operations | talks to | hard part | correct when |
|---|---|---|---|---|---|
| WebSocket client (`rpc/websocket_api.py`) | `_closed_exc`, `_pending_requests`, `_subscriptions`, `_unsubscribing`, `_send_lock`, `_notifications` and its event, `_ws`, the reader and release tasks | `connect`, nine `*_subscribe`, `unsubscribe`, `recv`, `close`, `__aexit__`, the read loop | the node over one WebSocket; callers through futures and an event | interleaving of tasks at every `await`, cancellation, timeouts, closure, overflow | each call gets its own answer or the cause of the closure; no subscription is lost; the stream has no silent gap; `close()` releases |
| RPC client (`rpc/async_api.py`) | default commitment, a provider | one request and answer per method; send with confirmation; `confirm_transaction` polls | HTTP provider | polling against a block height or the clock; the encoding a method asks for and the class that reads the answer are chosen apart | a confirmation is never claimed early, an expiry never claimed for a transaction that landed and that the node remembers; a value is returned only for a result, and a method can read what it asks for |
| HTTP provider (`rpc/async_http_provider.py`) | HTTP session, optional limiter | post with transport retries, error mapping | the node over HTTP | retry of a request that was executed | at most retries + 1 attempts, the last error is reported |
| Request builders (`rpc/core.py`, `models.py`, `commitment.py`, `types.py`) | the client's default commitment | build typed requests, order commitments | RPC client | forty methods resolve defaults and hand options on by position, each by hand | each option reaches the request as itself; leaving a level out is naming the default |
| JSON-RPC envelopes (`rpc/jsonrpc.py`, `exceptions.py`) | none | validate an envelope, rebuild typed errors | both transports | malformed answers | an envelope has a result or an error, never both |
| SPL token instructions (`spl/token/*`) | none | encode and decode instructions and account lists | application | optional signers, embedded counts | decoding an encoded instruction gives it back |
| Memo and vote programs | none | encode a memo or a withdrawal, decode a memo | application | a memo is untyped | as above |
| Utilities (`utils/*`) | none | parse a security.txt section, cluster lookup, account counts | application | field parser on data that also holds the footer in its code, or was cut | every field has its own value, or the section is refused |

## Modules

| module | what it is |
|---|---|
| `WsPeer` | the node and the wire, external to the repository: what the client assumes of them |
| `SolanaWsClient` | the whole class, its properties, and the deliberate mistakes (`Slip...`) the properties must notice |
| `NotificationStream` | the abstract specification of what a receiver is promised; `SolanaWsClient` is shown to implement it |
| `Subscriptions` | the abstract specification of the life of a subscription; `SolanaWsClient` is shown to implement it |
| `MCSolanaWsClient` | the instance TLC checks, with symmetry of the closers |
| `SolanaWsClientProofs` | theorems about `SolanaWsClient`: types, pending calls, receiver, release |
| `CallProofs` | theorems about its calls and the frames on the wire: answers and reservations |
| `StreamProofs` | theorems about its notifications, the refinement of `NotificationStream` among them |
| `SubscriptionProofs` | theorems about its subscriptions, the refinement of `Subscriptions` among them |
| `Ledger` | the chain as the RPC client sees it, external: blocks, votes, forks, one transaction |
| `Verdict` | the abstract specification of a confirmation: the fate of a transaction, what the node recalls of it, and the claim about it |
| `Confirmation` | `send_raw_transaction` and `confirm_transaction` on a `Ledger`, shown to implement `Verdict` |
| `ConfirmationProofs` | theorems about `Confirmation`, the refinement among them |
| `HttpProvider` | requests, transport retries, rate limiter and the reading of envelopes |
| `HttpProviderProofs` | theorems about `HttpProvider` |
| `RpcRequests` | the request builders of `_ClientCore`, as operators |
| `RpcMethods` | the methods of `AsyncClient` and the subscribe helpers that take options: request, reading class, options |
| `SecurityTxt` | `parse_security_txt`, as an operator on the data of a program |
| `RpcClient` | one call of any of these methods, from arguments to outcome, and the section in the data it read |
| `RpcClientProofs` | theorems about `RpcClient` and `SecurityTxt`: levels, defaults, options, outcomes, the section |
| `TokenModels` | the parameter classes of the token instructions, one record set each |
| `TokenInstructions` | every encoder and decoder of `spl.token.instructions`, as operators |
| `MemoVote` | the instructions of the memo and the vote program |
| `TokenCodec` | the life of an instruction: encoded, received back, decoded; the properties of the codec |
| `TokenCodecProofs` | theorems about `TokenCodec`: fields, round trip, confusion, lists, signatures |

`Confirmation` composes `Ledger` with the polling task; its requests go through
the provider, of which it needs only that a request ends, with an answer or an
error. `SolanaWsClient` composes `WsPeer` with the tasks of the client.
`RpcClient` composes `RpcMethods`, the builders below them and `SecurityTxt`
with a node that answers.

### What the client promises, without its mechanism

`NotificationStream` knows no queue, no event and no task: a receiver gets the
notifications of a connection in order, each once, loses none while fewer than
`Capacity` are unread, is under `drop_oldest` never handed one that is
`Capacity` behind, and is told of the end only when it has all it will get.
`StreamKept` maps the client to it: `seen` is the last notification the reader
took in (under `raise` the one that makes the client give up is not taken in),
`lost` the counter `dropped_notifications`, `got` what `recv` handed out.

`Subscriptions` knows no request, no future and no id: a subscription is asked
for, lives, goes, and never comes back, alone or with the whole connection.
`HandleLives` maps the client to it: a subscribe call is `asked` from its first
step, `live` while its handle is in `_subscriptions`, `gone` afterwards. The
refinement says that no step changes the lives of two handles, except the one
that ends the connection, which ends them all.

### How the client is modelled

*Tasks.* On an asyncio loop the code between two awaits runs alone, so each
action is one such stretch. Resolving a future or setting an event only makes
the waiter runnable: the waiter's step is an action of its own, and anything may
happen before it. The reader drains buffered frames without yielding; the model
lets other tasks step in between, which is also what happens when the frames
arrive one by one.

*Calls.* A call is named by its request id. `pc` says where it is suspended:
`queued` behind `_send_lock`, `sending` and `draining` inside `ws.send` before
and after the frame is handed to the transport, `waiting` in `_wait_pending`.
`fut` is the future of its `_PendingRequest`. A call that can take the lock at
once does so in the step that begins it, because `asyncio.Lock` does not suspend
then; otherwise the lock is first come first served. A call that finds its
future resolved when `ws.send` returns does not suspend (`Return` from
`draining`).

*Handles.* `subs[s] = h` says `_subscriptions[s]` is the handle created by
subscribe call `h`: the call id is the object identity that `unsubscribe`
compares.

*Cancellation.* A cancellation behind the lock or inside `ws.send` takes the
`except BaseException` path of `_request` (`CancelRequest`); a cancellation or
timeout in `_wait_pending` abandons the connection (`EndWait`), also when the
future is already resolved and the task merely has not run yet.

*Closing.* Every `close()` call has its own shielded `_release` task. The first
cancellation of the caller waits for it again, the second one propagates
(`CloseCancel`), the task runs on.

*The wire.* Requests form a set, because the node may answer in any order and
the client matches by id; frames to the client form a sequence. A remote close
loses any suffix of the frames. `Duplicate` and `Corrupt` are faults with a
budget.

*Left out.* The typed parameters of the subscribe helpers (they are in
`RpcMethods`), the text of errors,
a batch of several envelopes in one frame (each is dispatched as a frame of its
own; a batch that fails to parse is one unreadable frame), and calls that raise
before they touch the state (not connected, stale handle, second receiver,
reused client), which are stuttering steps.

### How a confirmation is modelled

`pc` names the await the task is in: the send, the first height, a status, a
height, the sleep, the last status. A request is evaluated by the node and its
answer processed in one action: nothing but the task reads or writes its state,
so the node's evaluation is the only moment that matters. Between two actions
the chain does what it likes. `Ledger` keeps the height of the chain at each
commitment and the block of the transaction; a fork drops blocks that were never
confirmed, and with them the transaction. The application passes the true last
valid height, none (`NoHeight`), or 0, which the code, testing for truth, treats
as none. Time is counted in ticks: a sleep takes one, a request at most one. A
cancellation, also inside the send, leaves open whether the transaction reached
a leader.

The polls call `get_signature_statuses` without `search_transaction_history`, so
the node looks in its recent status cache only, which keeps the blocks that are
not rooted and the last `MAX_RECENT_BLOCKHASHES` rooted ones
(`async_api.py`, lines 847-849). The model keeps the last `Retained` of them:
once `Forgotten` holds, a transaction that landed has no status. Hence a call
that begins, or makes its last poll, after that raises
`TransactionExpiredBlockheightExceededError` for a transaction that did land. The
model has such behaviours, and `Verdict` allows that one false claim and no
other: its `recalled` says whether the node still knew, and before it forgets
every claim is the fate. A caller that wants certainty after an expiry must ask
once more with `search_transaction_history`. The cache counts slots and the
model blocks; skipped slots would make it forget earlier, which a smaller
`Retained` covers.

At commitment `processed` the code promises no more than a processed block,
which a fork may drop and whose height may go back, so `Claim` leaves such calls
out.

### How the provider is modelled

One call goes through `ready` (behind the limiter), `posting`, `answered` and
`done`. The body is built once, the limiter is passed by every attempt
(`_post_request_once`), and a transport error leaves open whether the node
received the request. The limiter is the leaky bucket of aiolimiter: `Rate`
requests, one leaked per tick, `Rate` ticks to the second, 0 for none.
`rate_limit` is a float in the code; the model takes the whole ones, for which
the bucket is a whole number of requests. `RateBound` is what the bucket keeps:
a burst of `Rate` and all but one of what leaks in the same second, so up to
2 `Rate` - 1 posts in any second, where the docstring of `rate_limit`
(`async_http_provider.py`, line 56) says 'Maximum requests per second.'

A response has an error status, behind which no body is read, or says which
members its envelope has: absent, null, of the type expected (`object`), or
`other`; a body that is no envelope at all has an `other` error. Who reads it is
`reader`: a call of `send_rpc_request` goes through its three steps, the
validation of the envelope, `unwrap_result`, and `TypeAdapter(result_type)`,
which refuses a result of another type, and null unless the type is optional
(`value` or `value_or_null`). A validation error of the first or the last step
is the outcome `invalid`. Typed methods are read by the parsers of solders,
outside the repository: they read a well-formed envelope with a result they can
hold, and for any other every outcome is allowed. Pool limits, headers and
proxies are left out.

### How requests are modelled

A request is the name of its method and a function from the names of its
parameters to their values; a parameter that is `None` is not in it. A lookup
in a table that fails puts `KeyError` in the place of the value, a failed check
`ValueError`, and a request with such a place is never sent (`Raises`). An
argument that must be given, or is only handed on, is represented by its own
name: what arrives under another name is then visible. `ArgsOf` is every
combination of the options a method takes, with levels, encodings and filters
that do not exist among the values.

The node is external. It refuses, fails, or answers; account data comes parsed
if that was asked for and it knows the program, which it does of a token
account, else in the encoding asked for, of which base58, also its own default,
serves short data only. `reads` of a method is what its response class can hold:
the plain methods read bytes, the `_json_parsed` twins of the token methods
parsed accounts, the other twins either. `OutcomeTrue` then says where a
successful answer is unreadable: only where a plain method was asked for
`jsonParsed` and the node did parse the account. The docstrings offer that
encoding, so this is no fault of the caller: it is the finding `ParsedAccount`,
and the property confines it to that one case.

Some peculiarities of the code that the model keeps: a mint makes a program id
in the same options superfluous; what `get_leader_schedule` calls an epoch is
sent as a slot; a helper that subscribes leaves the level to the node when none
is given, whatever the default of an RPC client; `send_raw_transaction` without
options sends at the client's level, with options that name no level at the same
one; `is_connected` raises on an unhealthy node.

`SecurityTxt` sees the data of a program as tokens: header, footer, null bytes,
names of fields and other runs of bytes. `RpcClient` builds it as a program
does, with the footer in its code before the section, and a data slice may cut
the header or the footer off. The segments between null bytes are known by the
place before them (`Starts`, `EndOf`, `Part`). `SectionRead` speaks of sections
whose fields occur once and whose values are no names of fields: the parser walks
the parts one by one, so that a value which is the name of a field gives that
field the next part, although a comment (`security_txt.py`, line 66) says names
and values alternate. A value is one run of bytes or empty. To keep the run small
a section is looked at after a call that leaves
commitment and encoding to their defaults.

### How the token instructions are modelled

An instruction is a program, its account list, a type and the values of the
fields of the type's layout in order. Every integer has the width of its field
and an integer outside it fails the encoding. An option is one value, or two
with the key, so that a reader which expects another width reads the next field.
A decoder that would index beyond the list gets `IndexError`, a value that the
properties forbid. In `TokenCodec` the instruction comes back as it was, cut to
any length, or with one account more, as another producer may write it.

A memo is its message: it has no type, and its decoder checks neither the program
nor the number of accounts, unlike those of the token programs, so
`NeverBeyondTheEnd` leaves it out. The withdrawal of a vote account has an encoder
only. No decoder looks at the program: the one byte of
`create_idempotent_associated_token_account` reads as `initialize_account`, and
`NoConfusion` speaks of the instructions of the token programs.

Widths are constants; 2, 3 and 4 stand for the largest bytes, shorts and longs,
so that each has values that fit only the wider field, and lists of up to three
keys exceed what a byte counts. TLC gives an integer only the values at the
boundaries of the fields; the theorems speak of every one.

## Runs

| run | bounds | question |
|---|---|---|
| `Calls` | 3 requests, 2 ids, 1 notification | no orphaned subscription, no stale handle, no leaked reservation, one cause; handles live as `Subscriptions` says |
| `Faults` | 2 requests, 2 recyclable ids, 2 faults | late, duplicated, unordered and unreadable answers |
| `Stream` | queue of 2, 4 notifications, 2 closers, 1 request, a receiver, each overflow policy | the queue at its limit, closure while suspended, release under concurrent and cancelled `close()`; the stream is a `NotificationStream` |
| `Live` | 2 requests, 1 closer, loop fairness | abandoned connections, dead sockets and silent nodes hold no call; `close()` releases |
| `CancelledSend`, `CloseDuringConnect` | small | what the documentation says and the code does not do |
| `Confirm` | valid up to height 2, chain up to 4, 2 forks, statuses of 2 rooted blocks kept, timeout of 2 ticks | a claim is true as far as the node recalls, and the polling ends |
| `ConfirmTimeout` | the same | the documented timeout does not bound the polling by height |
| `Http` | 2 calls, 1 retry, 2 requests per second | retries, limiter, envelopes and the type of the result, cancellation, `close()` under way |
| `Requests` | every method with every combination of its options, 3 default levels, sections of up to 3 fields | defaults, options, the fit of encoding and class, errors, the section |
| `ParsedAccount` | the same, sections of 1 field | an encoding the docstrings offer is not read |
| `Tokens` | 2 keys, lists of up to 3, widths 2, 3 and 4 | the codec of the token, memo and vote programs: round trip, no confusion of types, short lists, signatures |

Three requests are the fewest with a subscribe, an unsubscribe of it and a third
call queued behind the lock; two ids let two subscriptions live at once; a queue
of two with four notifications overflows with something before and after the
victim; two closers are the fewest that overlap, and each may be cancelled
twice. A chain of four blocks around a last valid height of two has blocks
before, at and after it, and two forks drop a transaction, let it land again and
drop it once more; with two rooted blocks kept, one that landed in the first or
the second block is forgotten before the chain ends. Two calls with one retry each are four attempts on a bucket
of two. Two keys tell any two positions of an account list apart. Three fields
are the fewest with two required ones and an optional, repeated, empty or unknown
one around or between them; a call has no memory of earlier ones but the default
level, so one call suffices. Deadlock is
not an error: an application may stop calling, and a closed client or an ended
call has nothing left to do.

*Fairness.* `LoopFairness` says the event loop runs the tasks it has woken, that
websockets wakes a sender and the reader of a lost connection, and that
`ws.close` ends within `close_timeout`; nothing makes the node answer, the
application call, or `ws.send` finish on a live connection. The timer of
`request_timeout` is the antecedent `RequestTimers` of `WaitEnds`, so that the
other properties do without it. `PollSpec` says a request of a confirmation ends,
because the HTTP session has a timeout, and that a sleeper wakes. That the chain
grows is only an antecedent, `ChainGrows`, of `HeightConcludes`.

## Findings

* `CancelledSend`: a call cancelled inside `ws.send` after its frame was written
  forgets the request and leaves the connection open, so the node may serve a
  subscription nobody can end. The guide (`subscribing-to-events.md`, line 93)
  and the changelog (line 8) promise that the connection goes with the call.
* `CloseDuringConnect`: `close()` during the opening handshake returns with
  nothing to release, and `connect()` then opens a socket on a closed client.
* `ConfirmTimeout`: with a last valid block height the polling has no clock, so on
  a chain that stands still it never ends; the docstring of `skip_confirmation`
  promises that 90 seconds bound it.
* `ParsedAccount`: `get_account_info` and the other plain methods offer
  `jsonParsed` in their docstrings and in `TokenAccountOpts`, and the integration
  tests use it (on accounts no node can parse), but they read the answer with a
  class that holds bytes: an account the node does parse makes the call fail. The
  changelog (lines 378-380) names the `_json_parsed` methods to use.

`NoOrphan` and `HandleLiveOrEnding` are the strongest forms that hold: they
exempt calls cancelled inside `ws.send`, and they assume the node does not give
the id of an ended subscription again on the same connection (`Recycle = FALSE`),
because `unsubscribe` removes by id after its await. `Faults` runs with recycled
ids.

## Proofs

`SolanaWsClientProofs` proves for every value of the constants, from the two
assumptions on them (`PeerAssumption`, `ClientAssumption`):

* `TypeCorrect`: `TypeOK`, one lemma per group of actions.
* `PendingIsExact`, `DeadOwnsNothing`: from the inductive invariant `CallInv`,
  which joins them with `TypeOK`. They need each other: `_abandon` fails every
  open future only if every open future has an entry in `_pending_requests`,
  and entries stay open only because the reader stops at a recorded cause. The
  lemmas `AbandonKeeps`, `AbandonAndEndKeeps`, `EndKeeps` and `ResolveKeeps`
  are the four ways an action touches calls.
* `FirstCauseIsKept`: every step leaves `_closed_exc` or is an `_abandon`.
* `ReceiverIsWoken`, `ClosureIsLast`: from `RecvInv`, which adds that a closure
  is reported only on an empty queue of a closed connection.
* `CloseIsRelease`: from `CloseInv`, a release task ends only with the socket
  closed and the reader done, and neither comes back.

`CallProofs` (extends it), for any number of calls, ids and faults, also with ids
that are given again:

* `OwnAnswers`: `AnswersReachTheirCall`. That is not inductive: whether the next
  answer resolves the right call depends on every frame on the wire and every
  request the node has yet to handle. `AnswerInv` says what is known of both: a
  request not yet handled has no answer and no grant (`RequestsOnWire`), every
  answer under way says what the node did for its own call and is the only
  answer of that call up to copies (`AnswersOnWire`), a call's future, position,
  kind and outcome agree (`CallRecords`), and the target of an unsubscribe is a
  handle whose call has returned (`TargetsKnown`). Most steps are `Quiet`: they
  begin, write and answer no request, and keep `AnswerInv` by one lemma.
* `ReservationsAreExact`: `UnsubscribingExact`, from `AnswerInv`, which says that
  the id of a handle some call is ending does not change.

`StreamProofs` (extends it):

* `StreamIsConserved`, `RaiseLeavesNoGap`, `OldestAreDropped`: from `StreamInv`,
  which gives the positions of what is delivered and queued, and `WireInv`, which
  says that the notifications under way continue, in order and without a gap,
  what the reader has dispatched: only then is the one at the head `arrived + 1`.
  The loss of a suffix by a remote close keeps it.
* `StreamIsKept`: every action maps to an action of `NotificationStream` or a
  stutter, from the same invariants.

`SubscriptionProofs` (extends `CallProofs`), under the hypothesis `~Recycle`, that
the node gives no id again on one connection; without it the statements are
false, because `unsubscribe` removes by id after its await:

* `NothingIsOrphaned`: `NoOrphan`.
* `HandlesAreLiveOrEnding`: `HandleLiveOrEnding`.
* `HandlesLive`: every action maps to one step of `Subscriptions`, of one handle
  or of all with the connection, or to a stutter.

They rest on `GrantInv`. Ids belong to one request for ever (`GrantsUnique`), a
registered handle carries the id it is registered under (`HandlesKnown`), and,
on an open connection, what is served is pending, registered or was cancelled
(`Served`). The hard part is `LiveOrEnding`: a notification can end a
subscription before its subscriber has its handle, and the entry the reader then
makes goes only because the end comes behind the answer on the wire, which
`ConfirmFirst` says for every pending call.

`ConfirmationProofs`, from `LedgerAssumption` and `ConfirmationAssumption`:

* `ConfirmationTypeCorrect`: `TypeOK`.
* `ClaimsHold`: `Confirmation` implements `Verdict`, for every last valid height,
  chain, timeout and size of the status cache. The inductive invariant `ConfInv`
  orders the heights of the levels, bounds the height the client has seen by the
  height of the chain at its commitment (which never goes back at confirmed or
  finalized), and says that the last poll is only asked for beyond the last valid
  height. Then every step of
  the chain settles the fate, makes the node forget, or stutters, and every
  conclusion claims the fate, or an expiry after the node forgot.

`HttpProviderProofs`, from `ProviderAssumption`:

* `ProviderTypeCorrect`, `RetriesAreExact`, `AnswersAreFinal`: from `ProviderInv`,
  which adds to `TypeOK` what each `pc` says of attempts, retries and answer.
* `RateIsBounded`: from `BucketInv`, which says that the posts of the last k ticks
  are at most the level of the bucket plus what has leaked since.
* `EnvelopesAreRead`: `EnvelopeRead`, from `ReadInv`, which says how a call with an
  answer ended for each reader, and `ProviderInv`, by which only reading ends such
  a call. The property states the members an answer must have without the
  definitions the model reads it with.

`RpcClientProofs`, from `MethodAssumption`, that neither `None` nor an exception is
a level, an encoding or another value an option is given, and from
`TokenAssumption` and `SectionAssumption`, that the header, the footer, the null
byte and undecodable bytes differ and are neither the name of a field nor text:

* `CallsAreFaithful`: the request is the one of the call, the outcome the one of
  the answer. Four lemmas with one case for each method do the rest, by what the
  builders share: a level is looked up in one place (`Resolves`, `SpelledOut`),
  and what is true of a record of parameters is true of the request
  (`PlainCarries`, `OneEncoding`).
* `TypeCorrect`, `DefaultsAreExplicit`, `EveryOptionArrives`, `OutcomesAreTrue`:
  `TypeOK`, `DefaultIsExplicit`, `OptionsArrive`, `OutcomeTrue`.
* `SectionsAreRead`: `SectionRead`, for every number of fields and every slice of
  the data. The invariant `SectionInv` says that `data` is a slice of what a
  program embeds for the fields of `section`, and `txt` what
  `parse_security_txt` makes of it. The rest is about the operators. The bytes of
  a list of fields are joined by a recursion over it, so where field k begins is
  an induction: `SetInduction`, which follows from the library's theorem that the
  naturals are well-founded, first gives that the recursion defines a function
  (`JoiningExists`), then that each sequence is at its place and nothing else is
  there (`FlattenIsLaid`, `Placed`). From that, a segment starts exactly at a name
  or at a value (`StartsPlaced`) and ends at its null byte (`NamePlaced`,
  `ValuePlaced`), the fields read are the fields written (`FieldsPlaced`), and
  neither header nor footer occurs among them, so that `Find` returns the two that
  delimit the section, or nothing if a slice cut one off (`SliceRead`).

`TokenCodecProofs`, from `ModelAssumption`, `InstructionAssumption` and
`MemoVoteAssumption`, for every set of keys, every width of the integers and lists of
every length. The assumptions say that nothing of the code's own is mistaken for
something else: `None` and the exception of an index are no key, no integer and no
list of keys, the widths are ordered, and the associated-account, memo and vote
programs are not token programs.

* `Invariance`: the inductive invariant `IInv`. What has been encoded has the form
  of its kind (`Formed`: program, type, data, the fixed accounts and the shape of
  the rest, and integers that fit), what came back has the same data and a list
  at most one account longer (`Came`), and what was decoded is what the decoder
  says of that (`Decoded`). The proof has one case for each of the 33 kinds; they
  are short because the lists of accounts have four shapes (fixed, with an owner
  and signers, with one more list, with both), each with one lemma on what an
  encoder writes and where a decoder finds it.
* `IntegersFit`: `TypeOK`.
* `ParametersReturn`: `RoundTrip`. A form fixes every parameter (`ReadBack`).
* `NoInstructionIsConfused`: `NoConfusion`. A decoder takes only its own tag, the
  type and for the transfer-fee extension the second byte (`DecodedIsTagged`), what
  a token program is sent has the tag of its kind (`FormIsTagged`), and no two kinds
  share a tag (`OneKind`).
* `EveryAccountArrives`: `NoAccountLost`, also when the accounts were cut or grew:
  the slices a decoder takes join to the rest of the list (`KeysJoin`).
* `NoDecoderReadsBeyond`: `NeverBeyondTheEnd`. What a decoder indexes lies within
  the number of accounts it asks for, also behind a count read from the data.
* `TheRightOnesSign`: `SignaturesRequired`.

Only model-checked: the six liveness properties, since liveness under fairness and
`ENABLED` are out of the prover's reach. Every invariant and every action property
of the passing runs, and the refinement, is proved.

## Not modelled

* `cluster_api_url`, a table of constants, and `parse_recent_blockhash`, an
  accessor.
* The order of commitments as a value type of its own (`rpc/commitment.py`); the
  levels themselves are in `Ledger` and `RpcRequests`.
* The layouts of accounts in `spl/token/_layouts.py`, which nothing in `src` uses.
* An answer with a result and a null error, which JSON-RPC 2.0 forbids but the
  validator of envelopes accepts: `_dispatch_error` takes the call out of
  `_pending_requests` and then fails on the missing error object, so `_abandon`
  does not wake that call; its `request_timeout` does.
* What `drop_newest` discards: also the last notification of a signature
  subscription, whose handle is gone by then. The policy accepts any loss, and
  the code promises no more.
* The text and the fields of errors, logging, connection pools, TLS and HTTP/2.

## Plan

Done: every component is modelled, every property of the runs but those named under
"Only model-checked" is proved.

Open: the theorems of `SubscriptionProofs` without `~Recycle`, should `unsubscribe`
come to remove its own handle only; it removes by id after its await.
