---------------------------- MODULE RpcRequests ----------------------------
(***************************************************************************)
(* The request builders of _ClientCore: what a request asks for, given the *)
(* arguments of a method and the default commitment c of the client.       *)
(*                                                                         *)
(* A request is the name of its method and its parameters, those that are  *)
(* not None, each under its name.  A lookup that raises is the parameter   *)
(* KeyError, a failed check ValueError: a request with such a parameter is *)
(* never built.                                                            *)
(*                                                                         *)
(* Definitions named Slip... are deliberate mistakes, one step away from   *)
(* the definition that follows; no specification uses them.                *)
(***************************************************************************)
EXTENDS Sequences

CONSTANTS
    None,          \* Python's None
    KeyError,      \* a lookup that raised
    ValueError     \* a check that raised

Levels           == {"processed", "confirmed", "finalized"}
TxEncodings      == {"binary", "base58", "base64", "json", "jsonParsed"}
AccountEncodings == {"binary", "base58", "base64", "jsonParsed", "base64+zstd"}
LargestFilters   == {"circulating", "nonCirculating"}

SlipUnchecked(table, v) == v

Known(table, v)       == IF v \in table THEN v ELSE KeyError
KnownOrNone(table, v) == IF v = None THEN None ELSE Known(table, v)

SlipOwnDefault(c, given) == Known(Levels, IF given = None THEN "finalized" ELSE given)

CommitmentToUse(c, given) == Known(Levels, IF given = None THEN c ELSE given)

DataSlice(s) == IF s = None THEN None ELSE [offset |-> s.offset, length |-> s.length]

(* A filter is a size or a comparison of bytes.                            *)
Filter(f) == IF "bytes" \in DOMAIN f THEN [offset |-> f.offset, bytes |-> f.bytes] ELSE f

Filters(fs) == IF fs = None THEN None ELSE [k \in DOMAIN fs |-> Filter(fs[k])]

Request(name, params) ==
    [name |-> name, params |-> [p \in {q \in DOMAIN params : params[q] # None} |-> params[p]]]

Bare(name) == Request(name, <<>>)

Raises(request) ==
    \E p \in DOMAIN request.params : request.params[p] \in {KeyError, ValueError}

----------------------------------------------------------------------------
get_health_body == Bare("getHealth")

get_balance_body(c, pubkey, commitment) ==
    Request("getBalance", [pubkey |-> pubkey, commitment |-> CommitmentToUse(c, commitment)])

get_account_info_body(c, pubkey, commitment, encoding, data_slice) ==
    Request("getAccountInfo",
        [pubkey |-> pubkey, encoding |-> Known(AccountEncodings, encoding),
         data_slice |-> DataSlice(data_slice), commitment |-> CommitmentToUse(c, commitment)])

get_block_commitment_body(slot) == Request("getBlockCommitment", [slot |-> slot])

get_block_time_body(slot) == Request("getBlockTime", [slot |-> slot])

get_block_body(c, slot, encoding, max_supported_transaction_version, transaction_details, rewards, commitment) ==
    Request("getBlock",
        [slot |-> slot, encoding |-> Known(TxEncodings, encoding),
         transaction_details |-> transaction_details, rewards |-> rewards,
         commitment |-> CommitmentToUse(c, commitment),
         max_supported_transaction_version |-> max_supported_transaction_version])

get_block_height_body(c, commitment) ==
    Request("getBlockHeight", [commitment |-> CommitmentToUse(c, commitment)])

get_recent_performance_samples_body(limit) ==
    Request("getRecentPerformanceSamples", [limit |-> limit])

get_blocks_body(start_slot, end_slot) ==
    Request("getBlocks", [start_slot |-> start_slot, end_slot |-> end_slot])

SlipSwappedCursors(c, address, before, until, limit, commitment, min_context_slot) ==
    Request("getSignaturesForAddress",
        [address |-> address, before |-> until, until |-> before, limit |-> limit,
         commitment |-> CommitmentToUse(c, commitment), min_context_slot |-> min_context_slot])

get_signatures_for_address_body(c, address, before, until, limit, commitment, min_context_slot) ==
    Request("getSignaturesForAddress",
        [address |-> address, before |-> before, until |-> until, limit |-> limit,
         commitment |-> CommitmentToUse(c, commitment), min_context_slot |-> min_context_slot])

get_transaction_body(c, tx_sig, encoding, commitment, max_supported_transaction_version) ==
    Request("getTransaction",
        [tx_sig |-> tx_sig, encoding |-> Known(TxEncodings, encoding),
         commitment |-> CommitmentToUse(c, commitment),
         max_supported_transaction_version |-> max_supported_transaction_version])

get_epoch_info_body(c, commitment) ==
    Request("getEpochInfo", [commitment |-> CommitmentToUse(c, commitment)])

get_fee_for_message_body(c, message, commitment) ==
    Request("getFeeForMessage",
        [message |-> message, commitment |-> CommitmentToUse(c, commitment)])

get_inflation_governor_body(c, commitment) ==
    Request("getInflationGovernor", [commitment |-> CommitmentToUse(c, commitment)])

get_largest_accounts_body(c, filter_opt, commitment) ==
    Request("getLargestAccounts",
        [commitment |-> CommitmentToUse(c, commitment),
         filter_opt |-> KnownOrNone(LargestFilters, filter_opt)])

get_leader_schedule_body(c, slot, commitment) ==
    Request("getLeaderSchedule", [slot |-> slot, commitment |-> CommitmentToUse(c, commitment)])

get_minimum_balance_for_rent_exemption_body(c, usize, commitment) ==
    Request("getMinimumBalanceForRentExemption",
        [usize |-> usize, commitment |-> CommitmentToUse(c, commitment)])

get_multiple_accounts_body(c, pubkeys, commitment, encoding, data_slice) ==
    Request("getMultipleAccounts",
        [pubkeys |-> pubkeys, encoding |-> Known(AccountEncodings, encoding),
         commitment |-> CommitmentToUse(c, commitment), data_slice |-> DataSlice(data_slice)])

get_program_accounts_body(c, pubkey, commitment, encoding, data_slice, filters) ==
    Request("getProgramAccounts",
        [pubkey |-> pubkey, encoding |-> KnownOrNone(AccountEncodings, encoding),
         commitment |-> CommitmentToUse(c, commitment), data_slice |-> DataSlice(data_slice),
         filters |-> Filters(filters)])

----------------------------------------------------------------------------
get_latest_blockhash_body(c, commitment) ==
    Request("getLatestBlockhash", [commitment |-> CommitmentToUse(c, commitment)])

get_signature_statuses_body(signatures, search_transaction_history) ==
    Request("getSignatureStatuses",
        [signatures |-> signatures, search_transaction_history |-> search_transaction_history])

get_slot_body(c, commitment) ==
    Request("getSlot", [commitment |-> CommitmentToUse(c, commitment)])

get_slot_leader_body(c, commitment) ==
    Request("getSlotLeader", [commitment |-> CommitmentToUse(c, commitment)])

get_slot_leaders_body(start, limit) ==
    Request("getSlotLeaders", [start |-> start, limit |-> limit])

get_inflation_reward_body(c, pubkeys, epoch, commitment) ==
    Request("getInflationReward",
        [pubkeys |-> pubkeys, epoch |-> epoch, commitment |-> CommitmentToUse(c, commitment)])

get_supply_body(c, commitment, exclude_non_circulating_accounts_list) ==
    Request("getSupply",
        [commitment |-> CommitmentToUse(c, commitment),
         exclude_non_circulating_accounts_list |-> exclude_non_circulating_accounts_list])

get_token_account_balance_body(c, pubkey, commitment) ==
    Request("getTokenAccountBalance",
        [pubkey |-> pubkey, commitment |-> CommitmentToUse(c, commitment)])

(* A mint makes the program id superfluous.                                *)
get_token_accounts_convert(c, name, pubkey, opts, commitment) ==
    Request(name,
        [pubkey |-> pubkey,
         mint |-> opts.mint,
         program_id |-> IF opts.mint # None THEN None
                        ELSE IF opts.program_id # None THEN opts.program_id
                        ELSE ValueError,
         encoding |-> Known(AccountEncodings, opts.encoding),
         commitment |-> CommitmentToUse(c, commitment),
         data_slice |-> DataSlice(opts.data_slice)])

get_token_accounts_by_delegate_body(c, delegate, opts, commitment) ==
    get_token_accounts_convert(c, "getTokenAccountsByDelegate", delegate, opts, commitment)

get_token_accounts_by_owner_body(c, owner, opts, commitment) ==
    get_token_accounts_convert(c, "getTokenAccountsByOwner", owner, opts, commitment)

JsonParsed(opts) == [opts EXCEPT !.encoding = "jsonParsed"]

get_token_accounts_by_delegate_json_parsed_body(c, delegate, opts, commitment) ==
    get_token_accounts_by_delegate_body(c, delegate, JsonParsed(opts), commitment)

get_token_accounts_by_owner_json_parsed_body(c, owner, opts, commitment) ==
    get_token_accounts_by_owner_body(c, owner, JsonParsed(opts), commitment)

get_token_largest_accounts_body(c, pubkey, commitment) ==
    Request("getTokenLargestAccounts",
        [pubkey |-> pubkey, commitment |-> CommitmentToUse(c, commitment)])

get_token_supply_body(c, pubkey, commitment) ==
    Request("getTokenSupply", [pubkey |-> pubkey, commitment |-> CommitmentToUse(c, commitment)])

get_transaction_count_body(c, commitment) ==
    Request("getTransactionCount", [commitment |-> CommitmentToUse(c, commitment)])

get_vote_accounts_body(c, vote_pubkey, commitment, keep_unstaked_delinquents, delinquent_slot_distance) ==
    Request("getVoteAccounts",
        [vote_pubkey |-> vote_pubkey, commitment |-> CommitmentToUse(c, commitment),
         keep_unstaked_delinquents |-> keep_unstaked_delinquents,
         delinquent_slot_distance |-> delinquent_slot_distance])

request_airdrop_body(c, pubkey, lamports, commitment) ==
    Request("requestAirdrop",
        [pubkey |-> pubkey, lamports |-> lamports, commitment |-> CommitmentToUse(c, commitment)])

----------------------------------------------------------------------------
send_raw_transaction_body(c, txn, opts) ==
    Request("sendTransaction",
        [txn |-> txn, skip_preflight |-> opts.skip_preflight,
         preflight_commitment |-> CommitmentToUse(c, opts.preflight_commitment),
         max_retries |-> opts.max_retries])

(* The level the transaction is confirmed at.                              *)
post_send_commitment(c, opts) ==
    IF opts.preflight_commitment = None THEN c ELSE opts.preflight_commitment

simulate_transaction_body(c, txn, sig_verify, commitment, replace, min_slot, inner, addresses, encoding) ==
    Request("simulateTransaction",
        [txn |-> txn, sig_verify |-> sig_verify,
         commitment |-> CommitmentToUse(c, commitment),
         replace_recent_blockhash |-> replace,
         min_context_slot |-> min_slot, inner_instructions |-> inner,
         accounts_addresses |-> addresses,
         accounts_encoding |-> IF addresses = None THEN None
                               ELSE Known(AccountEncodings, encoding)])
=============================================================================
