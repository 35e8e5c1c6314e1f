----------------------------- MODULE RpcMethods -----------------------------
(***************************************************************************)
(* The methods of AsyncClient and the subscribe helpers of SolanaWsClient: *)
(* the request each makes of its arguments, what the class it reads the    *)
(* answer with can hold, and the arguments it takes besides the ones it    *)
(* must be given.                                                          *)
(*                                                                         *)
(* The arguments are a function on the names of all options.  An option    *)
(* that is left out is None, an encoding that is left out is "default";    *)
(* an argument that must be given, or that is only handed on, is           *)
(* represented by its own name.                                            *)
(***************************************************************************)
EXTENDS RpcRequests

(* Neither None nor an exception is a value an option is given.            *)
ASSUME MethodAssumption ==
    /\ None \notin {KeyError, ValueError}
    /\ {None, KeyError, ValueError}
           \cap (Levels \cup TxEncodings \cup AccountEncodings \cup {"default", "opts"}) = {}

Method(request, reads, takes) == [request |-> request, reads |-> reads, takes |-> takes]

(* What the class of an answer can hold: accounts with their data as bytes *)
(* only, parsed by the node only, or either; or no account data.           *)
Binary == {"bytes"}
Parsed == {"parsed"}
Either == Binary \cup Parsed
NoData == {"none"}

EncodingOr(default, given) == IF given = "default" THEN default ELSE given
FlagOf(given) == IF given = None THEN "False" ELSE given

----------------------------------------------------------------------------
is_connected == Method(get_health_body, NoData, {})

get_balance(c, a) ==
    Method(get_balance_body(c, "pubkey", a.commitment), NoData, {"commitment"})

get_account_info(c, a) ==
    Method(get_account_info_body(c, "pubkey", a.commitment, EncodingOr("base64", a.encoding),
               a.data_slice),
           Binary, {"commitment", "encoding", "data_slice"})

get_account_info_json_parsed(c, a) ==
    Method(get_account_info_body(c, "pubkey", a.commitment, "jsonParsed", None),
           Either, {"commitment"})

get_block_commitment == Method(get_block_commitment_body("slot"), NoData, {})

get_block_time == Method(get_block_time_body("slot"), NoData, {})

get_cluster_nodes == Method(Bare("getClusterNodes"), NoData, {})

get_block(c, a) ==
    Method(get_block_body(c, "slot", EncodingOr("json", a.encoding),
               a.max_supported_transaction_version, a.transaction_details, a.rewards,
               a.commitment),
           NoData, {"encoding", "max_supported_transaction_version", "transaction_details",
                    "rewards", "commitment"})

get_recent_performance_samples(a) ==
    Method(get_recent_performance_samples_body(a.limit), NoData, {"limit"})

get_recent_prioritization_fees(a) ==
    Method(Request("getRecentPrioritizationFees", [addresses |-> a.addresses]),
           NoData, {"addresses"})

get_block_height(c, a) ==
    Method(get_block_height_body(c, a.commitment), NoData, {"commitment"})

get_blocks(a) == Method(get_blocks_body("start_slot", a.end_slot), NoData, {"end_slot"})

get_signatures_for_address(c, a) ==
    Method(get_signatures_for_address_body(c, "address", a.before, a.until, a.limit,
               a.commitment, a.min_context_slot),
           NoData, {"before", "until", "limit", "commitment", "min_context_slot"})

get_transaction(c, a) ==
    Method(get_transaction_body(c, "tx_sig", EncodingOr("json", a.encoding), a.commitment,
               a.max_supported_transaction_version),
           NoData, {"encoding", "commitment", "max_supported_transaction_version"})

----------------------------------------------------------------------------
get_epoch_info(c, a) == Method(get_epoch_info_body(c, a.commitment), NoData, {"commitment"})

get_epoch_schedule == Method(Bare("getEpochSchedule"), NoData, {})

get_fee_for_message(c, a) ==
    Method(get_fee_for_message_body(c, "message", a.commitment), NoData, {"commitment"})

get_first_available_block == Method(Bare("getFirstAvailableBlock"), NoData, {})

get_genesis_hash == Method(Bare("getGenesisHash"), NoData, {})

get_identity == Method(Bare("getIdentity"), NoData, {})

get_inflation_governor(c, a) ==
    Method(get_inflation_governor_body(c, a.commitment), NoData, {"commitment"})

get_inflation_rate == Method(Bare("getInflationRate"), NoData, {})

get_inflation_reward(c, a) ==
    Method(get_inflation_reward_body(c, "pubkeys", a.epoch, a.commitment),
           NoData, {"epoch", "commitment"})

get_largest_accounts(c, a) ==
    Method(get_largest_accounts_body(c, a.filter_opt, a.commitment),
           NoData, {"filter_opt", "commitment"})

(* What the method calls an epoch is a slot of that epoch.                 *)
get_leader_schedule(c, a) ==
    Method(get_leader_schedule_body(c, a.slot, a.commitment), NoData, {"slot", "commitment"})

get_minimum_balance_for_rent_exemption(c, a) ==
    Method(get_minimum_balance_for_rent_exemption_body(c, "usize", a.commitment),
           NoData, {"commitment"})

get_multiple_accounts(c, a) ==
    Method(get_multiple_accounts_body(c, "pubkeys", a.commitment,
               EncodingOr("base64", a.encoding), a.data_slice),
           Binary, {"commitment", "encoding", "data_slice"})

get_multiple_accounts_json_parsed(c, a) ==
    Method(get_multiple_accounts_body(c, "pubkeys", a.commitment, "jsonParsed", None),
           Either, {"commitment"})

get_program_accounts(c, a) ==
    Method(get_program_accounts_body(c, "pubkey", a.commitment,
               EncodingOr("base64", a.encoding), a.data_slice, a.filters),
           Binary, {"commitment", "encoding", "data_slice", "filters"})

get_program_accounts_json_parsed(c, a) ==
    Method(get_program_accounts_body(c, "pubkey", a.commitment, "jsonParsed", None, a.filters),
           Either, {"commitment", "filters"})

get_latest_blockhash(c, a) ==
    Method(get_latest_blockhash_body(c, a.commitment), NoData, {"commitment"})

----------------------------------------------------------------------------
get_signature_statuses(a) ==
    Method(get_signature_statuses_body("signatures", FlagOf(a.search_transaction_history)),
           NoData, {"search_transaction_history"})

get_slot(c, a) == Method(get_slot_body(c, a.commitment), NoData, {"commitment"})

get_slot_leader(c, a) == Method(get_slot_leader_body(c, a.commitment), NoData, {"commitment"})

get_slot_leaders == Method(get_slot_leaders_body("start", "limit"), NoData, {})

get_supply(c, a) ==
    Method(get_supply_body(c, a.commitment, FlagOf(a.exclude_non_circulating_accounts_list)),
           NoData, {"commitment", "exclude_non_circulating_accounts_list"})

get_token_account_balance(c, a) ==
    Method(get_token_account_balance_body(c, "pubkey", a.commitment), NoData, {"commitment"})

TokenAccountOpts(a) ==
    [mint |-> a.mint, program_id |-> a.program_id, data_slice |-> a.data_slice,
     encoding |-> EncodingOr("base64", a.encoding)]

TokenOptions == {"commitment", "mint", "program_id", "data_slice", "encoding"}

get_token_accounts_by_delegate(c, a) ==
    Method(get_token_accounts_by_delegate_body(c, "pubkey", TokenAccountOpts(a), a.commitment),
           Binary, TokenOptions)

get_token_accounts_by_delegate_json_parsed(c, a) ==
    Method(get_token_accounts_by_delegate_json_parsed_body(c, "pubkey", TokenAccountOpts(a),
               a.commitment),
           Parsed, TokenOptions)

get_token_accounts_by_owner_json_parsed(c, a) ==
    Method(get_token_accounts_by_owner_json_parsed_body(c, "pubkey", TokenAccountOpts(a),
               a.commitment),
           Parsed, TokenOptions)

get_token_accounts_by_owner(c, a) ==
    Method(get_token_accounts_by_owner_body(c, "pubkey", TokenAccountOpts(a), a.commitment),
           Binary, TokenOptions)

get_token_largest_accounts(c, a) ==
    Method(get_token_largest_accounts_body(c, "pubkey", a.commitment), NoData, {"commitment"})

get_token_supply(c, a) ==
    Method(get_token_supply_body(c, "pubkey", a.commitment), NoData, {"commitment"})

get_transaction_count(c, a) ==
    Method(get_transaction_count_body(c, a.commitment), NoData, {"commitment"})

get_minimum_ledger_slot == Method(Bare("minimumLedgerSlot"), NoData, {})

get_version == Method(Bare("getVersion"), NoData, {})

get_vote_accounts(c, a) ==
    Method(get_vote_accounts_body(c, a.vote_pubkey, a.commitment, a.keep_unstaked_delinquents,
               a.delinquent_slot_distance),
           NoData, {"vote_pubkey", "commitment", "keep_unstaked_delinquents",
                    "delinquent_slot_distance"})

request_airdrop(c, a) ==
    Method(request_airdrop_body(c, "pubkey", "lamports", a.commitment), NoData, {"commitment"})

----------------------------------------------------------------------------
(* Without options a transaction is sent at the default commitment, and    *)
(* the options that were left out are those of TxOpts.                     *)
TxOptsToUse(c, a) ==
    IF a.opts = None
    THEN [preflight_commitment |-> c, skip_preflight |-> "False", max_retries |-> None]
    ELSE [preflight_commitment |-> a.preflight_commitment,
          skip_preflight |-> FlagOf(a.skip_preflight), max_retries |-> a.max_retries]

send_raw_transaction(c, a) ==
    Method(send_raw_transaction_body(c, "txn", TxOptsToUse(c, a)),
           NoData, {"opts", "preflight_commitment", "skip_preflight", "max_retries"})

(* The level send_raw_transaction goes on to confirm at.                   *)
ConfirmedAt(c, a) == post_send_commitment(c, TxOptsToUse(c, a))

simulate_transaction(c, a) ==
    Method(simulate_transaction_body(c, "txn", FlagOf(a.sig_verify), a.commitment,
               FlagOf(a.replace_recent_blockhash), a.min_context_slot,
               FlagOf(a.inner_instructions), a.accounts_addresses,
               EncodingOr("base64", a.encoding)),
           IF a.accounts_addresses = None THEN NoData ELSE Binary,
           {"sig_verify", "commitment", "replace_recent_blockhash", "min_context_slot",
            "inner_instructions", "accounts_addresses", "encoding"})

validator_exit == Method(Bare("validatorExit"), NoData, {})

----------------------------------------------------------------------------
(* The subscribe helpers: an option that is left out is left to the node.  *)
SubscribeEncoding(a) == KnownOrNone(AccountEncodings, EncodingOr("base64", a.encoding))
SubscribeCommitment(a) == KnownOrNone(Levels, a.commitment)

account_subscribe(a) ==
    Method(Request("accountSubscribe",
               [pubkey |-> "pubkey", encoding |-> SubscribeEncoding(a),
                data_slice |-> DataSlice(a.data_slice), commitment |-> SubscribeCommitment(a),
                min_context_slot |-> a.min_context_slot]),
           Either, {"commitment", "encoding", "data_slice", "min_context_slot"})

program_subscribe(a) ==
    Method(Request("programSubscribe",
               [program_id |-> "program_id", encoding |-> SubscribeEncoding(a),
                commitment |-> SubscribeCommitment(a), min_context_slot |-> a.min_context_slot,
                data_slice |-> DataSlice(a.data_slice), filters |-> Filters(a.filters),
                with_context |-> a.with_context, sort_results |-> a.sort_results]),
           Either, {"commitment", "encoding", "data_slice", "min_context_slot", "filters",
                    "with_context", "sort_results"})

logs_subscribe(a) ==
    Method(Request("logsSubscribe",
               [filter_ |-> "filter_", commitment |-> SubscribeCommitment(a)]),
           NoData, {"commitment"})

block_subscribe(a) ==
    Method(Request("blockSubscribe",
               [filter_ |-> "filter_", commitment |-> SubscribeCommitment(a),
                encoding |-> KnownOrNone(TxEncodings, EncodingOr(None, a.encoding)),
                transaction_details |-> a.transaction_details,
                show_rewards |-> a.show_rewards,
                max_supported_transaction_version |-> a.max_supported_transaction_version]),
           NoData, {"commitment", "encoding", "transaction_details", "show_rewards",
                    "max_supported_transaction_version"})

signature_subscribe(a) ==
    Method(Request("signatureSubscribe",
               [signature |-> "signature", commitment |-> SubscribeCommitment(a),
                enable_received_notification |-> a.enable_received_notification]),
           NoData, {"commitment", "enable_received_notification"})
=============================================================================
