----------------------------- MODULE TokenCodec -----------------------------
(***************************************************************************)
(* The life of one instruction: an application encodes it, it comes back   *)
(* from a transaction, perhaps one that another producer wrote with the    *)
(* same data and another list of accounts, and a reader tries decoders on  *)
(* it.  Nothing decodes an instruction of the vote program, and a memo, of *)
(* any bytes, is given to the decoder of memos only.                       *)
(***************************************************************************)
EXTENDS MemoVote

VARIABLES
    pc,         \* "start", "encoded", "raised", "received" or "decoded"
    kind,       \* the function that encoded it
    params,     \* its parameters
    instr,      \* the instruction it returned
    received,   \* the instruction that came back
    decoder,    \* the kind whose decoder was called
    result      \* what that returned

vars == <<pc, kind, params, instr, received, decoder, result>>

AssociatedParams ==
    [payer : Pubkeys, owner : Pubkeys, mint : Pubkeys,
     token_program_id : TokenPrograms \cup {ASSOCIATED_TOKEN_PROGRAM_ID}]

Init ==
    /\ pc = "start"
    /\ kind = "none" /\ decoder = "none"
    /\ params = None
    /\ instr = BuildError /\ received = BuildError
    /\ result = Rejected

Encode(k, p, i) ==
    /\ pc' = IF i = BuildError THEN "raised" ELSE "encoded"
    /\ kind' = k /\ params' = p /\ instr' = i
    /\ UNCHANGED <<received, decoder, result>>

(* The account list as it was encoded, cut, or with one account more.      *)
Padded(accounts) == accounts \o <<Readonly(RENT)>>

Receive ==
    /\ pc = "encoded" /\ kind # "withdraw_from_vote_account"
    /\ pc' = "received"
    /\ \E n \in 0..(Len(instr.accounts) + 1) :
        received' = [instr EXCEPT !.accounts = SubSeq(Padded(@), 1, n)]
    /\ UNCHANGED <<kind, params, instr, decoder, result>>

(* Bound: a decoder of another kind is tried on intact instructions only.  *)
Decode(k, r) ==
    /\ k = kind \/ (received = instr /\ kind # "create_memo")
    /\ pc' = "decoded"
    /\ decoder' = k /\ result' = r
    /\ UNCHANGED <<kind, params, instr, received>>

EncodeStep ==
    /\ pc = "start"
    /\ \/ \E p \in InitializeMintParams : Encode("initialize_mint", p, initialize_mint(p))
       \/ \E p \in InitializeMint2Params :
           Encode("initialize_mint2", p, initialize_mint2(p))
       \/ \E p \in InitializeAccountParams :
           Encode("initialize_account", p, initialize_account(p))
       \/ \E p \in InitializeAccount2Params :
           Encode("initialize_account2", p, initialize_account2(p))
       \/ \E p \in InitializeAccount3Params :
           Encode("initialize_account3", p, initialize_account3(p))
       \/ \E p \in InitializeMultisigParams :
           Encode("initialize_multisig", p, initialize_multisig(p))
       \/ \E p \in InitializeMultisig2Params :
           Encode("initialize_multisig2", p, initialize_multisig2(p))
       \/ \E p \in TransferParams : Encode("transfer", p, transfer(p))
       \/ \E p \in ApproveParams : Encode("approve", p, approve(p))
       \/ \E p \in RevokeParams : Encode("revoke", p, revoke(p))
       \/ \E p \in SetAuthorityParams : Encode("set_authority", p, set_authority(p))
       \/ \E p \in MintToParams : Encode("mint_to", p, mint_to(p))
       \/ \E p \in BurnParams : Encode("burn", p, burn(p))
       \/ \E p \in CloseAccountParams : Encode("close_account", p, close_account(p))
       \/ \E p \in FreezeAccountParams : Encode("freeze_account", p, freeze_account(p))
       \/ \E p \in ThawAccountParams : Encode("thaw_account", p, thaw_account(p))
       \/ \E p \in TransferCheckedParams :
           Encode("transfer_checked", p, transfer_checked(p))
       \/ \E p \in ApproveCheckedParams : Encode("approve_checked", p, approve_checked(p))
       \/ \E p \in MintToCheckedParams : Encode("mint_to_checked", p, mint_to_checked(p))
       \/ \E p \in BurnCheckedParams : Encode("burn_checked", p, burn_checked(p))
       \/ \E p \in SyncNativeParams : Encode("sync_native", p, sync_native(p))
       \/ \E p \in GetAccountDataSizeParams :
           Encode("get_account_data_size", p, get_account_data_size(p))
       \/ \E p \in InitializeImmutableOwnerParams :
           Encode("initialize_immutable_owner", p, initialize_immutable_owner(p))
       \/ \E p \in InitializeTransferFeeConfigParams :
           Encode("initialize_transfer_fee_config", p, initialize_transfer_fee_config(p))
       \/ \E p \in WithdrawWithheldTokensFromAccountsParams :
           Encode("withdraw_withheld_tokens_from_accounts", p,
                  withdraw_withheld_tokens_from_accounts(p))
       \/ \E p \in WithdrawWithheldTokensFromMintParams :
           Encode("withdraw_withheld_tokens_from_mint", p,
                  withdraw_withheld_tokens_from_mint(p))
       \/ \E p \in HarvestWithheldTokensToMintParams :
           Encode("harvest_withheld_tokens_to_mint", p, harvest_withheld_tokens_to_mint(p))
       \/ \E p \in AmountToUiAmountParams :
           Encode("amount_to_ui_amount", p, amount_to_ui_amount(p))
       \/ \E p \in UiAmountToAmountParams :
           Encode("ui_amount_to_amount", p, ui_amount_to_amount(p))
       \/ \E p \in AssociatedParams :
           Encode("create_associated_token_account", p, create_associated_token_account(p))
       \/ \E p \in AssociatedParams :
           Encode("create_idempotent_associated_token_account", p,
                  create_idempotent_associated_token_account(p))
       \/ \E p \in MemoParams : Encode("create_memo", p, create_memo(p))
       \/ \E p \in WithdrawFromVoteAccountParams :
           Encode("withdraw_from_vote_account", p, withdraw_from_vote_account(p))

DecodeStep ==
    /\ pc = "received"
    /\ \/ Decode("initialize_mint", decode_initialize_mint(received))
       \/ Decode("initialize_mint2", decode_initialize_mint2(received))
       \/ Decode("initialize_account", decode_initialize_account(received))
       \/ Decode("initialize_account2", decode_initialize_account2(received))
       \/ Decode("initialize_account3", decode_initialize_account3(received))
       \/ Decode("initialize_multisig", decode_initialize_multisig(received))
       \/ Decode("initialize_multisig2", decode_initialize_multisig2(received))
       \/ Decode("transfer", decode_transfer(received))
       \/ Decode("approve", decode_approve(received))
       \/ Decode("revoke", decode_revoke(received))
       \/ Decode("set_authority", decode_set_authority(received))
       \/ Decode("mint_to", decode_mint_to(received))
       \/ Decode("burn", decode_burn(received))
       \/ Decode("close_account", decode_close_account(received))
       \/ Decode("freeze_account", decode_freeze_account(received))
       \/ Decode("thaw_account", decode_thaw_account(received))
       \/ Decode("transfer_checked", decode_transfer_checked(received))
       \/ Decode("approve_checked", decode_approve_checked(received))
       \/ Decode("mint_to_checked", decode_mint_to_checked(received))
       \/ Decode("burn_checked", decode_burn_checked(received))
       \/ Decode("sync_native", decode_sync_native(received))
       \/ Decode("get_account_data_size", decode_get_account_data_size(received))
       \/ Decode("initialize_immutable_owner", decode_initialize_immutable_owner(received))
       \/ Decode("initialize_transfer_fee_config",
              decode_initialize_transfer_fee_config(received))
       \/ Decode("withdraw_withheld_tokens_from_accounts",
              decode_withdraw_withheld_tokens_from_accounts(received))
       \/ Decode("withdraw_withheld_tokens_from_mint",
              decode_withdraw_withheld_tokens_from_mint(received))
       \/ Decode("harvest_withheld_tokens_to_mint",
              decode_harvest_withheld_tokens_to_mint(received))
       \/ Decode("amount_to_ui_amount", decode_amount_to_ui_amount(received))
       \/ Decode("ui_amount_to_amount", decode_ui_amount_to_amount(received))
       \/ kind = "create_memo" /\ Decode("create_memo", decode_create_memo(received))

Next == EncodeStep \/ Receive \/ DecodeStep

Spec == Init /\ [][Next]_vars

----------------------------------------------------------------------------
Multisigs == {"initialize_multisig", "initialize_multisig2"}

(* What comes back as it was encoded is decoded to the very parameters it  *)
(* was encoded from: no account is taken for another, no list is cut, no   *)
(* integer has wrapped.  The decoders of multisignature accounts want at   *)
(* least as many signers as signatures, which their encoders do not check. *)
RoundTrip ==
    pc = "decoded" /\ decoder = kind /\ received = instr =>
        result = IF kind \in Multisigs /\ Len(params.signers) < params.m
                 THEN Rejected
                 ELSE ParamsOf(params)

(* A decoder takes only what its own encoder writes: an instruction of a   *)
(* token program is never read as another.                                 *)
NoConfusion ==
    pc = "decoded" /\ result.ok /\ instr.program_id \in TokenPrograms => decoder = kind

(* No list of accounts, however short, makes a decoder read beyond its end *)
(* instead of raising that keys are missing, but for the decoder of memos, *)
(* which checks nothing.                                                   *)
NeverBeyondTheEnd ==
    pc = "decoded" /\ result.ok /\ decoder # "create_memo" =>
        \A f \in DOMAIN result.params : result.params[f] # IndexError

ListOf(p, f) == IF f \in DOMAIN p THEN p[f] ELSE <<>>
Trailing(p)  == ListOf(p, "signers") \o ListOf(p, "multi_signers") \o ListOf(p, "sources")

(* Whatever list an instruction comes back with, each account after the    *)
(* fixed ones reaches the caller once and in order.                        *)
NoAccountLost ==
    /\ pc = "decoded" /\ result.ok /\ decoder = kind
    /\ DOMAIN params \cap {"signers", "multi_signers", "sources"} # {}
    => Trailing(result.params)
           = KeysFrom(received, Len(instr.accounts) - Len(Trailing(params)) + 1)

Unsigned ==
    Multisigs \cup
    {"initialize_mint", "initialize_mint2", "initialize_account", "initialize_account2",
     "initialize_account3", "sync_native", "get_account_data_size",
     "initialize_immutable_owner", "initialize_transfer_fee_config",
     "harvest_withheld_tokens_to_mint", "amount_to_ui_amount", "ui_amount_to_amount"}

Authorities ==
    {"payer", "owner", "mint_authority", "authority", "current_authority", "signer", "withdrawer"}

(* The fields that name an authority: the owner of a new associated        *)
(* account is none, and the authority of set_authority is a type.          *)
AuthorityFields ==
    CASE "payer" \in DOMAIN params -> {"payer"}
      [] kind = "set_authority"    -> {"current_authority"}
      [] OTHER                     -> Authorities \cap DOMAIN params

Required ==
    LET listed == ListOf(params, "signers") \o ListOf(params, "multi_signers")
    IN IF kind \in Unsigned THEN {}
       ELSE IF listed # <<>> THEN {listed[k] : k \in 1..Len(listed)}
       ELSE {params[f] : f \in AuthorityFields}

(* The signatures a transaction needs for an instruction: none to          *)
(* initialize, to convert or to harvest; the payer's for an associated     *)
(* account, the author's for a memo; else the authority's or, if it is a   *)
(* multisignature account, those of the listed signers and not its own.    *)
SignaturesRequired ==
    pc = "encoded" =>
        \A key \in Pubkeys :
            key \in Required <=> \E k \in 1..Len(instr.accounts) :
                                    instr.accounts[k].pubkey = key /\ instr.accounts[k].is_signer

Holds(f, values) == f \in DOMAIN params => params[f] \in values

(* An instruction carries only integers its fields can hold.               *)
TypeOK ==
    /\ pc \in {"start", "encoded", "raised", "received", "decoded"}
    /\ pc \notin {"start", "raised"} =>
        /\ Holds("amount", Int64ul) /\ Holds("lamports", Int64ul) /\ Holds("maximum_fee", Int64ul)
        /\ Holds("decimals", Int8ul) /\ Holds("m", Int8ul)
        /\ Holds("transfer_fee_basis_points", Int16ul)
        /\ kind = "withdraw_withheld_tokens_from_accounts" => Len(params.sources) \in Int8ul
    /\ pc \in {"received", "decoded"} =>
        /\ received.type = instr.type /\ received.args = instr.args
        /\ Len(received.accounts) <= Len(instr.accounts) + 1
    /\ result.ok \in BOOLEAN
=============================================================================
