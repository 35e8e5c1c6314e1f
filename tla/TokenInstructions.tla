------------------------- MODULE TokenInstructions --------------------------
(***************************************************************************)
(* spl.token.instructions: the encoders, which make an instruction of      *)
(* parameters, and the decoders, which make parameters of an instruction.  *)
(*                                                                         *)
(* An instruction is a program, a list of accounts and its data: a type    *)
(* and the values of the fields of the type's layout, in the order of the  *)
(* layout.  An integer that does not fit its field fails the encoding; the *)
(* other fields take any value of their class.                             *)
(*                                                                         *)
(* Definitions named Slip... are deliberate mistakes, one step away from   *)
(* the definition that follows; no specification uses them.                *)
(***************************************************************************)
EXTENDS TokenModels

CONSTANTS
    RENT,                          \* the rent sysvar
    SYS_PROGRAM_ID,
    ASSOCIATED_TOKEN_PROGRAM_ID,
    IndexError                     \* what accounts[n] raises beyond the end

(* An exception is none of the values, and no list of keys.                *)
ASSUME InstructionAssumption ==
    /\ IndexError \notin Pubkeys \cup TokenPrograms
                           \cup {None, RENT, SYS_PROGRAM_ID, ASSOCIATED_TOKEN_PROGRAM_ID}
                           \cup UiAmounts \cup AuthorityType \cup Int
    /\ IndexError \notin Seq(Pubkeys \cup {RENT} \cup TokenPrograms)
    /\ ASSOCIATED_TOKEN_PROGRAM_ID \notin TokenPrograms

Meta(key, signer, writable) == [pubkey |-> key, is_signer |-> signer, is_writable |-> writable]
Writable(key) == Meta(key, FALSE, TRUE)
Readonly(key) == Meta(key, FALSE, FALSE)
Signer(key)   == Meta(key, TRUE, FALSE)

WritableAll(keys) == [k \in 1..Len(keys) |-> Writable(keys[k])]
ReadonlyAll(keys) == [k \in 1..Len(keys) |-> Readonly(keys[k])]
SignerAll(keys)   == [k \in 1..Len(keys) |-> Signer(keys[k])]

Instruction(program, type, args, accounts) ==
    [program_id |-> program, type |-> type, args |-> args, accounts |-> accounts]

(* INSTRUCTIONS_LAYOUT.build, which raises if a value does not fit.        *)
BuildError == Instruction(None, "BuildError", <<>>, <<>>)

SlipUnchecked(fits, program, type, args, accounts) == Instruction(program, type, args, accounts)

Build(fits, program, type, args, accounts) ==
    IF fits THEN Instruction(program, type, args, accounts) ELSE BuildError

(* An optional key is an option byte, and the key only if the byte is set. *)
SlipOptionWidth(key) == IF key = None THEN <<0, RENT>> ELSE <<1, key>>

Option(key) == IF key = None THEN <<0>> ELSE <<1, key>>

(* The owner signs, or the signers of a multisignature owner do.           *)
SlipOwnerSigns(accounts, owner, signers) == accounts \o <<Signer(owner)>> \o SignerAll(signers)

add_signers(accounts, owner, signers) ==
    IF signers # <<>>
    THEN accounts \o <<Readonly(owner)>> \o SignerAll(signers)
    ELSE accounts \o <<Signer(owner)>>

----------------------------------------------------------------------------
(* The encoders.                                                           *)
initialize_mint(p) ==
    Build(p.decimals \in Int8ul, p.program_id, "INITIALIZE_MINT",
          <<p.decimals, p.mint_authority>> \o Option(p.freeze_authority),
          <<Writable(p.mint), Readonly(RENT)>>)

initialize_mint2(p) ==
    Build(p.decimals \in Int8ul, p.program_id, "INITIALIZE_MINT2",
          <<p.decimals, p.mint_authority>> \o Option(p.freeze_authority),
          <<Writable(p.mint)>>)

initialize_account(p) ==
    Instruction(p.program_id, "INITIALIZE_ACCOUNT", <<>>,
        <<Writable(p.account), Readonly(p.mint), Readonly(p.owner), Readonly(RENT)>>)

initialize_account2(p) ==
    Instruction(p.program_id, "INITIALIZE_ACCOUNT2", <<p.owner>>,
        <<Writable(p.account), Readonly(p.mint), Readonly(RENT)>>)

initialize_account3(p) ==
    Instruction(p.program_id, "INITIALIZE_ACCOUNT3", <<p.owner>>,
        <<Writable(p.account), Readonly(p.mint)>>)

initialize_multisig(p) ==
    Build(p.m \in Int8ul, p.program_id, "INITIALIZE_MULTISIG", <<p.m>>,
          <<Writable(p.multisig), Readonly(RENT)>> \o ReadonlyAll(p.signers))

initialize_multisig2(p) ==
    Build(p.m \in Int8ul, p.program_id, "INITIALIZE_MULTISIG2", <<p.m>>,
          <<Writable(p.multisig)>> \o ReadonlyAll(p.signers))

transfer(p) ==
    Build(p.amount \in Int64ul, p.program_id, "TRANSFER", <<p.amount>>,
          add_signers(<<Writable(p.source), Writable(p.dest)>>, p.owner, p.signers))

approve(p) ==
    Build(p.amount \in Int64ul, p.program_id, "APPROVE", <<p.amount>>,
          add_signers(<<Writable(p.source), Readonly(p.delegate)>>, p.owner, p.signers))

revoke(p) ==
    Instruction(p.program_id, "REVOKE", <<>>,
        add_signers(<<Writable(p.account)>>, p.owner, p.signers))

set_authority(p) ==
    Instruction(p.program_id, "SET_AUTHORITY", <<p.authority>> \o Option(p.new_authority),
        add_signers(<<Writable(p.account)>>, p.current_authority, p.signers))

mint_to_instruction(fits, p, type, args) ==
    Build(fits, p.program_id, type, args,
          add_signers(<<Writable(p.mint), Writable(p.dest)>>, p.mint_authority, p.signers))

mint_to(p) == mint_to_instruction(p.amount \in Int64ul, p, "MINT_TO", <<p.amount>>)

burn_instruction(fits, p, type, args) ==
    Build(fits, p.program_id, type, args,
          add_signers(<<Writable(p.account), Writable(p.mint)>>, p.owner, p.signers))

burn(p) == burn_instruction(p.amount \in Int64ul, p, "BURN", <<p.amount>>)

close_account(p) ==
    Instruction(p.program_id, "CLOSE_ACCOUNT", <<>>,
        add_signers(<<Writable(p.account), Writable(p.dest)>>, p.owner, p.signers))

freeze_or_thaw_instruction(p, type) ==
    Instruction(p.program_id, type, <<>>,
        add_signers(<<Writable(p.account), Readonly(p.mint)>>, p.authority, p.multi_signers))

freeze_account(p) == freeze_or_thaw_instruction(p, "FREEZE_ACCOUNT")

thaw_account(p) == freeze_or_thaw_instruction(p, "THAW_ACCOUNT")

CheckedFits(p) == p.amount \in Int64ul /\ p.decimals \in Int8ul

transfer_checked(p) ==
    Build(CheckedFits(p), p.program_id, "TRANSFER2", <<p.amount, p.decimals>>,
          add_signers(<<Writable(p.source), Readonly(p.mint), Writable(p.dest)>>,
                      p.owner, p.signers))

approve_checked(p) ==
    Build(CheckedFits(p), p.program_id, "APPROVE2", <<p.amount, p.decimals>>,
          add_signers(<<Writable(p.source), Readonly(p.mint), Readonly(p.delegate)>>,
                      p.owner, p.signers))

mint_to_checked(p) ==
    mint_to_instruction(CheckedFits(p), p, "MINT_TO2", <<p.amount, p.decimals>>)

burn_checked(p) ==
    burn_instruction(CheckedFits(p), p, "BURN2", <<p.amount, p.decimals>>)

sync_native(p) == Instruction(p.program_id, "SYNC_NATIVE", <<>>, <<Writable(p.account)>>)

get_account_data_size(p) ==
    Instruction(p.program_id, "GET_ACCOUNT_DATA_SIZE", <<>>, <<Readonly(p.mint)>>)

initialize_immutable_owner(p) ==
    Instruction(p.program_id, "INITIALIZE_IMMUTABLE_OWNER", <<>>, <<Writable(p.account)>>)

(* The transfer fee extension: the first value is the second type.         *)
Fee == "TRANSFER_FEE_EXTENSION"

initialize_transfer_fee_config(p) ==
    Build(p.transfer_fee_basis_points \in Int16ul /\ p.maximum_fee \in Int64ul,
          p.program_id, Fee,
          <<"INITIALIZE_TRANSFER_FEE_CONFIG">> \o Option(p.transfer_fee_config_authority)
              \o Option(p.withdraw_withheld_authority)
              \o <<p.transfer_fee_basis_points, p.maximum_fee>>,
          <<Writable(p.mint)>>)

withdraw_withheld_tokens_from_accounts(p) ==
    Build(Len(p.sources) \in Int8ul, p.program_id, Fee,
          <<"WITHDRAW_WITHHELD_TOKENS_FROM_ACCOUNTS", Len(p.sources)>>,
          add_signers(<<Readonly(p.mint), Writable(p.dest)>>, p.authority, p.signers)
              \o WritableAll(p.sources))

withdraw_withheld_tokens_from_mint(p) ==
    Instruction(p.program_id, Fee, <<"WITHDRAW_WITHHELD_TOKENS_FROM_MINT">>,
        add_signers(<<Writable(p.mint), Writable(p.dest)>>, p.authority, p.signers))

harvest_withheld_tokens_to_mint(p) ==
    Instruction(p.program_id, Fee, <<"HARVEST_WITHHELD_TOKENS_TO_MINT">>,
        <<Writable(p.mint)>> \o WritableAll(p.sources))

amount_to_ui_amount(p) ==
    Build(p.amount \in Int64ul, p.program_id, "AMOUNT_TO_UI_AMOUNT", <<p.amount>>,
          <<Readonly(p.mint)>>)

ui_amount_to_amount(p) ==
    Instruction(p.program_id, "UI_AMOUNT_TO_AMOUNT", <<p.ui_amount>>, <<Readonly(p.mint)>>)

----------------------------------------------------------------------------
(* The decoders.  A result is the parameters, or that it raises.                 *)
ParamsOf(params) == [ok |-> TRUE, params |-> params]
Rejected       == [ok |-> FALSE, params |-> None]

(* accounts[n], counted from one, and the keys from the n-th to the last.  *)
Key(i, n) == IF n <= Len(i.accounts) THEN i.accounts[n].pubkey ELSE IndexError

Keys(i, first, last) ==
    [k \in 1..(IF last >= first THEN last - first + 1 ELSE 0) |-> i.accounts[first + k - 1].pubkey]

KeysFrom(i, n) == Keys(i, n, Len(i.accounts))

(* validate_instruction_keys and validate_instruction_type.                *)
SlipOneKeyLess(i, expected) == Len(i.accounts) >= expected - 1

HasKeys(i, expected) == Len(i.accounts) >= expected

parse_and_validate_instruction(i, expected_keys, expected_type) ==
    HasKeys(i, expected_keys) /\ i.type = expected_type

ReadOption(i, n)  == IF i.args[n] # 0 THEN i.args[n + 1] ELSE None
AfterOption(i, n) == IF i.args[n] # 0 THEN n + 2 ELSE n + 1

decode_initialize_mint(i) ==
    IF parse_and_validate_instruction(i, 2, "INITIALIZE_MINT")
    THEN ParamsOf([decimals |-> i.args[1], program_id |-> i.program_id, mint |-> Key(i, 1),
                   mint_authority |-> i.args[2], freeze_authority |-> ReadOption(i, 3)])
    ELSE Rejected

decode_initialize_mint2(i) ==
    IF parse_and_validate_instruction(i, 1, "INITIALIZE_MINT2")
    THEN ParamsOf([decimals |-> i.args[1], program_id |-> i.program_id, mint |-> Key(i, 1),
                   mint_authority |-> i.args[2], freeze_authority |-> ReadOption(i, 3)])
    ELSE Rejected

decode_initialize_account(i) ==
    IF parse_and_validate_instruction(i, 4, "INITIALIZE_ACCOUNT")
    THEN ParamsOf([program_id |-> i.program_id, account |-> Key(i, 1), mint |-> Key(i, 2),
                   owner |-> Key(i, 3)])
    ELSE Rejected

decode_initialize_account2(i) ==
    IF parse_and_validate_instruction(i, 3, "INITIALIZE_ACCOUNT2")
    THEN ParamsOf([program_id |-> i.program_id, account |-> Key(i, 1), mint |-> Key(i, 2),
                   owner |-> i.args[1]])
    ELSE Rejected

decode_initialize_account3(i) ==
    IF parse_and_validate_instruction(i, 2, "INITIALIZE_ACCOUNT3")
    THEN ParamsOf([program_id |-> i.program_id, account |-> Key(i, 1), mint |-> Key(i, 2),
                   owner |-> i.args[1]])
    ELSE Rejected

decode_initialize_multisig(i) ==
    IF parse_and_validate_instruction(i, 2, "INITIALIZE_MULTISIG") /\ HasKeys(i, 2 + i.args[1])
    THEN ParamsOf([program_id |-> i.program_id, multisig |-> Key(i, 1),
                   signers |-> KeysFrom(i, 3), m |-> i.args[1]])
    ELSE Rejected

decode_initialize_multisig2(i) ==
    IF parse_and_validate_instruction(i, 1, "INITIALIZE_MULTISIG2") /\ HasKeys(i, 1 + i.args[1])
    THEN ParamsOf([program_id |-> i.program_id, multisig |-> Key(i, 1),
                   signers |-> KeysFrom(i, 2), m |-> i.args[1]])
    ELSE Rejected

decode_transfer(i) ==
    IF parse_and_validate_instruction(i, 3, "TRANSFER")
    THEN ParamsOf([program_id |-> i.program_id, source |-> Key(i, 1), dest |-> Key(i, 2),
                   owner |-> Key(i, 3), signers |-> KeysFrom(i, 4), amount |-> i.args[1]])
    ELSE Rejected

decode_approve(i) ==
    IF parse_and_validate_instruction(i, 3, "APPROVE")
    THEN ParamsOf([program_id |-> i.program_id, source |-> Key(i, 1), delegate |-> Key(i, 2),
                   owner |-> Key(i, 3), signers |-> KeysFrom(i, 4), amount |-> i.args[1]])
    ELSE Rejected

decode_revoke(i) ==
    IF parse_and_validate_instruction(i, 2, "REVOKE")
    THEN ParamsOf([program_id |-> i.program_id, account |-> Key(i, 1), owner |-> Key(i, 2),
                   signers |-> KeysFrom(i, 3)])
    ELSE Rejected

decode_set_authority(i) ==
    IF parse_and_validate_instruction(i, 2, "SET_AUTHORITY")
    THEN ParamsOf([program_id |-> i.program_id, account |-> Key(i, 1), authority |-> i.args[1],
                   new_authority |-> ReadOption(i, 2), current_authority |-> Key(i, 2),
                   signers |-> KeysFrom(i, 3)])
    ELSE Rejected

decode_mint_to(i) ==
    IF parse_and_validate_instruction(i, 3, "MINT_TO")
    THEN ParamsOf([program_id |-> i.program_id, amount |-> i.args[1], mint |-> Key(i, 1),
                   dest |-> Key(i, 2), mint_authority |-> Key(i, 3), signers |-> KeysFrom(i, 4)])
    ELSE Rejected

decode_burn(i) ==
    IF parse_and_validate_instruction(i, 3, "BURN")
    THEN ParamsOf([program_id |-> i.program_id, amount |-> i.args[1], account |-> Key(i, 1),
                   mint |-> Key(i, 2), owner |-> Key(i, 3), signers |-> KeysFrom(i, 4)])
    ELSE Rejected

decode_close_account(i) ==
    IF parse_and_validate_instruction(i, 3, "CLOSE_ACCOUNT")
    THEN ParamsOf([program_id |-> i.program_id, account |-> Key(i, 1), dest |-> Key(i, 2),
                   owner |-> Key(i, 3), signers |-> KeysFrom(i, 4)])
    ELSE Rejected

decode_freeze_account(i) ==
    IF parse_and_validate_instruction(i, 3, "FREEZE_ACCOUNT")
    THEN ParamsOf([program_id |-> i.program_id, account |-> Key(i, 1), mint |-> Key(i, 2),
                   authority |-> Key(i, 3), multi_signers |-> KeysFrom(i, 4)])
    ELSE Rejected

decode_thaw_account(i) ==
    IF parse_and_validate_instruction(i, 3, "THAW_ACCOUNT")
    THEN ParamsOf([program_id |-> i.program_id, account |-> Key(i, 1), mint |-> Key(i, 2),
                   authority |-> Key(i, 3), multi_signers |-> KeysFrom(i, 4)])
    ELSE Rejected

decode_transfer_checked(i) ==
    IF parse_and_validate_instruction(i, 4, "TRANSFER2")
    THEN ParamsOf([program_id |-> i.program_id, amount |-> i.args[1], decimals |-> i.args[2],
                   source |-> Key(i, 1), mint |-> Key(i, 2), dest |-> Key(i, 3),
                   owner |-> Key(i, 4), signers |-> KeysFrom(i, 5)])
    ELSE Rejected

decode_approve_checked(i) ==
    IF parse_and_validate_instruction(i, 4, "APPROVE2")
    THEN ParamsOf([program_id |-> i.program_id, amount |-> i.args[1], decimals |-> i.args[2],
                   source |-> Key(i, 1), mint |-> Key(i, 2), delegate |-> Key(i, 3),
                   owner |-> Key(i, 4), signers |-> KeysFrom(i, 5)])
    ELSE Rejected

decode_mint_to_checked(i) ==
    IF parse_and_validate_instruction(i, 3, "MINT_TO2")
    THEN ParamsOf([program_id |-> i.program_id, amount |-> i.args[1], decimals |-> i.args[2],
                   mint |-> Key(i, 1), dest |-> Key(i, 2), mint_authority |-> Key(i, 3),
                   signers |-> KeysFrom(i, 4)])
    ELSE Rejected

decode_burn_checked(i) ==
    IF parse_and_validate_instruction(i, 3, "BURN2")
    THEN ParamsOf([program_id |-> i.program_id, amount |-> i.args[1], decimals |-> i.args[2],
                   account |-> Key(i, 1), mint |-> Key(i, 2), owner |-> Key(i, 3),
                   signers |-> KeysFrom(i, 4)])
    ELSE Rejected

decode_sync_native(i) ==
    IF parse_and_validate_instruction(i, 1, "SYNC_NATIVE")
    THEN ParamsOf([program_id |-> i.program_id, account |-> Key(i, 1)])
    ELSE Rejected

decode_get_account_data_size(i) ==
    IF parse_and_validate_instruction(i, 1, "GET_ACCOUNT_DATA_SIZE")
    THEN ParamsOf([program_id |-> i.program_id, mint |-> Key(i, 1)])
    ELSE Rejected

decode_initialize_immutable_owner(i) ==
    IF parse_and_validate_instruction(i, 1, "INITIALIZE_IMMUTABLE_OWNER")
    THEN ParamsOf([program_id |-> i.program_id, account |-> Key(i, 1)])
    ELSE Rejected

decode_initialize_transfer_fee_config(i) ==
    IF /\ parse_and_validate_instruction(i, 1, Fee)
       /\ i.args[1] = "INITIALIZE_TRANSFER_FEE_CONFIG"
    THEN LET second == AfterOption(i, 2)
             rest   == AfterOption(i, second)
         IN ParamsOf([program_id |-> i.program_id, mint |-> Key(i, 1),
                      transfer_fee_config_authority |-> ReadOption(i, 2),
                      withdraw_withheld_authority |-> ReadOption(i, second),
                      transfer_fee_basis_points |-> i.args[rest],
                      maximum_fee |-> i.args[rest + 1]])
    ELSE Rejected

(* The last num_token_accounts accounts are the sources; in the slice      *)
(* [3:-num_token_accounts] of Python a zero would count from the front.    *)
SlipZeroFromFront(i, num) == IF num = 0 THEN <<>> ELSE Keys(i, 4, Len(i.accounts) - num)

SignersBefore(i, num) == Keys(i, 4, Len(i.accounts) - num)

decode_withdraw_withheld_tokens_from_accounts(i) ==
    IF /\ parse_and_validate_instruction(i, 3, Fee)
       /\ i.args[1] = "WITHDRAW_WITHHELD_TOKENS_FROM_ACCOUNTS"
       /\ HasKeys(i, 3 + i.args[2])
    THEN LET num == i.args[2]
         IN ParamsOf([program_id |-> i.program_id, mint |-> Key(i, 1), dest |-> Key(i, 2),
                      authority |-> Key(i, 3), signers |-> SignersBefore(i, num),
                      sources |-> KeysFrom(i, Len(i.accounts) - num + 1)])
    ELSE Rejected

decode_withdraw_withheld_tokens_from_mint(i) ==
    IF /\ parse_and_validate_instruction(i, 3, Fee)
       /\ i.args[1] = "WITHDRAW_WITHHELD_TOKENS_FROM_MINT"
    THEN ParamsOf([program_id |-> i.program_id, mint |-> Key(i, 1), dest |-> Key(i, 2),
                   authority |-> Key(i, 3), signers |-> KeysFrom(i, 4)])
    ELSE Rejected

SlipAnyFeeType(i) ==
    IF parse_and_validate_instruction(i, 1, Fee)
    THEN ParamsOf([program_id |-> i.program_id, mint |-> Key(i, 1), sources |-> KeysFrom(i, 2)])
    ELSE Rejected

decode_harvest_withheld_tokens_to_mint(i) ==
    IF /\ parse_and_validate_instruction(i, 1, Fee)
       /\ i.args[1] = "HARVEST_WITHHELD_TOKENS_TO_MINT"
    THEN ParamsOf([program_id |-> i.program_id, mint |-> Key(i, 1), sources |-> KeysFrom(i, 2)])
    ELSE Rejected

decode_amount_to_ui_amount(i) ==
    IF parse_and_validate_instruction(i, 1, "AMOUNT_TO_UI_AMOUNT")
    THEN ParamsOf([program_id |-> i.program_id, mint |-> Key(i, 1), amount |-> i.args[1]])
    ELSE Rejected

decode_ui_amount_to_amount(i) ==
    IF parse_and_validate_instruction(i, 1, "UI_AMOUNT_TO_AMOUNT")
    THEN ParamsOf([program_id |-> i.program_id, mint |-> Key(i, 1), ui_amount |-> i.args[1]])
    ELSE Rejected

----------------------------------------------------------------------------
(* The associated token account of an owner and a mint under a program is  *)
(* a key of its own, find_program_address being free of collisions.        *)
get_associated_token_address(owner, mint, token_program_id) ==
    <<owner, token_program_id, mint>>

(* Both constructors refuse any other token program.  The data is empty,   *)
(* or the byte 1: with another program, the type INITIALIZE_ACCOUNT.       *)
AssociatedAccounts(p) ==
    <<Meta(p.payer, TRUE, TRUE),
      Writable(get_associated_token_address(p.owner, p.mint, p.token_program_id)),
      Readonly(p.owner), Readonly(p.mint), Readonly(SYS_PROGRAM_ID),
      Readonly(p.token_program_id)>>

create_associated_token_account(p) ==
    IF p.token_program_id \in TokenPrograms
    THEN Instruction(ASSOCIATED_TOKEN_PROGRAM_ID, "empty", <<>>,
             AssociatedAccounts(p) \o <<Readonly(RENT)>>)
    ELSE BuildError

create_idempotent_associated_token_account(p) ==
    IF p.token_program_id \in TokenPrograms
    THEN Instruction(ASSOCIATED_TOKEN_PROGRAM_ID, "INITIALIZE_ACCOUNT", <<>>, AssociatedAccounts(p))
    ELSE BuildError
=============================================================================
