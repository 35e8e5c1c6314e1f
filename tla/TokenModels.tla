---------------------------- MODULE TokenModels -----------------------------
(***************************************************************************)
(* The parameters of the SPL token instructions (spl.token.models), one    *)
(* set of records per class.                                               *)
(*                                                                         *)
(* A public key, a program and a formatted amount are values without       *)
(* structure.  Integers are drawn from zero to one above the largest that  *)
(* their field of the instruction holds; the classes themselves accept any.*)
(***************************************************************************)
EXTENDS Integers, Sequences

CONSTANTS
    Pubkeys,           \* keys of accounts
    None,              \* Python's None
    TokenPrograms,     \* TOKEN_PROGRAM_ID and TOKEN_2022_PROGRAM_ID
    UiAmounts,         \* formatted amounts
    MaxU8,             \* the largest values of Int8ul, Int16ul and Int64ul
    MaxU16,
    MaxU64,
    MaxList            \* bound on the lists of signers and sources

ASSUME ModelAssumption ==
    /\ None \notin Pubkeys
    /\ MaxU8 \in Nat /\ MaxU16 \in Nat /\ MaxU64 \in Nat /\ MaxList \in Nat
    /\ MaxU8 <= MaxU16 /\ MaxU16 <= MaxU64

Int8ul  == 0..MaxU8
Int16ul == 0..MaxU16
Int64ul == 0..MaxU64

Small  == 0..(MaxU8 + 1)
Points == {0, MaxU16, MaxU16 + 1}
Amount == {0, MaxU64, MaxU64 + 1}

Lists        == UNION {[1..n -> Pubkeys] : n \in 0..MaxList}
MaybePubkey  == Pubkeys \cup {None}
(* Two of the eighteen: the codec only carries the type.                   *)
AuthorityType == {"MINT_TOKENS", "PERMISSIONED_BURN"}

(* The default of the lists of signers and sources is the empty list.      *)
InitializeMintParams ==
    [program_id : TokenPrograms, decimals : Small, mint : Pubkeys, mint_authority : Pubkeys,
     freeze_authority : MaybePubkey]
InitializeMint2Params == InitializeMintParams

InitializeAccountParams ==
    [program_id : TokenPrograms, account : Pubkeys, mint : Pubkeys, owner : Pubkeys]
InitializeAccount2Params == InitializeAccountParams
InitializeAccount3Params == InitializeAccountParams

InitializeMultisigParams ==
    [program_id : TokenPrograms, multisig : Pubkeys, m : Small, signers : Lists]
InitializeMultisig2Params == InitializeMultisigParams

TransferParams ==
    [program_id : TokenPrograms, source : Pubkeys, dest : Pubkeys, owner : Pubkeys,
     amount : Amount, signers : Lists]
ApproveParams ==
    [program_id : TokenPrograms, source : Pubkeys, delegate : Pubkeys, owner : Pubkeys,
     amount : Amount, signers : Lists]
RevokeParams ==
    [program_id : TokenPrograms, account : Pubkeys, owner : Pubkeys, signers : Lists]
SetAuthorityParams ==
    [program_id : TokenPrograms, account : Pubkeys, authority : AuthorityType,
     current_authority : Pubkeys, signers : Lists, new_authority : MaybePubkey]
MintToParams ==
    [program_id : TokenPrograms, mint : Pubkeys, dest : Pubkeys, mint_authority : Pubkeys,
     amount : Amount, signers : Lists]
BurnParams ==
    [program_id : TokenPrograms, account : Pubkeys, mint : Pubkeys, owner : Pubkeys,
     amount : Amount, signers : Lists]
CloseAccountParams ==
    [program_id : TokenPrograms, account : Pubkeys, dest : Pubkeys, owner : Pubkeys,
     signers : Lists]
FreezeAccountParams ==
    [program_id : TokenPrograms, account : Pubkeys, mint : Pubkeys, authority : Pubkeys,
     multi_signers : Lists]
ThawAccountParams == FreezeAccountParams

TransferCheckedParams ==
    [program_id : TokenPrograms, source : Pubkeys, mint : Pubkeys, dest : Pubkeys,
     owner : Pubkeys, amount : Amount, decimals : Small, signers : Lists]
ApproveCheckedParams ==
    [program_id : TokenPrograms, source : Pubkeys, mint : Pubkeys, delegate : Pubkeys,
     owner : Pubkeys, amount : Amount, decimals : Small, signers : Lists]
MintToCheckedParams ==
    [program_id : TokenPrograms, mint : Pubkeys, dest : Pubkeys, mint_authority : Pubkeys,
     amount : Amount, decimals : Small, signers : Lists]
BurnCheckedParams ==
    [program_id : TokenPrograms, mint : Pubkeys, account : Pubkeys, owner : Pubkeys,
     amount : Amount, decimals : Small, signers : Lists]

SyncNativeParams               == [program_id : TokenPrograms, account : Pubkeys]
GetAccountDataSizeParams       == [program_id : TokenPrograms, mint : Pubkeys]
InitializeImmutableOwnerParams == [program_id : TokenPrograms, account : Pubkeys]

InitializeTransferFeeConfigParams ==
    [program_id : TokenPrograms, mint : Pubkeys, transfer_fee_config_authority : MaybePubkey,
     withdraw_withheld_authority : MaybePubkey, transfer_fee_basis_points : Points,
     maximum_fee : Amount]
WithdrawWithheldTokensFromAccountsParams ==
    [program_id : TokenPrograms, mint : Pubkeys, dest : Pubkeys, authority : Pubkeys,
     signers : Lists, sources : Lists]
WithdrawWithheldTokensFromMintParams ==
    [program_id : TokenPrograms, mint : Pubkeys, dest : Pubkeys, authority : Pubkeys,
     signers : Lists]
HarvestWithheldTokensToMintParams ==
    [program_id : TokenPrograms, mint : Pubkeys, sources : Lists]

AmountToUiAmountParams == [program_id : TokenPrograms, mint : Pubkeys, amount : Amount]
UiAmountToAmountParams == [program_id : TokenPrograms, mint : Pubkeys, ui_amount : UiAmounts]
=============================================================================
