------------------------------ MODULE MemoVote ------------------------------
(***************************************************************************)
(* The instructions of the memo and the vote program: spl.memo.instructions*)
(* and solana.vote_program.                                                *)
(*                                                                         *)
(* A memo has no type and no layout: its data is the message.  No decoder  *)
(* of a token program is meant for it, and the vote program's has none.    *)
(***************************************************************************)
EXTENDS TokenInstructions

CONSTANTS MEMO_PROGRAM_ID, VOTE_PROGRAM_ID

ASSUME MemoVoteAssumption == {MEMO_PROGRAM_ID, VOTE_PROGRAM_ID} \cap TokenPrograms = {}

(* The message is only carried.                                            *)
MemoParams == [program_id : {MEMO_PROGRAM_ID}, signer : Pubkeys, message : UiAmounts]

create_memo(p) ==
    Instruction(p.program_id, "MEMO", <<p.message>>, <<Meta(p.signer, TRUE, TRUE)>>)

(* Neither the program nor the number of accounts is checked.              *)
decode_create_memo(i) ==
    ParamsOf([program_id |-> i.program_id, signer |-> Key(i, 1), message |-> i.args[1]])

WithdrawFromVoteAccountParams ==
    [vote_account_from_pubkey : Pubkeys, to_pubkey : Pubkeys, withdrawer : Pubkeys,
     lamports : Amount]

withdraw_from_vote_account(p) ==
    Build(p.lamports \in Int64ul, VOTE_PROGRAM_ID, "WITHDRAW_FROM_VOTE_ACCOUNT", <<p.lamports>>,
          <<Writable(p.vote_account_from_pubkey), Writable(p.to_pubkey), Meta(p.withdrawer, TRUE, TRUE)>>)
=============================================================================
