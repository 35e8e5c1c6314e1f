------------------------------ MODULE RpcClient ------------------------------
(***************************************************************************)
(* One call of a method of AsyncClient or of a subscribe helper, from its  *)
(* arguments to what the application gets, and the security.txt section in *)
(* the data of a program it has read.  The node and the class that reads   *)
(* its answer are external: the node encodes account data as it was asked  *)
(* to, or refuses; the class holds what RpcMethods says of it.             *)
(*                                                                         *)
(* SlipBareCode is a deliberate mistake; no specification uses it.         *)
(***************************************************************************)
EXTENDS RpcMethods, SecurityTxt

CONSTANTS
    Text, OtherKey,    \* a value, and a name that is no field's
    MaxFields          \* bound: the fields in a section

(* A value and a name are text.                                            *)
ASSUME SectionAssumption ==
    /\ MaxFields \in Nat
    /\ {Text, OtherKey} \cap {Header, Footer, Nul, Undecodable} = {}

VARIABLES
    commitment,    \* the client's default
    method, args,  \* the call
    request,       \* the request it builds
    out,           \* how far the call is, or how it ended
    answer,        \* what the node answered
    section, data, \* what the account that was read holds, and its bytes as received
    txt            \* what parse_security_txt made of them

vars == <<commitment, method, args, request, out, answer, section, data, txt>>

Methods(c, a) ==
    [is_connected |-> is_connected,
     get_balance |-> get_balance(c, a),
     get_account_info |-> get_account_info(c, a),
     get_account_info_json_parsed |-> get_account_info_json_parsed(c, a),
     get_block_commitment |-> get_block_commitment,
     get_block_time |-> get_block_time,
     get_cluster_nodes |-> get_cluster_nodes,
     get_block |-> get_block(c, a),
     get_recent_performance_samples |-> get_recent_performance_samples(a),
     get_recent_prioritization_fees |-> get_recent_prioritization_fees(a),
     get_block_height |-> get_block_height(c, a),
     get_blocks |-> get_blocks(a),
     get_signatures_for_address |-> get_signatures_for_address(c, a),
     get_transaction |-> get_transaction(c, a),
     get_epoch_info |-> get_epoch_info(c, a),
     get_epoch_schedule |-> get_epoch_schedule,
     get_fee_for_message |-> get_fee_for_message(c, a),
     get_first_available_block |-> get_first_available_block,
     get_genesis_hash |-> get_genesis_hash,
     get_identity |-> get_identity,
     get_inflation_governor |-> get_inflation_governor(c, a),
     get_inflation_rate |-> get_inflation_rate,
     get_inflation_reward |-> get_inflation_reward(c, a),
     get_largest_accounts |-> get_largest_accounts(c, a),
     get_leader_schedule |-> get_leader_schedule(c, a),
     get_minimum_balance_for_rent_exemption |-> get_minimum_balance_for_rent_exemption(c, a),
     get_multiple_accounts |-> get_multiple_accounts(c, a),
     get_multiple_accounts_json_parsed |-> get_multiple_accounts_json_parsed(c, a),
     get_program_accounts |-> get_program_accounts(c, a),
     get_program_accounts_json_parsed |-> get_program_accounts_json_parsed(c, a),
     get_latest_blockhash |-> get_latest_blockhash(c, a),
     get_signature_statuses |-> get_signature_statuses(a),
     get_slot |-> get_slot(c, a),
     get_slot_leader |-> get_slot_leader(c, a),
     get_slot_leaders |-> get_slot_leaders,
     get_supply |-> get_supply(c, a),
     get_token_account_balance |-> get_token_account_balance(c, a),
     get_token_accounts_by_delegate |-> get_token_accounts_by_delegate(c, a),
     get_token_accounts_by_delegate_json_parsed |->
         get_token_accounts_by_delegate_json_parsed(c, a),
     get_token_accounts_by_owner |-> get_token_accounts_by_owner(c, a),
     get_token_accounts_by_owner_json_parsed |-> get_token_accounts_by_owner_json_parsed(c, a),
     get_token_largest_accounts |-> get_token_largest_accounts(c, a),
     get_token_supply |-> get_token_supply(c, a),
     get_transaction_count |-> get_transaction_count(c, a),
     get_minimum_ledger_slot |-> get_minimum_ledger_slot,
     get_version |-> get_version,
     get_vote_accounts |-> get_vote_accounts(c, a),
     request_airdrop |-> request_airdrop(c, a),
     send_raw_transaction |-> send_raw_transaction(c, a),
     simulate_transaction |-> simulate_transaction(c, a),
     validator_exit |-> validator_exit,
     account_subscribe |-> account_subscribe(a),
     program_subscribe |-> program_subscribe(a),
     logs_subscribe |-> logs_subscribe(a),
     block_subscribe |-> block_subscribe(a),
     signature_subscribe |-> signature_subscribe(a)]

Subscribes == {"account_subscribe", "program_subscribe", "logs_subscribe", "block_subscribe",
               "signature_subscribe"}

(* The parsed twins fix the encoding whatever the options say.             *)
JsonParsedMethods ==
    {"get_account_info_json_parsed", "get_multiple_accounts_json_parsed",
     "get_program_accounts_json_parsed", "get_token_accounts_by_delegate_json_parsed",
     "get_token_accounts_by_owner_json_parsed"}

----------------------------------------------------------------------------
(* The arguments a caller may give: also a level and an encoding that do   *)
(* not exist, and an encoding that is None.                                *)
Options ==
    {"commitment", "encoding", "data_slice", "filters", "mint", "program_id", "opts",
     "preflight_commitment", "skip_preflight", "max_retries", "before", "until", "limit",
     "min_context_slot", "max_supported_transaction_version", "transaction_details",
     "rewards", "show_rewards", "addresses", "end_slot", "epoch", "slot", "filter_opt",
     "search_transaction_history", "exclude_non_circulating_accounts_list", "vote_pubkey",
     "keep_unstaked_delinquents", "delinquent_slot_distance", "sig_verify",
     "replace_recent_blockhash", "inner_instructions", "accounts_addresses", "with_context",
     "sort_results", "enable_received_notification"}

ValueOf(o) ==
    CASE o = "data_slice" -> [offset |-> "offset", length |-> "length"]
      [] o = "filters" -> <<[size |-> "size"], [offset |-> "offset", bytes |-> "bytes"]>>
      [] OTHER -> o

NoArgs == [o \in Options |-> IF o = "encoding" THEN "default" ELSE None]

Names == DOMAIN Methods("finalized", NoArgs)
Takes == [m \in Names |-> Methods("finalized", NoArgs)[m].takes]

Enumerated ==
    [commitment |-> Levels \cup {"recent", None},
     preflight_commitment |-> Levels \cup {"recent", None},
     encoding |-> {"default", None, "base58", "base64", "base64+zstd", "json", "jsonParsed"},
     filter_opt |-> LargestFilters \cup {"all", None}]

EnumeratedFor(m, o) == IF o \in Takes[m] THEN Enumerated[o] ELSE {NoArgs[o]}

(* Options of TxOpts can be given only in a TxOpts.                        *)
ArgsOf == [m \in Names |->
    {a \in {[o \in Options |-> IF o \in DOMAIN Enumerated THEN chosen[o]
                             ELSE IF o \in given THEN ValueOf(o) ELSE None] :
            chosen \in [commitment : EnumeratedFor(m, "commitment"),
                       preflight_commitment : EnumeratedFor(m, "preflight_commitment"),
                       encoding : EnumeratedFor(m, "encoding"),
                       filter_opt : EnumeratedFor(m, "filter_opt")],
            given \in SUBSET (Takes[m] \ DOMAIN Enumerated)} :
        "opts" \in Takes[m] /\ a.opts = None => a = NoArgs}]

----------------------------------------------------------------------------
Reads == Methods(commitment, args)[method].reads

NoAnswer == [kind |-> "none", data |-> "none"]

(* AsyncClient.__init__.                                                   *)
Init ==
    /\ \E given \in Levels \cup {None} : commitment = IF given = None THEN "finalized" ELSE given
    /\ method = "none" /\ args = NoArgs
    /\ request = Bare("none")
    /\ out = "idle"
    /\ answer = NoAnswer
    /\ section = <<>> /\ data = <<>>
    /\ txt = Failed("none")

(* The request is built; only then is anything sent.                       *)
Call ==
    /\ out = "idle"
    /\ \E m \in Names : \E a \in ArgsOf[m] :
        /\ method' = m /\ args' = a
        /\ request' = Methods(commitment, a)[m].request
        /\ out' = IF Raises(request') THEN "raised" ELSE "sent"
    /\ UNCHANGED <<commitment, answer, section, data, txt>>

(* How the node sends account data: parsed if that was asked for and it    *)
(* knows the program, which it does of a token account; else encoded.      *)
(* Only short data is sent in base58, which is also what it uses unasked.  *)
EncodingAsked ==
    LET p == {"encoding", "accounts_encoding"} \cap DOMAIN request.params
    IN IF p = {} THEN "none" ELSE request.params[CHOOSE q \in p : TRUE]

DataSent ==
    IF Reads = NoData THEN {"none"}
    ELSE CASE EncodingAsked = "jsonParsed" ->
                  IF Reads = Parsed THEN {"parsed"} ELSE {"parsed", "bytes"}
           [] EncodingAsked \in {"base64", "base64+zstd"} -> {"bytes"}
           [] OTHER -> {"bytes", "too_large"}

NodeAnswers ==
    [kind : {"result"}, data : DataSent \ {"too_large"}]
        \cup [kind : {"error"}, data : DataSent \cap {"too_large"}]
        \cup [kind : {"error", "uncoded_error"}, data : {"none"}]

(* _parse_raw: an error, known to the parser or only a code to it, raises. *)
SlipBareCode(reads, a) ==
    IF a.kind = "error" THEN "RPCException"
    ELSE IF a.kind = "result" /\ a.data \notin reads THEN "unreadable"
    ELSE "returned"

ParseRaw(reads, a) ==
    IF a.kind \in {"error", "uncoded_error"} THEN "RPCException"
    ELSE IF a.data \notin reads THEN "unreadable"
    ELSE "returned"

(* What a program embeds for a list of fields and values.                  *)
FieldBytes(field) == <<field.key, Nul>> \o field.value \o <<Nul>>

SectionOf(fields) ==
    <<Header>> \o FlattenSeq([k \in DOMAIN fields |-> FieldBytes(fields[k])]) \o <<Footer>>

Sections ==
    BoundedSeq([key : KnownKeys \cup {OtherKey},
                value : {<<>>, <<Text>>, <<Undecodable>>} \cup {<<key>> : key \in RequiredFields}],
               MaxFields)

(* The data of a program that mentions the footer in its code, too.  A     *)
(* slice may cut the header off, or the footer.                            *)
Slices(d) ==
    IF "data_slice" \in DOMAIN request.params
    THEN {SubSeq(d, i, j) : i \in 1..3, j \in (Len(d) - 1)..Len(d)}
    ELSE {d}

(* Bound: a section is looked at in the answer of a call that leaves the   *)
(* commitment and the encoding to their defaults.                          *)
ReadsProgram ==
    /\ method = "get_account_info"
    /\ args.encoding = "default" /\ args.commitment = None /\ commitment = "finalized"

Answer ==
    /\ out = "sent" /\ method \notin Subscribes
    /\ \E a \in NodeAnswers :
        /\ answer' = a
        /\ out' = ParseRaw(Reads, a)
        /\ IF a.kind = "result" /\ ReadsProgram
           THEN \E s \in Sections : \E d \in Slices(<<Footer>> \o SectionOf(s)) :
                    section' = s /\ data' = d
           ELSE UNCHANGED <<section, data>>
    /\ UNCHANGED <<commitment, method, args, request, txt>>

(* The provider gives up: handle_async_exceptions wraps what httpx raised. *)
TransportFails ==
    /\ out = "sent" /\ method \notin Subscribes
    /\ out' = "SolanaRpcException"
    /\ UNCHANGED <<commitment, method, args, request, answer, section, data, txt>>

ReadSecurityTxt ==
    /\ out = "returned" /\ data # <<>>
    /\ txt' = parse_security_txt(data)
    /\ out' = "section_read"
    /\ UNCHANGED <<commitment, method, args, request, answer, section, data>>

Next == Call \/ Answer \/ TransportFails \/ ReadSecurityTxt

Spec == Init /\ [][Next]_vars

----------------------------------------------------------------------------
(* A request that is sent names only levels and encodings the node knows.  *)
TypeOK ==
    /\ commitment \in Levels
    /\ method \in Names \cup {"none"}
    /\ out \in {"idle", "raised", "sent", "RPCException", "SolanaRpcException", "unreadable",
                "returned", "section_read"}
    /\ out \notin {"idle", "raised"} =>
        \A p \in DOMAIN request.params :
            /\ p \in {"commitment", "preflight_commitment"} => request.params[p] \in Levels
            /\ p \in {"encoding", "accounts_encoding"} =>
                   request.params[p] \in TxEncodings \cup AccountEncodings
    /\ answer.kind \in {"none", "result", "error", "uncoded_error"}
    /\ txt.outcome \in {"none", "found", "NoSecurityTxtFoundError", "UnicodeDecodeError",
                        "TypeError"}

(* The call with every level it leaves to the client spelled out.          *)
Or(given) == IF given = None THEN commitment ELSE given

Explicit ==
    [args EXCEPT !.commitment = Or(@), !.preflight_commitment = Or(@), !.opts = "opts"]

(* The default commitment of a client is exactly the level its calls would *)
(* name themselves: every method asks the node for the same as the call    *)
(* that spells the level out does on any other client, and a transaction   *)
(* is confirmed at the level its preflight ran at.                         *)
DefaultIsExplicit ==
    out \in {"sent", "raised"} /\ method \notin Subscribes =>
        \A c \in Levels :
            /\ Methods(c, Explicit)[method].request = request
            /\ method = "send_raw_transaction" /\ out # "raised" =>
                   /\ ConfirmedAt(commitment, args) = request.params.preflight_commitment
                   /\ ConfirmedAt(c, Explicit) = ConfirmedAt(commitment, args)

(* The encodings are in OutcomeTrue; a program id beside a mint is dropped.*)
Given ==
    {o \in Takes[method] \ {"encoding", "opts"} :
        args[o] # None /\ ~(o = "program_id" /\ args.mint # None)}

(* Over either transport and through every layer of positional arguments,  *)
(* each option of a call reaches the request as itself, and the request    *)
(* asks for nothing the caller did not name or leave to a default.         *)
OptionsArrive ==
    out = "sent" =>
        /\ \A o \in Given : o \in DOMAIN request.params /\ request.params[o] = args[o]
        /\ \A p \in DOMAIN request.params \ Given :
            \/ request.params[p] \in {p, "False"}
            \/ p \in {"commitment", "preflight_commitment"} /\ method \notin Subscribes
            \/ p \in {"encoding", "accounts_encoding"}

(* The methods that offer every encoding of account data, and read the     *)
(* answer with a class for bytes.                                          *)
PlainMethods ==
    {"get_account_info", "get_multiple_accounts", "get_program_accounts",
     "get_token_accounts_by_delegate", "get_token_accounts_by_owner", "simulate_transaction"}

(* The application gets a value only for a result, and no method asks, of  *)
(* itself, for data the node cannot send or its own class cannot read.     *)
(* Data too large for its encoding comes only of base58, asked for or left *)
(* to the node; an answer is unreadable only if a plain method was asked   *)
(* for jsonParsed and the node could parse: ParsedAccountsAreRead.         *)
OutcomeTrue ==
    /\ out \in {"returned", "section_read"} => answer.kind = "result"
    /\ out = "unreadable" =>
           args.encoding = "jsonParsed" /\ method \in PlainMethods /\ answer.data = "parsed"
    /\ answer.data = "too_large" =>
           args.encoding \in {None, "base58"} /\ method \in PlainMethods

(* The docstrings of the plain methods, and TokenAccountOpts, list         *)
(* jsonParsed among the encodings an account can be asked for in: the      *)
(* answer to such a call is read.                                          *)
ParsedAccountsAreRead ==
    method \in PlainMethods /\ args.encoding = "jsonParsed" => out # "unreadable"

KeysOf(s)  == {s[k].key : k \in DOMAIN s}
FieldOf(s, key) == s[CHOOSE k \in DOMAIN s : s[k].key = key].value

(* Each name once, and no value that is itself the name of a field.        *)
Unambiguous(s) ==
    \A i, j \in DOMAIN s :
        /\ s[i].key = s[j].key => i = j
        /\ s[i].value \notin {<<key>> : key \in KnownKeys}

(* The section is read as the program wrote it, if it is there and legal,  *)
(* and refused if it was cut or lacks a field: never read in part.         *)
SectionRead ==
    out = "section_read" =>
        IF ~({Header} \subseteq ToSet(data) /\ Last(data) = Footer)
        THEN txt = Failed("NoSecurityTxtFoundError")
        ELSE IF \E k \in DOMAIN section : section[k].value = <<Undecodable>>
        THEN txt = Failed("UnicodeDecodeError")
        ELSE Unambiguous(section) =>
            txt = IF RequiredFields \subseteq KeysOf(section)
                  THEN Found([key \in KeysOf(section) \cap KnownKeys |-> FieldOf(section, key)])
                  ELSE Failed("TypeError")
=============================================================================
