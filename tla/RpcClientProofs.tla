--------------------------- MODULE RpcClientProofs ---------------------------
(***************************************************************************)
(* Proofs about RpcClient: what a method asks for is what its caller named *)
(* or left to a default, and what the application gets is what came back.  *)
(*                                                                         *)
(* Most lemmas are one case for each method, and a case is the definitions *)
(* of that method: what they share is said of any record of parameters     *)
(* first, in PlainCarries.                                                 *)
(*                                                                         *)
(* The security.txt section is last: where the fields of any list of them  *)
(* stand in its bytes (Placed), by induction over the list, and then what  *)
(* parse_security_txt finds at these places.                               *)
(***************************************************************************)
EXTENDS RpcClient, WellFoundedInduction, SequenceTheorems, TLAPS

----------------------------------------------------------------------------
(* The values of the options that are not names or levels.                 *)

LEMMA Distinct ==
    /\ None \notin {KeyError, ValueError}
    /\ \A x \in {None, KeyError, ValueError} :
        x \notin Levels /\ x \notin TxEncodings /\ x \notin AccountEncodings
            /\ x # "default" /\ x # "opts"
BY MethodAssumption

(* A level is looked up: it is the one that was named, if one was.         *)
LEMMA Resolves ==
    ASSUME NEW c \in Levels, NEW given
    PROVE  /\ CommitmentToUse(c, given) \in {given, KeyError} \/ given = None
           /\ CommitmentToUse(c, given) \in Levels \cup {KeyError}
BY DEF CommitmentToUse, Known

(* Spelling the default out is leaving the level to it.                    *)
LEMMA SpelledOut ==
    ASSUME NEW b, NEW c \in Levels, NEW given
    PROVE  CommitmentToUse(b, IF given = None THEN c ELSE given) = CommitmentToUse(c, given)
BY Distinct DEF CommitmentToUse

(* A slice and a list of filters are handed on field by field.             *)
Shaped(a) ==
    /\ DataSlice(a.data_slice) = a.data_slice
    /\ Filters(a.filters) = a.filters

LEMMA ArgsAreShaped ==
    ASSUME NEW m \in Names, NEW a \in ArgsOf[m]
    PROVE  /\ Shaped(a)
           /\ DOMAIN a = Options
           /\ "opts" \in Takes[m] /\ a.opts = None => a = NoArgs
           /\ a.encoding \in Enumerated.encoding
<1>1. a.data_slice \in {None, ValueOf("data_slice")} /\ a.filters \in {None, ValueOf("filters")}
  BY DEF ArgsOf, Options, Enumerated
<1>2. DataSlice(a.data_slice) = a.data_slice
  BY <1>1 DEF DataSlice, ValueOf
<1>3. Filters(a.filters) = a.filters
  BY <1>1 DEF Filters, Filter, ValueOf
<1>4. DOMAIN a = Options
  BY DEF ArgsOf
<1>5. a.encoding \in Enumerated.encoding
  BY DEF ArgsOf, Options, Enumerated, EnumeratedFor, NoArgs
<1>6. "opts" \in Takes[m] /\ a.opts = None => a = NoArgs
  BY DEF ArgsOf
<1>7. QED BY <1>2, <1>3, <1>4, <1>5, <1>6 DEF Shaped

----------------------------------------------------------------------------
(* What a request carries, for any record of parameters.                   *)

Errors == {KeyError, ValueError}

GivenOf(m, a) ==
    {o \in Takes[m] \ {"encoding", "opts"} :
        a[o] # None /\ ~(o = "program_id" /\ a.mint # None)}

(* OptionsArrive and the levels and encodings of TypeOK, of one request.   *)
Arrives(r, m, a) ==
    /\ \A o \in GivenOf(m, a) : o \in DOMAIN r.params /\ r.params[o] = a[o]
    /\ \A p \in DOMAIN r.params \ GivenOf(m, a) :
        \/ r.params[p] \in {p, "False"}
        \/ p \in {"commitment", "preflight_commitment"} /\ m \notin Subscribes
        \/ p \in {"encoding", "accounts_encoding"}

Legal(r) ==
    \A p \in DOMAIN r.params :
        /\ p \in {"commitment", "preflight_commitment"} => r.params[p] \in Levels
        /\ p \in {"encoding", "accounts_encoding"} =>
               r.params[p] \in TxEncodings \cup AccountEncodings

Carries(r, m, a) == ~Raises(r) => Arrives(r, m, a) /\ Legal(r)

(* The same of the parameters before the ones that are None are left out.  *)
Plain(P, m, a) ==
    /\ \A o \in GivenOf(m, a) : o \in DOMAIN P /\ P[o] \in {a[o]} \cup Errors
    /\ \A p \in DOMAIN P :
        /\ \/ p \in GivenOf(m, a)
           \/ P[p] \in {None, p, "False"} \cup Errors
           \/ p \in {"commitment", "preflight_commitment"} /\ m \notin Subscribes
           \/ p \in {"encoding", "accounts_encoding"}
        /\ p \in {"commitment", "preflight_commitment"} =>
               P[p] \in Levels \cup {None} \cup Errors
        /\ p \in {"encoding", "accounts_encoding"} =>
               P[p] \in TxEncodings \cup AccountEncodings \cup {None} \cup Errors

LEMMA PlainCarries ==
    ASSUME NEW name, NEW P, NEW m, NEW a, Plain(P, m, a)
    PROVE  Carries(Request(name, P), m, a)
<1> DEFINE r == Request(name, P)
<1> SUFFICES ASSUME ~Raises(r) PROVE Arrives(r, m, a) /\ Legal(r)
  BY DEF Carries
<1>1. /\ DOMAIN r.params = {p \in DOMAIN P : P[p] # None}
      /\ \A p \in DOMAIN r.params : r.params[p] = P[p]
  BY DEF Request
<1>2. \A p \in DOMAIN P : P[p] \notin Errors
  BY Distinct DEF Raises, Request, Errors
<1> HIDE DEF r
<1>3. Legal(r)
  BY <1>1, <1>2 DEF Plain, Legal
<1>4. ASSUME NEW o \in GivenOf(m, a)
      PROVE  o \in DOMAIN r.params /\ r.params[o] = a[o]
  BY <1>1, <1>2 DEF Plain, GivenOf
<1>5. ASSUME NEW p \in DOMAIN r.params \ GivenOf(m, a)
      PROVE  \/ r.params[p] \in {p, "False"}
             \/ p \in {"commitment", "preflight_commitment"} /\ m \notin Subscribes
             \/ p \in {"encoding", "accounts_encoding"}
  BY <1>1, <1>2 DEF Plain
<1>6. QED BY <1>3, <1>4, <1>5 DEF Arrives

LEMMA NamesAre ==
    Names =
        {"is_connected", "get_balance", "get_account_info", "get_account_info_json_parsed",
         "get_block_commitment", "get_block_time", "get_cluster_nodes", "get_block",
         "get_recent_performance_samples", "get_recent_prioritization_fees", "get_block_height",
         "get_blocks", "get_signatures_for_address", "get_transaction", "get_epoch_info",
         "get_epoch_schedule", "get_fee_for_message", "get_first_available_block",
         "get_genesis_hash", "get_identity", "get_inflation_governor", "get_inflation_rate",
         "get_inflation_reward", "get_largest_accounts", "get_leader_schedule",
         "get_minimum_balance_for_rent_exemption", "get_multiple_accounts",
         "get_multiple_accounts_json_parsed", "get_program_accounts",
         "get_program_accounts_json_parsed", "get_latest_blockhash", "get_signature_statuses",
         "get_slot", "get_slot_leader", "get_slot_leaders", "get_supply",
         "get_token_account_balance", "get_token_accounts_by_delegate",
         "get_token_accounts_by_delegate_json_parsed", "get_token_accounts_by_owner",
         "get_token_accounts_by_owner_json_parsed", "get_token_largest_accounts",
         "get_token_supply", "get_transaction_count", "get_minimum_ledger_slot", "get_version",
         "get_vote_accounts", "request_airdrop", "send_raw_transaction", "simulate_transaction",
         "validator_exit", "account_subscribe", "program_subscribe", "logs_subscribe",
         "block_subscribe", "signature_subscribe"}
BY DEF Names, Methods

(* Every method carries its options, over whatever builds its request.     *)
LEMMA EveryMethodCarries ==
    ASSUME NEW c \in Levels, NEW m \in Names, NEW a \in ArgsOf[m]
    PROVE  Carries(Methods(c, a)[m].request, m, a)
<1> Shaped(a) /\ ("opts" \in Takes[m] /\ a.opts = None => a = NoArgs)
  BY ArgsAreShaped
<1> Takes[m] = Methods("finalized", NoArgs)[m].takes
  BY DEF Takes
<1> USE PlainCarries, Resolves, Distinct DEF Shaped, Plain, GivenOf, Errors, Subscribes, Methods, Method,
        Known, KnownOrNone, FlagOf
<1>1. CASE m = "is_connected"
  BY <1>1 DEF is_connected, get_health_body, Bare
<1>2. CASE m = "get_balance"
  BY <1>2 DEF get_balance, get_balance_body
<1>3. CASE m = "get_account_info"
  BY <1>3 DEF get_account_info, get_account_info_body
<1>4. CASE m = "get_account_info_json_parsed"
  BY <1>4 DEF get_account_info_json_parsed, get_account_info_body, DataSlice
<1>5. CASE m = "get_block_commitment"
  BY <1>5 DEF get_block_commitment, get_block_commitment_body
<1>6. CASE m = "get_block_time"
  BY <1>6 DEF get_block_time, get_block_time_body
<1>7. CASE m = "get_cluster_nodes"
  BY <1>7 DEF get_cluster_nodes, Bare
<1>8. CASE m = "get_block"
  BY <1>8 DEF get_block, get_block_body
<1>9. CASE m = "get_recent_performance_samples"
  BY <1>9 DEF get_recent_performance_samples, get_recent_performance_samples_body
<1>10. CASE m = "get_recent_prioritization_fees"
  BY <1>10 DEF get_recent_prioritization_fees
<1>11. CASE m = "get_block_height"
  BY <1>11 DEF get_block_height, get_block_height_body
<1>12. CASE m = "get_blocks"
  BY <1>12 DEF get_blocks, get_blocks_body
<1>13. CASE m = "get_signatures_for_address"
  BY <1>13 DEF get_signatures_for_address, get_signatures_for_address_body
<1>14. CASE m = "get_transaction"
  BY <1>14 DEF get_transaction, get_transaction_body
<1>15. CASE m = "get_epoch_info"
  BY <1>15 DEF get_epoch_info, get_epoch_info_body
<1>16. CASE m = "get_epoch_schedule"
  BY <1>16 DEF get_epoch_schedule, Bare
<1>17. CASE m = "get_fee_for_message"
  BY <1>17 DEF get_fee_for_message, get_fee_for_message_body
<1>18. CASE m = "get_first_available_block"
  BY <1>18 DEF get_first_available_block, Bare
<1>19. CASE m = "get_genesis_hash"
  BY <1>19 DEF get_genesis_hash, Bare
<1>20. CASE m = "get_identity"
  BY <1>20 DEF get_identity, Bare
<1>21. CASE m = "get_inflation_governor"
  BY <1>21 DEF get_inflation_governor, get_inflation_governor_body
<1>22. CASE m = "get_inflation_rate"
  BY <1>22 DEF get_inflation_rate, Bare
<1>23. CASE m = "get_inflation_reward"
  BY <1>23 DEF get_inflation_reward, get_inflation_reward_body
<1>24. CASE m = "get_largest_accounts"
  BY <1>24 DEF get_largest_accounts, get_largest_accounts_body
<1>25. CASE m = "get_leader_schedule"
  BY <1>25 DEF get_leader_schedule, get_leader_schedule_body
<1>26. CASE m = "get_minimum_balance_for_rent_exemption"
  BY <1>26 DEF get_minimum_balance_for_rent_exemption, get_minimum_balance_for_rent_exemption_body
<1>27. CASE m = "get_multiple_accounts"
  BY <1>27 DEF get_multiple_accounts, get_multiple_accounts_body
<1>28. CASE m = "get_multiple_accounts_json_parsed"
  BY <1>28 DEF get_multiple_accounts_json_parsed, get_multiple_accounts_body, DataSlice
<1>29. CASE m = "get_program_accounts"
  BY <1>29 DEF get_program_accounts, get_program_accounts_body
<1>30. CASE m = "get_program_accounts_json_parsed"
  BY <1>30 DEF get_program_accounts_json_parsed, get_program_accounts_body, DataSlice
<1>31. CASE m = "get_latest_blockhash"
  BY <1>31 DEF get_latest_blockhash, get_latest_blockhash_body
<1>32. CASE m = "get_signature_statuses"
  BY <1>32 DEF get_signature_statuses, get_signature_statuses_body
<1>33. CASE m = "get_slot"
  BY <1>33 DEF get_slot, get_slot_body
<1>34. CASE m = "get_slot_leader"
  BY <1>34 DEF get_slot_leader, get_slot_leader_body
<1>35. CASE m = "get_slot_leaders"
  BY <1>35 DEF get_slot_leaders, get_slot_leaders_body
<1>36. CASE m = "get_supply"
  BY <1>36 DEF get_supply, get_supply_body
<1>37. CASE m = "get_token_account_balance"
  BY <1>37 DEF get_token_account_balance, get_token_account_balance_body
<1>38. CASE m = "get_token_accounts_by_delegate"
  BY <1>38 DEF get_token_accounts_by_delegate, get_token_accounts_by_delegate_body,
         get_token_accounts_convert, TokenAccountOpts, TokenOptions
<1>39. CASE m = "get_token_accounts_by_delegate_json_parsed"
  BY <1>39 DEF get_token_accounts_by_delegate_json_parsed,
         get_token_accounts_by_delegate_json_parsed_body, get_token_accounts_by_delegate_body,
         get_token_accounts_convert, JsonParsed, TokenAccountOpts, TokenOptions
<1>40. CASE m = "get_token_accounts_by_owner"
  BY <1>40 DEF get_token_accounts_by_owner, get_token_accounts_by_owner_body,
         get_token_accounts_convert, TokenAccountOpts, TokenOptions
<1>41. CASE m = "get_token_accounts_by_owner_json_parsed"
  BY <1>41 DEF get_token_accounts_by_owner_json_parsed,
         get_token_accounts_by_owner_json_parsed_body, get_token_accounts_by_owner_body,
         get_token_accounts_convert, JsonParsed, TokenAccountOpts, TokenOptions
<1>42. CASE m = "get_token_largest_accounts"
  BY <1>42 DEF get_token_largest_accounts, get_token_largest_accounts_body
<1>43. CASE m = "get_token_supply"
  BY <1>43 DEF get_token_supply, get_token_supply_body
<1>44. CASE m = "get_transaction_count"
  BY <1>44 DEF get_transaction_count, get_transaction_count_body
<1>45. CASE m = "get_minimum_ledger_slot"
  BY <1>45 DEF get_minimum_ledger_slot, Bare
<1>46. CASE m = "get_version"
  BY <1>46 DEF get_version, Bare
<1>47. CASE m = "get_vote_accounts"
  BY <1>47 DEF get_vote_accounts, get_vote_accounts_body
<1>48. CASE m = "request_airdrop"
  BY <1>48 DEF request_airdrop, request_airdrop_body
<1>49. CASE m = "send_raw_transaction"
  BY <1>49 DEF send_raw_transaction, send_raw_transaction_body, TxOptsToUse, NoArgs, Options
<1>50. CASE m = "simulate_transaction"
  BY <1>50 DEF simulate_transaction, simulate_transaction_body
<1>51. CASE m = "validator_exit"
  BY <1>51 DEF validator_exit, Bare
<1>52. CASE m = "account_subscribe"
  BY <1>52 DEF account_subscribe, SubscribeEncoding, SubscribeCommitment
<1>53. CASE m = "program_subscribe"
  BY <1>53 DEF program_subscribe, SubscribeEncoding, SubscribeCommitment
<1>54. CASE m = "logs_subscribe"
  BY <1>54 DEF logs_subscribe, SubscribeCommitment
<1>55. CASE m = "block_subscribe"
  BY <1>55 DEF block_subscribe, SubscribeCommitment
<1>56. CASE m = "signature_subscribe"
  BY <1>56 DEF signature_subscribe, SubscribeCommitment
<1> HIDE DEF Plain, GivenOf, Methods, Method, Known, KnownOrNone, FlagOf
<1>57. QED BY NamesAre, <1>1, <1>2, <1>3, <1>4, <1>5, <1>6, <1>7, <1>8, <1>9, <1>10, <1>11, <1>12, <1>13,
      <1>14, <1>15, <1>16, <1>17, <1>18, <1>19, <1>20, <1>21, <1>22, <1>23, <1>24, <1>25, <1>26,
      <1>27, <1>28, <1>29, <1>30, <1>31, <1>32, <1>33, <1>34, <1>35, <1>36, <1>37, <1>38, <1>39,
      <1>40, <1>41, <1>42, <1>43, <1>44, <1>45, <1>46, <1>47, <1>48, <1>49, <1>50, <1>51, <1>52,
      <1>53, <1>54, <1>55, <1>56

----------------------------------------------------------------------------
(* A default is the level it stands for.                                   *)

ExplicitArgs(c, a) ==
    [a EXCEPT !.commitment = IF @ = None THEN c ELSE @,
              !.preflight_commitment = IF @ = None THEN c ELSE @,
              !.opts = "opts"]

LEMMA EveryDefaultIsExplicit ==
    ASSUME NEW b \in Levels, NEW c \in Levels,
           NEW m \in Names \ (Subscribes \cup {"send_raw_transaction"}), NEW a \in ArgsOf[m]
    PROVE  Methods(b, ExplicitArgs(c, a))[m].request = Methods(c, a)[m].request
<1> DEFINE e == ExplicitArgs(c, a)
<1> /\ \A o \in Options \ {"commitment", "preflight_commitment", "opts"} : e[o] = a[o]
    /\ CommitmentToUse(b, e.commitment) = CommitmentToUse(c, a.commitment)
  BY ArgsAreShaped, SpelledOut DEF ExplicitArgs, Options
<1> HIDE DEF e
<1> USE DEF Options, Methods, Method
<1> SUFFICES Methods(b, e)[m].request = Methods(c, a)[m].request
  BY DEF e
<1>1. CASE m = "is_connected"
  BY <1>1 DEF is_connected, get_health_body, Bare
<1>2. CASE m = "get_balance"
  BY <1>2 DEF get_balance, get_balance_body
<1>3. CASE m = "get_account_info"
  BY <1>3 DEF get_account_info, get_account_info_body
<1>4. CASE m = "get_account_info_json_parsed"
  BY <1>4 DEF get_account_info_json_parsed, get_account_info_body
<1>5. CASE m = "get_block_commitment"
  BY <1>5 DEF get_block_commitment, get_block_commitment_body
<1>6. CASE m = "get_block_time"
  BY <1>6 DEF get_block_time, get_block_time_body
<1>7. CASE m = "get_cluster_nodes"
  BY <1>7 DEF get_cluster_nodes, Bare
<1>8. CASE m = "get_block"
  BY <1>8 DEF get_block, get_block_body
<1>9. CASE m = "get_recent_performance_samples"
  BY <1>9 DEF get_recent_performance_samples, get_recent_performance_samples_body
<1>10. CASE m = "get_recent_prioritization_fees"
  BY <1>10 DEF get_recent_prioritization_fees
<1>11. CASE m = "get_block_height"
  BY <1>11 DEF get_block_height, get_block_height_body
<1>12. CASE m = "get_blocks"
  BY <1>12 DEF get_blocks, get_blocks_body
<1>13. CASE m = "get_signatures_for_address"
  BY <1>13 DEF get_signatures_for_address, get_signatures_for_address_body
<1>14. CASE m = "get_transaction"
  BY <1>14 DEF get_transaction, get_transaction_body
<1>15. CASE m = "get_epoch_info"
  BY <1>15 DEF get_epoch_info, get_epoch_info_body
<1>16. CASE m = "get_epoch_schedule"
  BY <1>16 DEF get_epoch_schedule, Bare
<1>17. CASE m = "get_fee_for_message"
  BY <1>17 DEF get_fee_for_message, get_fee_for_message_body
<1>18. CASE m = "get_first_available_block"
  BY <1>18 DEF get_first_available_block, Bare
<1>19. CASE m = "get_genesis_hash"
  BY <1>19 DEF get_genesis_hash, Bare
<1>20. CASE m = "get_identity"
  BY <1>20 DEF get_identity, Bare
<1>21. CASE m = "get_inflation_governor"
  BY <1>21 DEF get_inflation_governor, get_inflation_governor_body
<1>22. CASE m = "get_inflation_rate"
  BY <1>22 DEF get_inflation_rate, Bare
<1>23. CASE m = "get_inflation_reward"
  BY <1>23 DEF get_inflation_reward, get_inflation_reward_body
<1>24. CASE m = "get_largest_accounts"
  BY <1>24 DEF get_largest_accounts, get_largest_accounts_body
<1>25. CASE m = "get_leader_schedule"
  BY <1>25 DEF get_leader_schedule, get_leader_schedule_body
<1>26. CASE m = "get_minimum_balance_for_rent_exemption"
  BY <1>26 DEF get_minimum_balance_for_rent_exemption, get_minimum_balance_for_rent_exemption_body
<1>27. CASE m = "get_multiple_accounts"
  BY <1>27 DEF get_multiple_accounts, get_multiple_accounts_body
<1>28. CASE m = "get_multiple_accounts_json_parsed"
  BY <1>28 DEF get_multiple_accounts_json_parsed, get_multiple_accounts_body
<1>29. CASE m = "get_program_accounts"
  BY <1>29 DEF get_program_accounts, get_program_accounts_body
<1>30. CASE m = "get_program_accounts_json_parsed"
  BY <1>30 DEF get_program_accounts_json_parsed, get_program_accounts_body
<1>31. CASE m = "get_latest_blockhash"
  BY <1>31 DEF get_latest_blockhash, get_latest_blockhash_body
<1>32. CASE m = "get_signature_statuses"
  BY <1>32 DEF get_signature_statuses, get_signature_statuses_body
<1>33. CASE m = "get_slot"
  BY <1>33 DEF get_slot, get_slot_body
<1>34. CASE m = "get_slot_leader"
  BY <1>34 DEF get_slot_leader, get_slot_leader_body
<1>35. CASE m = "get_slot_leaders"
  BY <1>35 DEF get_slot_leaders, get_slot_leaders_body
<1>36. CASE m = "get_supply"
  BY <1>36 DEF get_supply, get_supply_body
<1>37. CASE m = "get_token_account_balance"
  BY <1>37 DEF get_token_account_balance, get_token_account_balance_body
<1>38. CASE m = "get_token_accounts_by_delegate"
  BY <1>38 DEF get_token_accounts_by_delegate, get_token_accounts_by_delegate_body,
         get_token_accounts_convert, TokenAccountOpts, TokenOptions
<1>39. CASE m = "get_token_accounts_by_delegate_json_parsed"
  BY <1>39 DEF get_token_accounts_by_delegate_json_parsed,
         get_token_accounts_by_delegate_json_parsed_body, get_token_accounts_by_delegate_body,
         get_token_accounts_convert, JsonParsed, TokenAccountOpts, TokenOptions
<1>40. CASE m = "get_token_accounts_by_owner"
  BY <1>40 DEF get_token_accounts_by_owner, get_token_accounts_by_owner_body,
         get_token_accounts_convert, TokenAccountOpts, TokenOptions
<1>41. CASE m = "get_token_accounts_by_owner_json_parsed"
  BY <1>41 DEF get_token_accounts_by_owner_json_parsed,
         get_token_accounts_by_owner_json_parsed_body, get_token_accounts_by_owner_body,
         get_token_accounts_convert, JsonParsed, TokenAccountOpts, TokenOptions
<1>42. CASE m = "get_token_largest_accounts"
  BY <1>42 DEF get_token_largest_accounts, get_token_largest_accounts_body
<1>43. CASE m = "get_token_supply"
  BY <1>43 DEF get_token_supply, get_token_supply_body
<1>44. CASE m = "get_transaction_count"
  BY <1>44 DEF get_transaction_count, get_transaction_count_body
<1>45. CASE m = "get_minimum_ledger_slot"
  BY <1>45 DEF get_minimum_ledger_slot, Bare
<1>46. CASE m = "get_version"
  BY <1>46 DEF get_version, Bare
<1>47. CASE m = "get_vote_accounts"
  BY <1>47 DEF get_vote_accounts, get_vote_accounts_body
<1>48. CASE m = "request_airdrop"
  BY <1>48 DEF request_airdrop, request_airdrop_body
<1>49. CASE m = "simulate_transaction"
  BY <1>49 DEF simulate_transaction, simulate_transaction_body
<1>50. CASE m = "validator_exit"
  BY <1>50 DEF validator_exit, Bare
<1> HIDE DEF Options, Methods, Method
<1>51. QED BY NamesAre, <1>1, <1>2, <1>3, <1>4, <1>5, <1>6, <1>7, <1>8, <1>9, <1>10, <1>11, <1>12, <1>13,
      <1>14, <1>15, <1>16, <1>17, <1>18, <1>19, <1>20, <1>21, <1>22, <1>23, <1>24, <1>25, <1>26,
      <1>27, <1>28, <1>29, <1>30, <1>31, <1>32, <1>33, <1>34, <1>35, <1>36, <1>37, <1>38, <1>39,
      <1>40, <1>41, <1>42, <1>43, <1>44, <1>45, <1>46, <1>47, <1>48, <1>49, <1>50 DEF Subscribes

(* A transaction, too, and it is confirmed at the level of its preflight.  *)
LEMMA SendIsExplicit ==
    ASSUME NEW b \in Levels, NEW c \in Levels, NEW a \in ArgsOf["send_raw_transaction"]
    PROVE  LET e == ExplicitArgs(c, a)
               r == send_raw_transaction(c, a).request
           IN /\ send_raw_transaction(b, e).request = r
              /\ ConfirmedAt(b, e) = ConfirmedAt(c, a)
              /\ ~Raises(r) => ConfirmedAt(c, a) = r.params.preflight_commitment
<1> DEFINE e == ExplicitArgs(c, a)
           level == CommitmentToUse(c, a.preflight_commitment)
           P == [txn |-> "txn", skip_preflight |-> FlagOf(a.skip_preflight),
                 preflight_commitment |-> level, max_retries |-> a.max_retries]
<1>1. /\ DOMAIN a = Options
      /\ a.opts = None => a = NoArgs
  <2>1. "send_raw_transaction" \in Names /\ "opts" \in Takes["send_raw_transaction"]
    BY DEF Names, Takes, Methods, Method, send_raw_transaction
  <2>2. QED BY <2>1, ArgsAreShaped
<1>2. /\ e.opts = "opts" /\ e.skip_preflight = a.skip_preflight /\ e.max_retries = a.max_retries
      /\ e.preflight_commitment = IF a.preflight_commitment = None THEN c
                                  ELSE a.preflight_commitment
  BY <1>1 DEF ExplicitArgs, Options
<1>3. /\ CommitmentToUse(b, e.preflight_commitment) = level
      /\ CommitmentToUse(c, c) = CommitmentToUse(c, None)
  BY <1>2, SpelledOut DEF CommitmentToUse
<1>4. a.opts = None => /\ a.preflight_commitment = None /\ a.max_retries = None
                       /\ FlagOf(a.skip_preflight) = "False"
  BY <1>1 DEF NoArgs, Options, FlagOf
<1> HIDE DEF e, level
<1>5. send_raw_transaction(c, a).request = Request("sendTransaction", P)
  BY <1>3, <1>4 DEF send_raw_transaction, send_raw_transaction_body, TxOptsToUse, Method, level
<1>6. send_raw_transaction(b, e).request = Request("sendTransaction", P)
  BY <1>2, <1>3, Distinct DEF send_raw_transaction, send_raw_transaction_body, TxOptsToUse, Method
<1>7. ConfirmedAt(b, e) = e.preflight_commitment /\ ConfirmedAt(c, a) = e.preflight_commitment
  BY <1>2, <1>4, Distinct DEF ConfirmedAt, post_send_commitment, TxOptsToUse
<1>8. ASSUME ~Raises(Request("sendTransaction", P))
      PROVE  Request("sendTransaction", P).params.preflight_commitment = e.preflight_commitment
  <2>1. level # None
    BY Resolves, Distinct DEF level
  <2>2. /\ "preflight_commitment" \in DOMAIN Request("sendTransaction", P).params
        /\ Request("sendTransaction", P).params.preflight_commitment = level
    BY <2>1 DEF Request
  <2>3. level # KeyError
    BY <1>8, <2>2 DEF Raises
  <2>4. level = e.preflight_commitment
    BY <1>2, <2>3 DEF level, CommitmentToUse, Known
  <2>5. QED BY <2>2, <2>4
<1>9. QED BY <1>5, <1>6, <1>7, <1>8 DEF e

----------------------------------------------------------------------------
(* No method asks, of itself, for data that it cannot read.                *)

EncodingOf(r) ==
    LET p == {"encoding", "accounts_encoding"} \cap DOMAIN r.params
    IN IF p = {} THEN "none" ELSE r.params[CHOOSE q \in p : TRUE]

(* Methods that read accounts as bytes: what is asked for is what was      *)
(* named, or base64.                                                       *)
AsksAsNamed(r, reads, a) ==
    reads # NoData =>
        /\ reads = Binary
        /\ EncodingOf(r) \in {"none", EncodingOr("base64", a.encoding)}
        /\ EncodingOf(r) \in {"none"} \cup AccountEncodings
        /\ EncodingOf(r) = "none" => a.encoding = None

LEMMA OneEncoding ==
    ASSUME NEW name, NEW P, ~Raises(Request(name, P)),
           NEW q \in {"encoding", "accounts_encoding"},
           {"encoding", "accounts_encoding"} \cap DOMAIN P = {q}
    PROVE  /\ P[q] \notin {KeyError, ValueError}
           /\ EncodingOf(Request(name, P)) = IF P[q] = None THEN "none" ELSE P[q]
<1> DEFINE r == Request(name, P)
<1>1. /\ DOMAIN r.params = {p \in DOMAIN P : P[p] # None}
      /\ \A p \in DOMAIN r.params : r.params[p] = P[p]
  BY DEF Request
<1>2. P[q] \notin {KeyError, ValueError}
  BY Distinct DEF Raises, Request
<1> HIDE DEF r
<1>3. {"encoding", "accounts_encoding"} \cap DOMAIN r.params = IF P[q] = None THEN {} ELSE {q}
  BY <1>1
<1>4. (CHOOSE x \in {q} : TRUE) = q
  OBVIOUS
<1>5. EncodingOf(r) = IF P[q] = None THEN "none" ELSE P[q]
  BY <1>1, <1>3, <1>4 DEF EncodingOf
<1>6. QED BY <1>2, <1>5 DEF r

AsksParsed(r, reads) == EncodingOf(r) = "jsonParsed" /\ reads \in {Parsed, Either}

AccountMethods == JsonParsedMethods \cup PlainMethods

LEMMA OthersReadNothing ==
    ASSUME NEW c, NEW a, NEW m \in Names \ (Subscribes \cup AccountMethods)
    PROVE  Methods(c, a)[m].reads = NoData
BY NamesAre DEF Methods, Method, Subscribes, AccountMethods, JsonParsedMethods,
       PlainMethods, is_connected, get_balance, get_block_commitment, get_block_time, get_cluster_nodes, get_block,
       get_recent_performance_samples, get_recent_prioritization_fees, get_block_height, get_blocks,
       get_signatures_for_address, get_transaction, get_epoch_info, get_epoch_schedule,
       get_fee_for_message, get_first_available_block, get_genesis_hash, get_identity,
       get_inflation_governor, get_inflation_rate, get_inflation_reward, get_largest_accounts,
       get_leader_schedule, get_minimum_balance_for_rent_exemption, get_latest_blockhash,
       get_signature_statuses, get_slot, get_slot_leader, get_slot_leaders, get_supply,
       get_token_account_balance, get_token_largest_accounts, get_token_supply,
       get_transaction_count, get_minimum_ledger_slot, get_version, get_vote_accounts,
       request_airdrop, send_raw_transaction, validator_exit

LEMMA EveryMethodReads ==
    ASSUME NEW c \in Levels, NEW m \in Names \ Subscribes, NEW a \in ArgsOf[m],
           ~Raises(Methods(c, a)[m].request)
    PROVE  IF m \in JsonParsedMethods
           THEN AsksParsed(Methods(c, a)[m].request, Methods(c, a)[m].reads)
           ELSE AsksAsNamed(Methods(c, a)[m].request, Methods(c, a)[m].reads, a)
<1> USE OneEncoding, Distinct
    DEF Method, JsonParsedMethods, AsksParsed, AsksAsNamed, Known, KnownOrNone,
        EncodingOr, AccountEncodings, Binary, Parsed, Either, NoData
<1>1. CASE m = "get_account_info"
  <2>1. Methods(c, a)[m] = get_account_info(c, a)
    BY <1>1 DEF Methods
  <2>2. QED BY <1>1, <2>1 DEF get_account_info, get_account_info_body
<1>2. CASE m = "get_account_info_json_parsed"
  <2>1. Methods(c, a)[m] = get_account_info_json_parsed(c, a)
    BY <1>2 DEF Methods
  <2>2. QED BY <1>2, <2>1 DEF get_account_info_json_parsed, get_account_info_body
<1>3. CASE m = "get_multiple_accounts"
  <2>1. Methods(c, a)[m] = get_multiple_accounts(c, a)
    BY <1>3 DEF Methods
  <2>2. QED BY <1>3, <2>1 DEF get_multiple_accounts, get_multiple_accounts_body
<1>4. CASE m = "get_multiple_accounts_json_parsed"
  <2>1. Methods(c, a)[m] = get_multiple_accounts_json_parsed(c, a)
    BY <1>4 DEF Methods
  <2>2. QED BY <1>4, <2>1 DEF get_multiple_accounts_json_parsed, get_multiple_accounts_body
<1>5. CASE m = "get_program_accounts"
  <2>1. Methods(c, a)[m] = get_program_accounts(c, a)
    BY <1>5 DEF Methods
  <2>2. QED BY <1>5, <2>1 DEF get_program_accounts, get_program_accounts_body
<1>6. CASE m = "get_program_accounts_json_parsed"
  <2>1. Methods(c, a)[m] = get_program_accounts_json_parsed(c, a)
    BY <1>6 DEF Methods
  <2>2. QED BY <1>6, <2>1 DEF get_program_accounts_json_parsed, get_program_accounts_body
<1>7. CASE m = "get_token_accounts_by_delegate"
  <2>1. Methods(c, a)[m] = get_token_accounts_by_delegate(c, a)
    BY <1>7 DEF Methods
  <2>2. QED BY <1>7, <2>1 DEF get_token_accounts_by_delegate,
               get_token_accounts_by_delegate_body, get_token_accounts_convert,
               TokenAccountOpts, TokenOptions
<1>8. CASE m = "get_token_accounts_by_delegate_json_parsed"
  <2>1. Methods(c, a)[m] = get_token_accounts_by_delegate_json_parsed(c, a)
    BY <1>8 DEF Methods
  <2>2. QED BY <1>8, <2>1 DEF get_token_accounts_by_delegate_json_parsed,
               get_token_accounts_by_delegate_json_parsed_body,
               get_token_accounts_by_delegate_body, get_token_accounts_convert, JsonParsed,
               TokenAccountOpts, TokenOptions
<1>9. CASE m = "get_token_accounts_by_owner"
  <2>1. Methods(c, a)[m] = get_token_accounts_by_owner(c, a)
    BY <1>9 DEF Methods
  <2>2. QED BY <1>9, <2>1 DEF get_token_accounts_by_owner, get_token_accounts_by_owner_body,
               get_token_accounts_convert, TokenAccountOpts, TokenOptions
<1>10. CASE m = "get_token_accounts_by_owner_json_parsed"
  <2>1. Methods(c, a)[m] = get_token_accounts_by_owner_json_parsed(c, a)
    BY <1>10 DEF Methods
  <2>2. QED BY <1>10, <2>1 DEF get_token_accounts_by_owner_json_parsed,
               get_token_accounts_by_owner_json_parsed_body, get_token_accounts_by_owner_body,
               get_token_accounts_convert, JsonParsed, TokenAccountOpts, TokenOptions
<1>11. CASE m = "simulate_transaction"
  <2>1. Methods(c, a)[m] = simulate_transaction(c, a)
    BY <1>11 DEF Methods
  <2>2. QED BY <1>11, <2>1 DEF simulate_transaction, simulate_transaction_body
<1> HIDE OneEncoding, Distinct
    DEF Method, JsonParsedMethods, AsksParsed, AsksAsNamed, Known, KnownOrNone,
        EncodingOr, AccountEncodings, Binary, Parsed, Either, NoData
<1>12. CASE m \notin AccountMethods
  BY <1>12, OthersReadNothing DEF AsksAsNamed, AccountMethods
<1>13. QED
  BY <1>1, <1>2, <1>3, <1>4, <1>5, <1>6, <1>7, <1>8, <1>9, <1>10, <1>11, <1>12
     DEF AccountMethods, JsonParsedMethods, PlainMethods

----------------------------------------------------------------------------
(* The invariant: the request is the one of the call, and the outcome the  *)
(* one of the answer.                                                      *)

Outcomes ==
    {"idle", "raised", "sent", "RPCException", "SolanaRpcException", "unreadable", "returned",
     "section_read"}

Answered == {"RPCException", "unreadable", "returned", "section_read"}

CallInv ==
    /\ commitment \in Levels
    /\ out \in Outcomes
    /\ out = "idle" => method = "none"
    /\ out # "idle" =>
        /\ method \in Names /\ args \in ArgsOf[method]
        /\ request = Methods(commitment, args)[method].request
        /\ out = "raised" <=> Raises(request)

AnswerInv ==
    IF out \in Answered
    THEN /\ method \notin Subscribes
         /\ answer \in NodeAnswers
         /\ ParseRaw(Reads, answer) = IF out = "section_read" THEN "returned" ELSE out
    ELSE answer = NoAnswer

TxtInv ==
    txt.outcome \in {"none", "found", "NoSecurityTxtFoundError", "UnicodeDecodeError", "TypeError"}

Inv == CallInv /\ AnswerInv /\ TxtInv

LEMMA InitInv == Init => Inv
BY DEF Init, Inv, CallInv, AnswerInv, TxtInv, Outcomes, Answered, Failed, Levels

LEMMA CallKeeps == Inv /\ Call => Inv'
<1> SUFFICES ASSUME Inv, Call PROVE Inv'
  OBVIOUS
<1>1. PICK m \in Names : \E a \in ArgsOf[m] :
          /\ method' = m /\ args' = a
          /\ request' = Methods(commitment, a)[m].request
          /\ out' = IF Raises(request') THEN "raised" ELSE "sent"
  BY DEF Call
<1>2. out = "idle" /\ UNCHANGED <<commitment, answer, section, data, txt>>
  BY DEF Call
<1>3. CallInv'
  BY <1>1, <1>2 DEF Inv, CallInv, Outcomes, Raises
<1>4. AnswerInv'
  BY <1>1, <1>2 DEF Inv, AnswerInv, Answered
<1>5. QED BY <1>2, <1>3, <1>4 DEF Inv, TxtInv

LEMMA AnswerKeeps == Inv /\ Answer => Inv'
<1> SUFFICES ASSUME Inv, Answer PROVE Inv'
  OBVIOUS
<1>1. /\ out = "sent" /\ method \notin Subscribes
      /\ UNCHANGED <<commitment, method, args, request, txt>>
  BY DEF Answer
<1>2. PICK a \in NodeAnswers : answer' = a /\ out' = ParseRaw(Reads, a)
  BY DEF Answer
<1>3. out' \in {"RPCException", "unreadable", "returned"}
  BY <1>2 DEF ParseRaw
<1>4. CallInv'
  BY <1>1, <1>3 DEF Inv, CallInv, Outcomes, Raises
<1>5. Reads' = Reads /\ NodeAnswers' = NodeAnswers
  BY <1>1 DEF Reads, NodeAnswers, DataSent, EncodingAsked
<1>6. AnswerInv'
  BY <1>1, <1>2, <1>3, <1>5 DEF AnswerInv, Answered, ParseRaw
<1>7. QED BY <1>1, <1>4, <1>6 DEF Inv, TxtInv

LEMMA OthersKeep == Inv /\ (TransportFails \/ ReadSecurityTxt \/ UNCHANGED vars) => Inv'
<1> SUFFICES ASSUME Inv, TransportFails \/ ReadSecurityTxt \/ UNCHANGED vars PROVE Inv'
  OBVIOUS
<1>1. UNCHANGED <<commitment, method, args, request, answer>>
  BY DEF TransportFails, ReadSecurityTxt, vars
<1>2. Reads' = Reads /\ NodeAnswers' = NodeAnswers
  BY <1>1 DEF Reads, NodeAnswers, DataSent, EncodingAsked
<1>3. \/ out' = out /\ txt' = txt
      \/ out = "sent" /\ out' = "SolanaRpcException" /\ txt' = txt
      \/ out = "returned" /\ out' = "section_read" /\ txt' = parse_security_txt(data)
  BY DEF TransportFails, ReadSecurityTxt, vars
<1>4. CallInv'
  BY <1>1, <1>3 DEF Inv, CallInv, Outcomes, Raises
<1>5. AnswerInv'
  BY <1>1, <1>2, <1>3 DEF Inv, AnswerInv, Answered
<1>6. TxtInv'
  BY <1>3 DEF Inv, TxtInv, parse_security_txt, Failed, Found
<1>7. QED BY <1>4, <1>5, <1>6 DEF Inv

(* The invariant holds of every call.                                      *)
THEOREM CallsAreFaithful == Spec => []Inv
<1>1. Inv /\ [Next]_vars => Inv'
  BY CallKeeps, AnswerKeeps, OthersKeep DEF Next
<1>2. QED BY <1>1, InitInv, PTL DEF Spec

----------------------------------------------------------------------------
LEMMA InvType == Inv => TypeOK
<1> SUFFICES ASSUME Inv PROVE TypeOK
  OBVIOUS
<1>1. out \notin {"idle", "raised"} => Legal(request)
  BY EveryMethodCarries DEF Inv, CallInv, Carries
<1>2. answer.kind \in {"none", "result", "error", "uncoded_error"}
  BY DEF Inv, AnswerInv, NodeAnswers, NoAnswer
<1>3. QED BY <1>1, <1>2 DEF Inv, CallInv, TxtInv, TypeOK, Legal, Outcomes

(* Only levels and encodings the node knows are sent, whatever the caller  *)
(* names.                                                                  *)
THEOREM TypeCorrect == Spec => []TypeOK
BY CallsAreFaithful, InvType, PTL

LEMMA InvDefault == Inv => DefaultIsExplicit
<1> SUFFICES ASSUME Inv, out \in {"sent", "raised"}, method \notin Subscribes, NEW c \in Levels
             PROVE  /\ Methods(c, Explicit)[method].request = request
                    /\ method = "send_raw_transaction" /\ out # "raised" =>
                        /\ ConfirmedAt(commitment, args) = request.params.preflight_commitment
                        /\ ConfirmedAt(c, Explicit) = ConfirmedAt(commitment, args)
  BY DEF DefaultIsExplicit
<1>1. /\ commitment \in Levels /\ method \in Names /\ args \in ArgsOf[method]
      /\ request = Methods(commitment, args)[method].request
      /\ out # "raised" => ~Raises(request)
  BY DEF Inv, CallInv
<1>2. Explicit = ExplicitArgs(commitment, args)
  BY DEF Explicit, ExplicitArgs, Or
<1>3. CASE method # "send_raw_transaction"
  BY <1>1, <1>2, <1>3, EveryDefaultIsExplicit
<1>4. CASE method = "send_raw_transaction"
  <2>1. \A b, a : Methods(b, a)[method] = send_raw_transaction(b, a)
    BY <1>4 DEF Methods
  <2>2. QED BY <1>1, <1>2, <1>4, <2>1, SendIsExplicit
<1>5. QED BY <1>3, <1>4

(* A client's default is the level its calls would name themselves, and a  *)
(* transaction is confirmed at the level its preflight ran at.             *)
THEOREM DefaultsAreExplicit == Spec => []DefaultIsExplicit
BY CallsAreFaithful, InvDefault, PTL

LEMMA InvOptions == Inv => OptionsArrive
<1> SUFFICES ASSUME Inv, out = "sent" PROVE Arrives(request, method, args)
  BY DEF OptionsArrive, Arrives, Given, GivenOf
<1>1. QED BY EveryMethodCarries DEF Inv, CallInv, Carries

(* Each option reaches the request as itself, and nothing else does.       *)
THEOREM EveryOptionArrives == Spec => []OptionsArrive
BY CallsAreFaithful, InvOptions, PTL

LEMMA InvOutcome == Inv => OutcomeTrue
<1> SUFFICES ASSUME Inv PROVE OutcomeTrue
  OBVIOUS
<1>1. out \in {"returned", "section_read"} => answer.kind = "result"
  BY DEF Inv, AnswerInv, Answered, ParseRaw, NodeAnswers
<1>2. ASSUME out \in Answered,
             answer.data = "too_large" \/ (answer.kind = "result" /\ answer.data \notin Reads)
      PROVE  /\ method \in PlainMethods
             /\ IF answer.data = "too_large" THEN args.encoding \in {None, "base58"}
                ELSE args.encoding = "jsonParsed" /\ answer.data = "parsed"
  <2>1. /\ method \notin Subscribes /\ answer \in NodeAnswers
        /\ commitment \in Levels /\ method \in Names /\ args \in ArgsOf[method]
        /\ request = Methods(commitment, args)[method].request /\ ~Raises(request)
    BY <1>2 DEF Inv, CallInv, AnswerInv, Answered
  <2>2. answer.data \in DataSent \/ (answer.kind # "result" /\ answer.data = "none")
    BY <2>1 DEF NodeAnswers
  <2>3. answer.data \in DataSent
    BY <1>2, <2>2
  <2>4. EncodingAsked = EncodingOf(request)
    BY DEF EncodingAsked, EncodingOf
  <2>5. IF method \in JsonParsedMethods THEN AsksParsed(request, Reads)
        ELSE AsksAsNamed(request, Reads, args)
    BY <2>1, EveryMethodReads DEF Reads
  <2>6. CASE method \in JsonParsedMethods
    BY <1>2, <2>3, <2>4, <2>5, <2>6 DEF AsksParsed, DataSent, Parsed, Either, Binary, NoData
  <2>7. CASE method \notin JsonParsedMethods
    <3>1. args.encoding \in Enumerated.encoding
      BY <2>1, ArgsAreShaped
    <3>2. Reads # NoData
      BY <1>2, <2>3 DEF DataSent, NoData
    <3>7. method \in PlainMethods
      BY <2>1, <2>7, <3>2, OthersReadNothing DEF Reads, AccountMethods
    <3>3. /\ Reads = Binary
          /\ EncodingAsked \in {"none", EncodingOr("base64", args.encoding)}
          /\ EncodingAsked \in {"none"} \cup AccountEncodings
          /\ EncodingAsked = "none" => args.encoding = None
      BY <2>4, <2>5, <2>7, <3>2 DEF AsksAsNamed
    <3>4. CASE EncodingAsked = "jsonParsed"
      <4>1. args.encoding = "jsonParsed"
        BY <3>3, <3>4 DEF EncodingOr
      <4>2. answer.data \in {"parsed", "bytes"}
        BY <2>3, <3>2, <3>3, <3>4 DEF DataSent
      <4>3. answer.data = "parsed"
        BY <1>2, <3>3, <4>2 DEF Binary
      <4>4. QED BY <3>7, <4>1, <4>3
    <3>5. CASE EncodingAsked # "jsonParsed"
      <4>1. answer.data = "too_large"
        BY <1>2, <2>3, <3>2, <3>3, <3>5 DEF DataSent, Binary
      <4>2. EncodingAsked \notin {"base64", "base64+zstd"}
        BY <2>3, <3>2, <3>5, <4>1 DEF DataSent
      <4>3. args.encoding \in {None, "base58"}
        BY <3>1, <3>3, <3>5, <4>2 DEF EncodingOr, Enumerated, AccountEncodings
      <4>4. QED BY <3>7, <4>1, <4>3
    <3>6. QED BY <3>4, <3>5
  <2>8. QED BY <2>6, <2>7
<1>3. out = "unreadable" => answer.kind = "result" /\ answer.data \notin Reads /\ answer.data # "too_large"
  BY DEF Inv, AnswerInv, Answered, ParseRaw, NodeAnswers
<1>4. answer.data = "too_large" => out \in Answered
  BY DEF Inv, AnswerInv, NoAnswer
<1>5. QED BY <1>1, <1>2, <1>3, <1>4 DEF OutcomeTrue, Answered

(* A value is a result; data is refused as too large only in base58, and   *)
(* cannot be read only if a plain method was asked for jsonParsed and the  *)
(* node parsed it.                                                         *)
THEOREM OutcomesAreTrue == Spec => []OutcomeTrue
BY CallsAreFaithful, InvOutcome, PTL

----------------------------------------------------------------------------
(* The security.txt section.  Induction over the naturals, for a set: the  *)
(* library states it for an operator.                                      *)
LEMMA LeastNatural ==
    ASSUME NEW T, T \subseteq Nat, T # {}
    PROVE  \E n \in T : \A m \in T : n <= m
<1> DEFINE R == OpToRel(<, Nat)
<1>1. IsWellFoundedOn(R, Nat)
  BY NatLessThanWellFounded
<1>2. \A x, y \in Nat : <<x, y>> \in R <=> x < y
  BY DEF OpToRel
<1> HIDE DEF R
<1>3. PICK x \in T : \A y \in T : ~ (<<y, x>> \in R)
  BY <1>1, WFMin
<1>4. ASSUME NEW y \in T PROVE x <= y
  <2>1. x \in Nat /\ y \in Nat
    OBVIOUS
  <2>2. ~ (<<y, x>> \in R)
    BY <1>3
  <2>3. ~ (y < x)
    BY <1>2, <2>1, <2>2, Zenon
  <2>4. QED BY <2>1, <2>3
<1>5. QED BY <1>4

LEMMA SetInduction ==
    ASSUME NEW S, 0 \in S, \A n \in Nat : n \in S => n + 1 \in S
    PROVE  \A n \in Nat : n \in S
<1> DEFINE T == Nat \ S
<1>1. SUFFICES ASSUME T # {} PROVE FALSE
  OBVIOUS
<1>2. PICK n \in T : \A m \in T : n <= m
  BY <1>1, LeastNatural
<1>3. n # 0 /\ n - 1 \in Nat /\ n - 1 \notin T
  BY <1>2
<1>4. QED BY <1>3

----------------------------------------------------------------------------
(* FlattenSeq joins the sequences one by one.                              *)

Joining(f, seqs, n) ==
    f = [i \in 1..n |-> IF i = 1 THEN seqs[i] ELSE f[i - 1] \o seqs[i]]

(* The recursive definition has such a function.                           *)
LEMMA JoiningExists ==
    ASSUME NEW seqs
    PROVE  \A n \in Nat : \E f : Joining(f, seqs, n)
<1> DEFINE S == {n \in Nat : \E f : Joining(f, seqs, n)}
<1>1. 0 \in S
  <2> DEFINE f == [i \in 1..0 |-> <<>>]
  <2>1. Joining(f, seqs, 0)
    BY DEF Joining
  <2>2. QED BY <2>1
<1>2. ASSUME NEW n \in Nat, n \in S PROVE n + 1 \in S
  <2>1. PICK g : Joining(g, seqs, n)
    BY <1>2
  <2> DEFINE f == [i \in 1..(n + 1) |-> IF i = 1 THEN seqs[i] ELSE g[i - 1] \o seqs[i]]
  <2>2. ASSUME NEW i \in 1..n PROVE f[i] = g[i]
    <3>1. i \in 1..(n + 1)
      OBVIOUS
    <3>2. g[i] = IF i = 1 THEN seqs[i] ELSE g[i - 1] \o seqs[i]
      BY <2>1 DEF Joining
    <3>3. QED BY <3>1, <3>2
  <2>3. Joining(f, seqs, n + 1)
    <3>1. ASSUME NEW i \in 1..(n + 1), i # 1 PROVE f[i - 1] = g[i - 1]
      <4>1. i - 1 \in 1..n
        BY <3>1
      <4> HIDE DEF f
      <4>2. QED BY <2>2, <4>1
    <3>2. f = [i \in 1..(n + 1) |-> f[i]]
      OBVIOUS
    <3>3. ASSUME NEW i \in 1..(n + 1)
          PROVE  f[i] = IF i = 1 THEN seqs[i] ELSE f[i - 1] \o seqs[i]
      <4>1. f[i] = IF i = 1 THEN seqs[i] ELSE g[i - 1] \o seqs[i]
        OBVIOUS
      <4> HIDE DEF f
      <4>2. CASE i = 1
        BY <4>1, <4>2
      <4>3. CASE i # 1
        BY <4>1, <4>3, <3>1
      <4>4. QED BY <4>2, <4>3
    <3> HIDE DEF f
    <3>4. [i \in 1..(n + 1) |-> f[i]]
            = [i \in 1..(n + 1) |-> IF i = 1 THEN seqs[i] ELSE f[i - 1] \o seqs[i]]
      BY <3>3
    <3>5. QED BY <3>2, <3>4, Zenon DEF Joining
  <2>4. QED BY <2>3
<1> HIDE DEF S
<1>3. \A n \in Nat : n \in S
  BY <1>1, <1>2, SetInduction
<1>4. QED BY <1>3 DEF S

LEMMA FlattenIsJoining ==
    ASSUME NEW seqs, Len(seqs) \in Nat \ {0}
    PROVE  \E f : Joining(f, seqs, Len(seqs)) /\ FlattenSeq(seqs) = f[Len(seqs)]
<1> DEFINE f == CHOOSE g : Joining(g, seqs, Len(seqs))
<1>1. Joining(f, seqs, Len(seqs))
  BY JoiningExists
<1>2. FlattenSeq(seqs) = f[Len(seqs)]
  BY DEF FlattenSeq, Joining
<1>3. QED BY <1>1, <1>2

(* Where the k-th sequence begins, and what then holds of the whole: each  *)
(* sequence is at its place, and there is nothing else.                    *)
At(f, k) == IF k = 1 THEN 0 ELSE Len(f[k - 1])

Laid(c, f, seqs, m) ==
    /\ Len(c) = At(f, m + 1)
    /\ \A k \in 1..m :
        /\ At(f, k) \in Nat
        /\ At(f, k + 1) = At(f, k) + Len(seqs[k])
        /\ At(f, k + 1) <= Len(c)
        /\ \A j \in 1..Len(seqs[k]) : c[At(f, k) + j] = seqs[k][j]
    /\ \A p \in 1..Len(c) : \E k \in 1..m : p - At(f, k) \in 1..Len(seqs[k])

LEMMA ConcatAt ==
    ASSUME NEW T, NEW a \in Seq(T), NEW b \in Seq(T)
    PROVE  /\ a \o b \in Seq(T)
           /\ Len(a) \in Nat /\ Len(b) \in Nat
           /\ Len(a \o b) = Len(a) + Len(b)
           /\ \A p \in 1..Len(a) : (a \o b)[p] = a[p]
           /\ \A j \in 1..Len(b) : (a \o b)[Len(a) + j] = b[j]
<1>1. ASSUME NEW j \in 1..Len(b) PROVE (a \o b)[Len(a) + j] = b[j]
  <2>1. Len(a) + j \in 1..(Len(a) + Len(b)) /\ Len(a) + j > Len(a)
    OBVIOUS
  <2>2. (Len(a) + j) - Len(a) = j
    OBVIOUS
  <2>3. QED BY <2>1, <2>2, ConcatProperties
<1>2. QED BY <1>1, ConcatProperties

LEMMA ConcatFirst ==
    ASSUME NEW T, NEW a \in Seq(T), NEW b \in Seq(T), NEW p \in 1..Len(a)
    PROVE  (a \o b)[p] = a[p]
BY ConcatAt

LEMMA ConcatSecond ==
    ASSUME NEW T, NEW a \in Seq(T), NEW b \in Seq(T), NEW j \in 1..Len(b)
    PROVE  (a \o b)[Len(a) + j] = b[j]
BY ConcatAt

LEMMA LaidOne ==
    ASSUME NEW T, NEW seqs, seqs[1] \in Seq(T), NEW f, f[1] = seqs[1]
    PROVE  Laid(f[1], f, seqs, 1)
<1>1. At(f, 1) = 0 /\ At(f, 2) = Len(seqs[1]) /\ Len(seqs[1]) \in Nat
  BY DEF At
<1>2. \A k \in 1..1 : k = 1
  OBVIOUS
<1>3. \A j \in 1..Len(seqs[1]) : f[1][0 + j] = seqs[1][j]
  OBVIOUS
<1>4. \A p \in 1..Len(f[1]) : p - At(f, 1) \in 1..Len(seqs[1])
  BY <1>1
<1>5. 1 \in 1..1 /\ 1 + 1 = 2
  OBVIOUS
<1>6. QED BY <1>1, <1>2, <1>3, <1>4, <1>5 DEF Laid

LEMMA LaidNext ==
    ASSUME NEW T, NEW seqs, NEW f, NEW m \in Nat \ {0},
           f[m] \in Seq(T), seqs[m + 1] \in Seq(T), f[m + 1] = f[m] \o seqs[m + 1],
           Laid(f[m], f, seqs, m)
    PROVE  Laid(f[m + 1], f, seqs, m + 1)
<1> DEFINE c == f[m]
           d == f[m + 1]
           t == seqs[m + 1]
<1>1. d = c \o t /\ c \in Seq(T) /\ t \in Seq(T)
  OBVIOUS
<1>2. At(f, m + 1) = Len(c) /\ At(f, m + 2) = Len(d)
  <2>1. (m + 1) - 1 = m /\ (m + 2) - 1 = m + 1 /\ m + 1 # 1 /\ m + 2 # 1
    OBVIOUS
  <2>2. QED BY <2>1 DEF At
<1>3. \A k \in 1..m :
        /\ At(f, k) \in Nat
        /\ At(f, k + 1) = At(f, k) + Len(seqs[k])
        /\ At(f, k + 1) <= Len(c)
        /\ \A j \in 1..Len(seqs[k]) : c[At(f, k) + j] = seqs[k][j]
  BY DEF Laid
<1>4. \A p \in 1..Len(c) : \E k \in 1..m : p - At(f, k) \in 1..Len(seqs[k])
  BY DEF Laid
<1> HIDE DEF c, d, t
<1>5. Len(c) \in Nat /\ Len(t) \in Nat /\ Len(d) = Len(c) + Len(t)
  BY <1>1, ConcatAt
<1>6. \A p \in 1..Len(c) : d[p] = c[p]
  BY <1>1, ConcatAt
<1>7. \A j \in 1..Len(t) : d[Len(c) + j] = t[j]
  BY <1>1, ConcatAt
<1>8. ASSUME NEW k \in 1..(m + 1)
      PROVE  /\ At(f, k) \in Nat
             /\ At(f, k + 1) = At(f, k) + Len(seqs[k])
             /\ At(f, k + 1) <= Len(d)
             /\ \A j \in 1..Len(seqs[k]) : d[At(f, k) + j] = seqs[k][j]
  <2>1. CASE k = m + 1
    <3>1. At(f, k) = Len(c) /\ At(f, k + 1) = Len(d) /\ seqs[k] = t
      BY <2>1, <1>2 DEF t
    <3>2. QED BY <3>1, <1>5, <1>7
  <2>2. CASE k \in 1..m
    <3>1. /\ At(f, k) \in Nat
          /\ At(f, k + 1) = At(f, k) + Len(seqs[k])
          /\ At(f, k + 1) <= Len(c)
      BY <2>2, <1>3
    <3>2. ASSUME NEW j \in 1..Len(seqs[k]) PROVE d[At(f, k) + j] = seqs[k][j]
      <4>1. Len(seqs[k]) \in Int
        BY <3>1, <1>5, <2>2
      <4>2. c[At(f, k) + j] = seqs[k][j]
        BY <2>2, <1>3
      <4>3. At(f, k) + j \in 1..Len(c)
        <5> DEFINE a == At(f, k)
                   l == Len(seqs[k])
                   n == Len(c)
        <5>1. a \in Nat /\ l \in Int /\ n \in Nat /\ a + l <= n /\ j \in 1..l
          BY <3>1, <4>1, <1>5
        <5> HIDE DEF a, l, n
        <5>2. a + j \in 1..n
          BY <5>1
        <5>3. QED BY <5>2 DEF a, n
      <4>4. QED BY <4>2, <4>3, <1>6
    <3>3. At(f, k + 1) <= Len(d)
      BY <3>1, <1>5
    <3>4. QED BY <3>1, <3>2, <3>3
  <2>3. QED BY <2>1, <2>2
<1>9. ASSUME NEW p \in 1..Len(d)
      PROVE  \E k \in 1..(m + 1) : p - At(f, k) \in 1..Len(seqs[k])
  <2>1. CASE p \in 1..Len(c)
    <3>1. PICK k \in 1..m : p - At(f, k) \in 1..Len(seqs[k])
      BY <2>1, <1>4
    <3>2. k \in 1..(m + 1)
      OBVIOUS
    <3>3. QED BY <3>1, <3>2
  <2>2. CASE p \notin 1..Len(c)
    <3>1. p - Len(c) \in 1..Len(t)
      BY <2>2, <1>5
    <3>2. p - At(f, m + 1) \in 1..Len(seqs[m + 1])
      BY <3>1, <1>2 DEF t
    <3>3. m + 1 \in 1..(m + 1)
      OBVIOUS
    <3>4. QED BY <3>2, <3>3
  <2>3. QED BY <2>1, <2>2
<1>10. Len(d) = At(f, (m + 1) + 1)
  BY <1>2
<1>11. QED BY <1>8, <1>9, <1>10 DEF Laid, d

LEMMA FlattenIsLaid ==
    ASSUME NEW T, NEW seqs \in Seq(Seq(T))
    PROVE  \E f : FlattenSeq(seqs) \in Seq(T) /\ Laid(FlattenSeq(seqs), f, seqs, Len(seqs))
<1> DEFINE n == Len(seqs)
<1>1. CASE n = 0
  <2>1. seqs = <<>> /\ FlattenSeq(seqs) = <<>>
    BY <1>1 DEF FlattenSeq
  <2>2. Laid(<<>>, seqs, seqs, 0)
    BY DEF Laid, At
  <2>3. <<>> \in Seq(T)
    OBVIOUS
  <2> HIDE DEF n
  <2>4. FlattenSeq(seqs) \in Seq(T) /\ Laid(FlattenSeq(seqs), seqs, seqs, n)
    BY <1>1, <2>1, <2>2, <2>3
  <2>5. QED BY <2>4 DEF n
<1>2. CASE n # 0
  <2>1. n \in Nat \ {0}
    BY <1>2
  <2>2. PICK f : Joining(f, seqs, n) /\ FlattenSeq(seqs) = f[n]
    BY <2>1, FlattenIsJoining
  <2>3. \A k \in 1..n : f[k] = IF k = 1 THEN seqs[k] ELSE f[k - 1] \o seqs[k]
    BY <2>2 DEF Joining
  <2> DEFINE Good(m) == f[m] \in Seq(T) /\ Laid(f[m], f, seqs, m)
             S == {m \in Nat : m \in 1..n => Good(m)}
  <2>4. \A k \in 1..n : seqs[k] \in Seq(T)
    OBVIOUS
  <2>5. 0 \in S
    OBVIOUS
  <2>6. ASSUME NEW m \in Nat, m \in S PROVE m + 1 \in S
    <3>1. SUFFICES ASSUME m + 1 \in 1..n PROVE Good(m + 1)
      OBVIOUS
    <3>2. CASE m = 0
      <4>1. f[1] = seqs[1] /\ seqs[1] \in Seq(T)
        BY <2>3, <2>4, <3>1, <3>2
      <4>2. Laid(f[1], f, seqs, 1)
        BY <4>1, LaidOne
      <4>3. QED BY <4>1, <4>2, <3>2
    <3>3. CASE m # 0
      <4>1. m \in 1..n /\ m + 1 # 1 /\ m \in Nat \ {0}
        BY <3>1, <3>3, <2>1
      <4>2. f[m] \in Seq(T) /\ Laid(f[m], f, seqs, m)
        BY <4>1, <2>6
      <4>3. (m + 1) - 1 = m
        OBVIOUS
      <4>4. f[m + 1] = f[m] \o seqs[m + 1] /\ seqs[m + 1] \in Seq(T)
        BY <2>3, <2>4, <3>1, <4>1, <4>3
      <4>5. Laid(f[m + 1], f, seqs, m + 1)
        BY <4>1, <4>2, <4>4, LaidNext
      <4>6. f[m + 1] \in Seq(T)
        BY <4>2, <4>4
      <4>7. QED BY <4>5, <4>6
    <3>4. QED BY <3>2, <3>3
  <2> HIDE DEF S
  <2>7. n \in S
    BY <2>1, <2>5, <2>6, SetInduction
  <2> USE DEF S
  <2>8. Good(n)
    BY <2>1, <2>7
  <2>9. QED BY <2>2, <2>8
<1>3. QED BY <1>1, <1>2

(* What stands in a section.                                               *)
Words == {Text, OtherKey, Undecodable} \cup KnownKeys
Tokens == Words \cup {Header, Footer, Nul}
Written == {<<>>} \cup {<<t>> : t \in Words}
FieldsWritten == [key : KnownKeys \cup {OtherKey}, value : Written]

LEMMA WordsAreNoMarks ==
    /\ Header \notin Words /\ Footer \notin Words /\ Nul \notin Words
    /\ Header # Footer /\ Nul # Header /\ Nul # Footer /\ Undecodable # Nul
    /\ Undecodable \notin KnownKeys \cup {OtherKey, Header, Footer}
BY TokenAssumption, SectionAssumption DEF Words

LEMMA SectionsAreWritten ==
    ASSUME NEW s \in Sections
    PROVE  /\ Len(s) \in Nat /\ DOMAIN s = 1..Len(s)
           /\ \A k \in 1..Len(s) : s[k] \in FieldsWritten
<1> DEFINE F == [key : KnownKeys \cup {OtherKey},
                 value : {<<>>, <<Text>>, <<Undecodable>>}
                             \cup {<<key>> : key \in RequiredFields}]
<1>1. PICK m \in 0..MaxFields : s \in [1..m -> F]
  BY DEF Sections, BoundedSeq, SeqOf
<1>2. m \in Nat
  BY SectionAssumption
<1>3. F \subseteq FieldsWritten
  <2>1. ASSUME NEW x \in F PROVE x \in FieldsWritten
    <3>1. x = [key |-> x.key, value |-> x.value] /\ x.key \in KnownKeys \cup {OtherKey}
      OBVIOUS
    <3>2. x.value \in {<<>>, <<Text>>, <<Undecodable>>} \cup {<<key>> : key \in RequiredFields}
      OBVIOUS
    <3>3. x.value \in Written
      <4>1. {Text, Undecodable} \cup RequiredFields \subseteq Words
        BY DEF Words, KnownKeys
      <4>2. \A t \in {Text, Undecodable} \cup RequiredFields : <<t>> \in Written
        BY <4>1 DEF Written
      <4>3. <<>> \in Written
        BY DEF Written
      <4>4. QED BY <3>2, <4>2, <4>3
    <3> HIDE DEF F
    <3>4. QED BY <3>1, <3>3 DEF FieldsWritten
  <2>2. QED BY <2>1
<1> HIDE DEF F
<1>4. Len(s) = m /\ DOMAIN s = 1..m
  BY <1>1, <1>2
<1>5. \A k \in 1..m : s[k] \in F
  BY <1>1
<1>6. QED BY <1>2, <1>3, <1>4, <1>5

(* A field: its name, its value, and a null byte behind each.              *)
LEMMA FieldLayout ==
    ASSUME NEW field \in FieldsWritten
    PROVE  LET v == field.value
               b == FieldBytes(field)
           IN /\ b \in Seq(Tokens)
              /\ v \in Seq(Words) /\ Len(v) \in Nat /\ Len(b) = 3 + Len(v)
              /\ b[1] = field.key /\ b[2] = Nul /\ b[3 + Len(v)] = Nul
              /\ \A j \in 1..Len(v) : b[2 + j] = v[j]
<1> DEFINE v == field.value
           a == <<field.key, Nul>>
           z == <<Nul>>
<1>1. v \in Seq(Words) /\ field.key \in Tokens /\ Nul \in Tokens
  <2>1. v \in Written
    BY DEF FieldsWritten
  <2>2. v \in Seq(Words)
    <3>1. ASSUME NEW t \in Words PROVE <<t>> \in Seq(Words)
      OBVIOUS
    <3>2. <<>> \in Seq(Words)
      OBVIOUS
    <3> HIDE DEF v
    <3>3. QED BY <2>1, <3>1, <3>2 DEF Written
  <2>3. QED BY <2>2 DEF FieldsWritten, Words, Tokens
<1>2. v \in Seq(Tokens)
  BY <1>1 DEF Tokens
<1>3. /\ a \in Seq(Tokens) /\ Len(a) = 2 /\ a[1] = field.key /\ a[2] = Nul
      /\ z \in Seq(Tokens) /\ Len(z) = 1 /\ z[1] = Nul
  BY <1>1
<1> HIDE DEF v, a, z
<1> DEFINE u == a \o v
<1>4. /\ u \in Seq(Tokens) /\ Len(u) = 2 + Len(v) /\ Len(v) \in Nat
      /\ u[1] = field.key /\ u[2] = Nul
      /\ \A j \in 1..Len(v) : u[2 + j] = v[j]
  <2>1. /\ u \in Seq(Tokens) /\ Len(u) = Len(a) + Len(v) /\ Len(v) \in Nat
        /\ \A p \in 1..Len(a) : u[p] = a[p]
        /\ \A j \in 1..Len(v) : u[Len(a) + j] = v[j]
    <3>1. a \in Seq(Tokens) /\ v \in Seq(Tokens)
      BY <1>2, <1>3
    <3>2. u \in Seq(Tokens) /\ Len(v) \in Nat
      BY <3>1, ConcatAt
    <3>3. Len(u) = Len(a) + Len(v)
      BY <3>1, ConcatAt
    <3>4. \A p \in 1..Len(a) : u[p] = a[p]
      BY <3>1, ConcatAt
    <3>5. \A j \in 1..Len(v) : u[Len(a) + j] = v[j]
      BY <3>1, ConcatAt
    <3>6. QED BY <3>2, <3>3, <3>4, <3>5
  <2>2. 1 \in 1..Len(a) /\ 2 \in 1..Len(a)
    BY <1>3
  <2>3. QED BY <1>3, <2>1, <2>2
<1> HIDE DEF u
<1> DEFINE b == u \o z
<1>5. /\ b \in Seq(Tokens) /\ Len(b) = (2 + Len(v)) + 1
      /\ \A p \in 1..(2 + Len(v)) : b[p] = u[p]
      /\ b[(2 + Len(v)) + 1] = Nul
  <2>1. 1 \in 1..Len(z)
    BY <1>3
  <2>2. u \in Seq(Tokens) /\ z \in Seq(Tokens)
    BY <1>3, <1>4
  <2>3. b \in Seq(Tokens) /\ Len(b) = Len(u) + Len(z)
    BY <2>2, ConcatAt
  <2>4. \A p \in 1..Len(u) : b[p] = u[p]
    BY <2>2, ConcatFirst
  <2>5. b[Len(u) + 1] = z[1]
    BY <2>1, <2>2, ConcatSecond
  <2> HIDE DEF b
  <2>6. QED BY <1>3, <1>4, <2>3, <2>4, <2>5
<1>6. b = FieldBytes(field)
  BY DEF FieldBytes, u, v, a, z
<1> HIDE DEF b
<1>7. (2 + Len(v)) + 1 = 3 + Len(v) /\ 1 \in 1..(2 + Len(v)) /\ 2 \in 1..(2 + Len(v))
  BY <1>4
<1>8. \A j \in 1..Len(v) : b[2 + j] = v[j]
  <2>1. ASSUME NEW j \in 1..Len(v) PROVE b[2 + j] = v[j]
    <3>1. 2 + j \in 1..(2 + Len(v))
      BY <1>4
    <3>2. QED BY <3>1, <1>4, <1>5
  <2>2. QED BY <2>1
<1>9. QED BY <1>1, <1>4, <1>5, <1>6, <1>7, <1>8 DEF v

(* The bytes of a list of fields: field k begins behind at[k].  A field is *)
(* its name, its value, and a null byte behind each; the next field begins *)
(* where it ends, and there is nothing but fields.                         *)
Behind(s, at, k) == at[k] + 3 + Len(s[k].value)

Placed(c, s, at) ==
    /\ c \in Seq(Tokens)
    /\ \A k \in 1..Len(s) :
        /\ at[k] \in Nat /\ Behind(s, at, k) <= Len(c)
        /\ c[at[k] + 1] = s[k].key /\ c[at[k] + 2] = Nul
        /\ \A j \in 1..Len(s[k].value) : c[at[k] + 2 + j] = s[k].value[j]
        /\ c[Behind(s, at, k)] = Nul
        /\ at[k] = 0 \/ \E l \in 1..Len(s) : Behind(s, at, l) = at[k]
        /\ Behind(s, at, k) = Len(c) \/ \E l \in 1..Len(s) : at[l] = Behind(s, at, k)
    /\ Len(c) # 0 => \E k \in 1..Len(s) : at[k] = 0
    /\ \A p \in 1..Len(c) : \E k \in 1..Len(s) : p \in (at[k] + 1)..Behind(s, at, k)

FieldsOf(s) == FlattenSeq([k \in DOMAIN s |-> FieldBytes(s[k])])

LEMMA SectionPlaced ==
    ASSUME NEW s \in Sections
    PROVE  \E at : Placed(FieldsOf(s), s, at)
<1> DEFINE n == Len(s)
           seqs == [k \in DOMAIN s |-> FieldBytes(s[k])]
           c == FlattenSeq(seqs)
<1>1. n \in Nat /\ DOMAIN s = 1..n /\ \A k \in 1..n : s[k] \in FieldsWritten
  BY SectionsAreWritten
<1>2. \A k \in 1..n : FieldBytes(s[k]) \in Seq(Tokens)
  BY <1>1, FieldLayout
<1>3. seqs \in Seq(Seq(Tokens)) /\ Len(seqs) = n /\ \A k \in 1..n : seqs[k] = FieldBytes(s[k])
  <2>1. seqs \in [1..n -> Seq(Tokens)]
    BY <1>1, <1>2
  <2> HIDE DEF seqs, n
  <2>2. seqs \in Seq(Seq(Tokens)) /\ Len(seqs) = n
    BY <1>1, <2>1
  <2> USE DEF seqs
  <2>3. \A k \in 1..n : seqs[k] = FieldBytes(s[k])
    BY <1>1
  <2>4. QED BY <2>2, <2>3
<1> HIDE DEF seqs
<1>4. PICK f : c \in Seq(Tokens) /\ Laid(c, f, seqs, Len(seqs))
  BY <1>3, FlattenIsLaid
<1> DEFINE at == [k \in 1..n |-> At(f, k)]
<1>5. c = FieldsOf(s)
  BY DEF FieldsOf, seqs
<1> HIDE DEF c, n
<1>6. Len(c) \in Nat /\ Len(c) = At(f, n + 1)
  BY <1>3, <1>4 DEF Laid
<1>7. \A k \in 1..n :
        /\ At(f, k) \in Nat
        /\ At(f, k + 1) = At(f, k) + Len(seqs[k])
        /\ At(f, k + 1) <= Len(c)
        /\ \A j \in 1..Len(seqs[k]) : c[At(f, k) + j] = seqs[k][j]
  BY <1>3, <1>4 DEF Laid
<1>8. \A p \in 1..Len(c) : \E k \in 1..n : p - At(f, k) \in 1..Len(seqs[k])
  BY <1>3, <1>4 DEF Laid
<1>9. \A k \in 1..n : at[k] = At(f, k)
  OBVIOUS
<1> HIDE DEF at
<1>10. ASSUME NEW k \in 1..n
       PROVE  /\ at[k] \in Nat /\ Len(s[k].value) \in Nat
              /\ Behind(s, at, k) = at[k] + 3 + Len(s[k].value)
              /\ Behind(s, at, k) = At(f, k + 1) /\ Behind(s, at, k) <= Len(c)
              /\ Len(seqs[k]) = 3 + Len(s[k].value)
              /\ c[at[k] + 1] = s[k].key /\ c[at[k] + 2] = Nul
              /\ \A j \in 1..Len(s[k].value) : c[at[k] + 2 + j] = s[k].value[j]
              /\ c[Behind(s, at, k)] = Nul
  <2> DEFINE v == s[k].value
             b == seqs[k]
  <2>1. s[k] \in FieldsWritten /\ b = FieldBytes(s[k])
    BY <1>1, <1>3
  <2>2. /\ Len(v) \in Nat /\ Len(b) = 3 + Len(v)
        /\ b[1] = s[k].key /\ b[2] = Nul /\ b[3 + Len(v)] = Nul
        /\ \A j \in 1..Len(v) : b[2 + j] = v[j]
    BY <2>1, FieldLayout
  <2>3. /\ at[k] \in Nat /\ at[k] = At(f, k)
        /\ At(f, k + 1) = at[k] + Len(b) /\ At(f, k + 1) <= Len(c)
        /\ \A j \in 1..Len(b) : c[at[k] + j] = b[j]
    BY <1>7, <1>9
  <2> HIDE DEF v, b
  <2>4. Behind(s, at, k) = at[k] + 3 + Len(v)
    BY DEF Behind, v
  <2>5. at[k] + 3 + Len(v) = at[k] + (3 + Len(v))
    BY <2>2, <2>3
  <2>6. 1 \in 1..Len(b) /\ 2 \in 1..Len(b) /\ 3 + Len(v) \in 1..Len(b)
    BY <2>2
  <2>7. ASSUME NEW j \in 1..Len(v) PROVE c[at[k] + 2 + j] = v[j]
    <3>1. 2 + j \in 1..Len(b) /\ at[k] + 2 + j = at[k] + (2 + j)
      BY <2>2, <2>3
    <3>2. QED BY <2>2, <2>3, <3>1
  <2>8. c[at[k] + 1] = s[k].key /\ c[at[k] + 2] = Nul
    BY <2>2, <2>3, <2>6
  <2>9. c[Behind(s, at, k)] = Nul
    BY <2>2, <2>3, <2>4, <2>5, <2>6
  <2>10. Behind(s, at, k) = At(f, k + 1)
    BY <2>2, <2>3, <2>4, <2>5
  <2>11. QED BY <2>2, <2>3, <2>4, <2>7, <2>8, <2>9, <2>10 DEF v, b
<1>11. ASSUME NEW k \in 1..n
       PROVE  Behind(s, at, k) = Len(c) \/ \E l \in 1..n : at[l] = Behind(s, at, k)
  <2>1. CASE k = n
    BY <2>1, <1>6, <1>10
  <2>2. CASE k # n
    <3>1. k + 1 \in 1..n
      BY <1>1, <2>2
    <3>2. at[k + 1] = Behind(s, at, k)
      BY <3>1, <1>9, <1>10
    <3>3. QED BY <3>1, <3>2
  <2>3. QED BY <2>1, <2>2
<1>12. ASSUME NEW k \in 1..n
       PROVE  at[k] = 0 \/ \E l \in 1..n : Behind(s, at, l) = at[k]
  <2>1. CASE k = 1
    BY <2>1, <1>9 DEF At
  <2>2. CASE k # 1
    <3>1. k - 1 \in 1..n /\ (k - 1) + 1 = k
      BY <1>1, <2>2
    <3>2. Behind(s, at, k - 1) = at[k]
      BY <3>1, <1>9, <1>10
    <3>3. QED BY <3>1, <3>2
  <2>3. QED BY <2>1, <2>2
<1>13. ASSUME Len(c) # 0 PROVE \E k \in 1..n : at[k] = 0
  <2>1. At(f, 1) = 0
    BY DEF At
  <2>2. n # 0
    BY <1>6, <1>13, <2>1
  <2>3. 1 \in 1..n
    BY <1>1, <2>2
  <2>4. QED BY <2>1, <2>3, <1>9
<1>14. ASSUME NEW p \in 1..Len(c)
       PROVE  \E k \in 1..n : p \in (at[k] + 1)..Behind(s, at, k)
  <2>1. PICK k \in 1..n : p - At(f, k) \in 1..Len(seqs[k])
    BY <1>8
  <2>2. /\ at[k] \in Nat /\ Len(s[k].value) \in Nat /\ at[k] = At(f, k)
        /\ Behind(s, at, k) = at[k] + 3 + Len(s[k].value)
        /\ Len(seqs[k]) = 3 + Len(s[k].value)
    BY <1>9, <1>10
  <2> DEFINE a == at[k]
             v == Len(s[k].value)
             e == Behind(s, at, k)
             l == Len(c)
  <2>3. /\ a \in Nat /\ v \in Nat /\ e = a + 3 + v
        /\ p \in 1..l /\ l \in Nat /\ p - a \in 1..(3 + v)
    BY <2>1, <2>2, <1>6
  <2> HIDE DEF a, v, e, l
  <2>4. p \in (a + 1)..e
    BY <2>3
  <2>5. p \in (at[k] + 1)..Behind(s, at, k)
    BY <2>4 DEF a, e
  <2>6. QED BY <2>5
<1>15. Placed(c, s, at)
  <2>1. Len(s) = n
    BY DEF n
  <2>2. ASSUME NEW k \in 1..n
        PROVE /\ at[k] \in Nat /\ Behind(s, at, k) <= Len(c)
              /\ c[at[k] + 1] = s[k].key /\ c[at[k] + 2] = Nul
              /\ \A j \in 1..Len(s[k].value) : c[at[k] + 2 + j] = s[k].value[j]
              /\ c[Behind(s, at, k)] = Nul
              /\ at[k] = 0 \/ \E l \in 1..n : Behind(s, at, l) = at[k]
              /\ Behind(s, at, k) = Len(c) \/ \E l \in 1..n : at[l] = Behind(s, at, k)
    BY <1>10, <1>11, <1>12
  <2>3. QED BY <1>4, <1>13, <1>14, <2>1, <2>2, Zenon DEF Placed
<1>16. QED BY <1>5, <1>15

(* data.find finds the first place, if there is one.                       *)
First(c, token, from, i) ==
    /\ from \in Nat /\ Len(c) \in Nat /\ i \in from..Len(c) /\ c[i] = token
    /\ \A j \in from..(i - 1) : c[j] # token

LEMMA FindFirst ==
    ASSUME NEW c, NEW token, NEW from, NEW i, First(c, token, from, i)
    PROVE  Find(c, token, from) = i
<1> DEFINE I == {j \in from..Len(c) : c[j] = token}
<1>1. i \in I /\ \A j \in I : j \in Int /\ i <= j
  BY DEF First
<1>2. Min(I) = i
  <2> HIDE DEF I
  <2>1. \A x \in I : (\A y \in I : x <= y) => x = i
    BY <1>1
  <2>2. QED BY <1>1, <2>1 DEF Min
<1>3. Find(c, token, from) = IF I # {} THEN Min(I) ELSE 0
  BY DEF Find, SelectInSubSeq
<1> HIDE DEF I
<1>4. QED BY <1>1, <1>2, <1>3

LEMMA FindNone ==
    ASSUME NEW c, NEW token, NEW from, \A j \in from..Len(c) : c[j] # token
    PROVE  Find(c, token, from) = 0
BY DEF Find, SelectInSubSeq

----------------------------------------------------------------------------
LEMMA SubSeqOne ==
    ASSUME NEW T, NEW c \in Seq(T), NEW i \in 1..Len(c)
    PROVE  SubSeq(c, i, i) = <<c[i]>>
<1> DEFINE w == SubSeq(c, i, i)
           z == <<c[i]>>
<1>1. w \in Seq(T) /\ Len(w) = 1 /\ w[1] = c[i]
  BY SubSeqProperties
<1>2. z \in Seq(T) /\ Len(z) = 1 /\ z[1] = c[i]
  OBVIOUS
<1> HIDE DEF w, z
<1>3. w = z
  BY <1>1, <1>2, SeqEqual
<1>4. QED BY <1>3 DEF w, z

(* What is read in a section, for any places its fields are at.            *)
LEMMA PlacedField ==
    ASSUME NEW s \in Sections, NEW c, NEW at, Placed(c, s, at), NEW k \in 1..Len(s)
    PROVE  /\ Len(c) \in Nat /\ at[k] \in Nat
           /\ s[k].key \in KnownKeys \cup {OtherKey} /\ s[k].value \in Seq(Words)
           /\ Len(s[k].value) \in Nat
           /\ Behind(s, at, k) = at[k] + 3 + Len(s[k].value) /\ Behind(s, at, k) <= Len(c)
           /\ c[at[k] + 1] = s[k].key /\ c[at[k] + 2] = Nul /\ c[Behind(s, at, k)] = Nul
           /\ \A j \in 1..Len(s[k].value) : c[at[k] + 2 + j] = s[k].value[j]
<1>1. s[k] \in FieldsWritten
  BY SectionsAreWritten
<1>2. s[k].key \in KnownKeys \cup {OtherKey}
  BY <1>1 DEF FieldsWritten
<1>3. s[k].value \in Seq(Words) /\ Len(s[k].value) \in Nat
  BY <1>1, FieldLayout
<1>4. Len(c) \in Nat
  BY DEF Placed
<1>5. /\ at[k] \in Nat /\ Behind(s, at, k) <= Len(c)
      /\ c[at[k] + 1] = s[k].key /\ c[at[k] + 2] = Nul
      /\ \A j \in 1..Len(s[k].value) : c[at[k] + 2 + j] = s[k].value[j]
      /\ c[Behind(s, at, k)] = Nul
  BY DEF Placed
<1>6. QED BY <1>2, <1>3, <1>4, <1>5 DEF Behind

(* A byte is in a name, in a value, or the null byte behind one.           *)
LEMMA PlacedByte ==
    ASSUME NEW s \in Sections, NEW c, NEW at, Placed(c, s, at), NEW p \in 1..Len(c)
    PROVE  \/ /\ c[p] = Nul
              /\ \E k \in 1..Len(s) : p \in {at[k] + 2, Behind(s, at, k)}
           \/ /\ c[p] \in Words
              /\ \E k \in 1..Len(s) :
                    \/ c[p] = s[k].key
                    \/ \E j \in 1..Len(s[k].value) : c[p] = s[k].value[j]
<1>1. PICK k \in 1..Len(s) : p \in (at[k] + 1)..Behind(s, at, k)
  BY DEF Placed
<1> DEFINE v == s[k].value
<1>2. /\ at[k] \in Nat /\ v \in Seq(Words) /\ Len(v) \in Nat
      /\ s[k].key \in KnownKeys \cup {OtherKey}
      /\ Behind(s, at, k) = at[k] + 3 + Len(v)
      /\ c[at[k] + 1] = s[k].key /\ c[at[k] + 2] = Nul /\ c[Behind(s, at, k)] = Nul
      /\ \A j \in 1..Len(v) : c[at[k] + 2 + j] = v[j]
  BY PlacedField
<1>3. s[k].key \in Words
  BY <1>2 DEF Words
<1>4. \A j \in 1..Len(v) : v[j] \in Words
  BY <1>2
<1>5. CASE p = at[k] + 1
  BY <1>5, <1>2, <1>3
<1>6. CASE p \in {at[k] + 2, Behind(s, at, k)}
  BY <1>6, <1>2
<1>7. CASE p \notin {at[k] + 1, at[k] + 2, Behind(s, at, k)}
  <2> DEFINE j == p - (at[k] + 2)
             a == at[k]
             n == Len(v)
             e == Behind(s, at, k)
  <2>1. /\ a \in Nat /\ n \in Nat /\ e = a + 3 + n
        /\ p \in (a + 1)..e /\ p \notin {a + 1, a + 2, e}
    BY <1>1, <1>2, <1>7
  <2> HIDE DEF a, n, e
  <2>2. p - (a + 2) \in 1..n /\ p = a + 2 + (p - (a + 2))
    BY <2>1
  <2> USE DEF a, n, e
  <2>3. j \in 1..Len(v) /\ p = at[k] + 2 + j
    BY <2>2
  <2>4. c[p] = v[j] /\ v[j] \in Words
    BY <1>2, <1>4, <2>3
  <2> HIDE DEF j
  <2>5. QED BY <2>3, <2>4
<1>8. QED BY <1>5, <1>6, <1>7

(* A segment starts at a name or at a value.                               *)
LEMMA StartsPlaced ==
    ASSUME NEW s \in Sections, NEW c, NEW at, Placed(c, s, at)
    PROVE  \A p : p \in Starts(c) <=> \E k \in 1..Len(s) : p \in {at[k], at[k] + 2}
<1>1. Len(c) \in Nat /\ DOMAIN c = 1..Len(c)
  BY DEF Placed
<1> DEFINE n == Len(c)
<1>2. ASSUME NEW p, p \in Starts(c) PROVE \E k \in 1..Len(s) : p \in {at[k], at[k] + 2}
  <2>1. p < Len(c) /\ (p = 0 \/ (p \in 1..Len(c) /\ c[p] = Nul))
    <3>1. p \in {0} \cup {q \in DOMAIN c : c[q] = Nul} /\ p < Len(c)
      BY <1>2, Zenon DEF Starts
    <3>2. p = 0 \/ (p \in 1..Len(c) /\ c[p] = Nul)
      BY <1>1, <3>1, Zenon
    <3>3. QED BY <3>1, <3>2, Zenon
  <2>2. CASE p = 0
    <3>1. Len(c) # 0
      BY <2>1, <2>2
    <3>2. QED BY <2>2, <3>1 DEF Placed
  <2>3. CASE p \in 1..Len(c) /\ c[p] = Nul
    <3>1. PICK k \in 1..Len(s) : p \in {at[k] + 2, Behind(s, at, k)}
      BY <2>3, PlacedByte, WordsAreNoMarks
    <3>2. CASE p = Behind(s, at, k)
      <4>1. p # n
        <5>1. p < n /\ p \in 1..n /\ n \in Nat
          BY <1>1, <2>1, <2>3
        <5> HIDE DEF n
        <5>2. QED BY <5>1
      <4>2. PICK l \in 1..Len(s) : at[l] = p
        BY <3>2, <4>1 DEF Placed
      <4>3. QED BY <4>2
    <3>3. QED BY <3>1, <3>2
  <2>4. QED BY <2>1, <2>2, <2>3
<1>3. ASSUME NEW k \in 1..Len(s) PROVE at[k] \in Starts(c) /\ at[k] + 2 \in Starts(c)
  <2>1. /\ at[k] \in Nat /\ Len(s[k].value) \in Nat
        /\ Behind(s, at, k) = at[k] + 3 + Len(s[k].value) /\ Behind(s, at, k) <= Len(c)
        /\ c[at[k] + 2] = Nul
    BY PlacedField
  <2> DEFINE a == at[k]
             v == Len(s[k].value)
             e == Behind(s, at, k)
  <2>2. a \in Nat /\ v \in Nat /\ n \in Nat /\ e = a + 3 + v /\ e <= n
    BY <1>1, <2>1
  <2> HIDE DEF a, v, e, n
  <2>3. a + 2 \in 1..n /\ a + 2 < n /\ a < n
    BY <2>2
  <2>4. at[k] + 2 \in 1..Len(c) /\ at[k] + 2 < Len(c) /\ at[k] < Len(c)
    BY <2>3 DEF a, n
  <2>5. at[k] = 0 \/ (at[k] \in 1..Len(c) /\ c[at[k]] = Nul)
    <3>1. CASE at[k] # 0
      <4>1. PICK l \in 1..Len(s) : Behind(s, at, l) = at[k]
        BY <3>1 DEF Placed
      <4>2. c[Behind(s, at, l)] = Nul
        BY PlacedField
      <4>3. at[k] \in 1..Len(c)
        BY <1>1, <2>1, <2>4, <3>1
      <4>4. QED BY <4>1, <4>2, <4>3
    <3>2. QED BY <3>1, Zenon
  <2>6. QED BY <1>1, <2>1, <2>4, <2>5 DEF Starts
<1>4. QED BY <1>2, <1>3

(* A name ends at its null byte, and so does a value.                      *)
LEMMA NamePlaced ==
    ASSUME NEW s \in Sections, NEW c, NEW at, Placed(c, s, at), NEW k \in 1..Len(s)
    PROVE  EndOf(c, at[k]) = at[k] + 2 /\ Part(c, at[k]) = <<s[k].key>>
<1> DEFINE a == at[k]
           v == Len(s[k].value)
           e == Behind(s, at, k)
           key == s[k].key
<1>1. /\ Len(c) \in Nat /\ a \in Nat /\ v \in Nat /\ key \in KnownKeys \cup {OtherKey}
      /\ e = a + 3 + v /\ e <= Len(c)
      /\ c[a + 1] = key /\ c[a + 2] = Nul
  BY PlacedField
<1> HIDE DEF a, v, e, key
<1>2. key # Nul
  BY <1>1, WordsAreNoMarks DEF Words
<1>3. a + 1 \in Nat /\ a + 1 \in 1..Len(c) /\ a + 2 \in (a + 1)..Len(c) /\ (a + 2) - 1 = a + 1
  BY <1>1
<1>4. Find(c, Nul, a + 1) = a + 2
  <2>1. \A j \in (a + 1)..((a + 2) - 1) : c[j] # Nul
    BY <1>1, <1>2
  <2>2. First(c, Nul, a + 1, a + 2)
    BY <1>1, <1>3, <2>1 DEF First
  <2>3. QED BY <2>2, FindFirst
<1>5. EndOf(c, a) = a + 2
  BY <1>1, <1>4 DEF EndOf
<1>6. SubSeq(c, a + 1, a + 1) = <<key>>
  <2>1. c \in Seq(Tokens)
    BY DEF Placed
  <2>2. SubSeq(c, a + 1, a + 1) = <<c[a + 1]>>
    BY <1>3, <2>1, SubSeqOne
  <2>3. QED BY <1>1, <2>2
<1>7. QED BY <1>3, <1>5, <1>6 DEF Part, a, key

LEMMA ValuePlaced ==
    ASSUME NEW s \in Sections, NEW c, NEW at, Placed(c, s, at), NEW k \in 1..Len(s)
    PROVE  Part(c, at[k] + 2) = s[k].value
<1> DEFINE v == s[k].value
           a == at[k]
           e == Behind(s, at, k)
<1>1. /\ Len(c) \in Nat /\ a \in Nat /\ v \in Seq(Words) /\ Len(v) \in Nat
      /\ e = a + 3 + Len(v) /\ e <= Len(c)
      /\ c[e] = Nul
      /\ \A j \in 1..Len(v) : c[a + 2 + j] = v[j]
  <2>1. \A j \in 1..Len(v) : c[a + 2 + j] = v[j]
    BY PlacedField
  <2>2. Len(c) \in Nat /\ a \in Nat /\ v \in Seq(Words) /\ Len(v) \in Nat
    BY PlacedField
  <2>3. e = a + 3 + Len(v) /\ e <= Len(c) /\ c[e] = Nul
    BY PlacedField
  <2>4. QED BY <2>1, <2>2, <2>3
<1>2. c \in Seq(Tokens)
  BY DEF Placed
<1> HIDE DEF v, a, e
<1>3. Find(c, Nul, a + 2 + 1) = e
  <2>1. e \in (a + 2 + 1)..Len(c) /\ a + 2 + 1 \in Nat
    BY <1>1
  <2>2. ASSUME NEW j \in (a + 2 + 1)..(e - 1) PROVE c[j] # Nul
    <3>1. j - (a + 2) \in 1..Len(v) /\ j = a + 2 + (j - (a + 2))
      BY <1>1
    <3>2. c[j] = v[j - (a + 2)]
      BY <1>1, <3>1
    <3>3. QED BY <1>1, <3>1, <3>2, WordsAreNoMarks
  <2>3. First(c, Nul, a + 2 + 1, e)
    BY <1>1, <2>1, <2>2 DEF First
  <2>4. QED BY <2>3, FindFirst
<1>4. EndOf(c, a + 2) = e
  BY <1>1, <1>3 DEF EndOf
<1> DEFINE w == SubSeq(c, a + 2 + 1, e - 1)
<1>5. w \in Seq(Tokens) /\ Len(w) = Len(v)
      /\ \A j \in 1..Len(v) : w[j] = c[a + 2 + 1 + j - 1]
  <2>1. a + 2 + 1 \in 1..(Len(c) + 1) /\ e - 1 \in (a + 2)..Len(c) /\ e - 1 \in Int
    BY <1>1
  <2>2. (e - 1) - (a + 2 + 1) + 1 = Len(v)
    BY <1>1
  <2>3. QED BY <1>1, <1>2, <2>1, <2>2
<1>6. ASSUME NEW j \in 1..Len(v) PROVE w[j] = v[j]
  <2>1. a + 2 + 1 + j - 1 = a + 2 + j
    BY <1>1
  <2>2. QED BY <1>1, <1>5, <2>1
<1>7. w = v
  <2>1. v \in Seq(Words) /\ Words \subseteq Tokens
    BY <1>1 DEF Tokens
  <2>2. v \in Seq(Tokens)
    BY <2>1
  <2> HIDE DEF w
  <2>3. QED BY <1>1, <1>5, <1>6, <2>2, SeqEqual
<1>8. QED BY <1>4, <1>7 DEF Part, v, a

(* A field is found at its name, if no value is a name.                    *)
LEMMA PlacesPlaced ==
    ASSUME NEW s \in Sections, NEW c, NEW at, Placed(c, s, at), Unambiguous(s),
           NEW key \in KnownKeys
    PROVE  \A p : p \in PlacesOf(c, key) <=> \E k \in 1..Len(s) : p = at[k] /\ s[k].key = key
<1>1. DOMAIN s = 1..Len(s)
  BY SectionsAreWritten
<1>2. ASSUME NEW p, p \in PlacesOf(c, key)
      PROVE  \E k \in 1..Len(s) : p = at[k] /\ s[k].key = key
  <2>1. p \in Starts(c) /\ Part(c, p) = <<key>>
    BY <1>2 DEF PlacesOf
  <2>2. PICK k \in 1..Len(s) : p \in {at[k], at[k] + 2}
    BY <2>1, StartsPlaced
  <2>3. CASE p = at[k]
    <3>1. <<s[k].key>> = <<key>>
      BY <2>1, <2>3, NamePlaced
    <3>2. s[k].key = key
      BY <3>1
    <3>3. QED BY <2>3, <3>2
  <2>4. CASE p = at[k] + 2
    <3>1. s[k].value = <<key>>
      BY <2>1, <2>4, ValuePlaced
    <3>2. s[k].value \notin {<<x>> : x \in KnownKeys}
      BY <1>1, Zenon DEF Unambiguous
    <3>3. QED BY <3>1, <3>2
  <2>5. QED BY <2>2, <2>3, <2>4
<1>3. ASSUME NEW k \in 1..Len(s), s[k].key = key PROVE at[k] \in PlacesOf(c, key)
  <2>1. at[k] \in Starts(c) /\ at[k] + 2 \in Starts(c)
    BY StartsPlaced
  <2>2. EndOf(c, at[k]) = at[k] + 2 /\ Part(c, at[k]) = <<s[k].key>>
    BY NamePlaced
  <2>3. QED BY <1>3, <2>1, <2>2 DEF PlacesOf
<1>4. QED BY <1>2, <1>3

(* The fields that are read are those that were written.                   *)
LEMMA FieldsPlaced ==
    ASSUME NEW s \in Sections, NEW c, NEW at, Placed(c, s, at), Unambiguous(s)
    PROVE  Fields(c) = [key \in KeysOf(s) \cap KnownKeys |-> FieldOf(s, key)]
<1>1. DOMAIN s = 1..Len(s)
  BY SectionsAreWritten
<1>2. {k \in KnownKeys : PlacesOf(c, k) # {}} = KeysOf(s) \cap KnownKeys
  <2>1. ASSUME NEW key \in KnownKeys PROVE PlacesOf(c, key) # {} <=> key \in KeysOf(s)
    <3>1. PlacesOf(c, key) # {} <=> \E k \in 1..Len(s) : s[k].key = key
      <4>1. \A p : p \in PlacesOf(c, key) <=> \E k \in 1..Len(s) : p = at[k] /\ s[k].key = key
        BY PlacesPlaced
      <4>2. QED BY <4>1, Zenon
    <3>2. key \in KeysOf(s) <=> \E k \in 1..Len(s) : s[k].key = key
      BY <1>1 DEF KeysOf
    <3>3. QED BY <3>1, <3>2
  <2>2. QED BY <2>1
<1>3. ASSUME NEW key \in KeysOf(s) \cap KnownKeys
      PROVE  Part(c, EndOf(c, Max(PlacesOf(c, key)))) = FieldOf(s, key)
  <2>1. PICK k \in 1..Len(s) : s[k].key = key
    BY <1>1 DEF KeysOf
  <2>2. \A l \in 1..Len(s) : s[l].key = key => l = k
    BY <1>1, <2>1 DEF Unambiguous
  <2>3. PlacesOf(c, key) = {at[k]}
    BY <2>1, <2>2, PlacesPlaced
  <2>4. at[k] \in Nat
    BY PlacedField
  <2>5. Max({at[k]}) = at[k]
    BY <2>4 DEF Max
  <2>6. Part(c, EndOf(c, at[k])) = s[k].value
    BY NamePlaced, ValuePlaced
  <2>7. (CHOOSE l \in DOMAIN s : s[l].key = key) = k
    BY <1>1, <2>1, <2>2
  <2>8. FieldOf(s, key) = s[k].value
    BY <2>7 DEF FieldOf
  <2>9. QED BY <2>3, <2>5, <2>6, <2>8
<1>4. QED BY <1>2, <1>3 DEF Fields

LEMMA DecodablePlaced ==
    ASSUME NEW s \in Sections, NEW c, NEW at, Placed(c, s, at)
    PROVE  Decodable(c) <=> ~ \E k \in DOMAIN s : s[k].value = <<Undecodable>>
<1>1. DOMAIN s = 1..Len(s) /\ \A k \in 1..Len(s) : s[k] \in FieldsWritten
  BY SectionsAreWritten
<1>2. DOMAIN c = 1..Len(c)
  BY DEF Placed
<1>3. ASSUME NEW k \in 1..Len(s), s[k].value = <<Undecodable>> PROVE Undecodable \in ToSet(c)
  <2>1. /\ Len(c) \in Nat /\ at[k] \in Nat /\ Len(s[k].value) \in Nat
        /\ Behind(s, at, k) = at[k] + 3 + Len(s[k].value) /\ Behind(s, at, k) <= Len(c)
        /\ \A j \in 1..Len(s[k].value) : c[at[k] + 2 + j] = s[k].value[j]
    BY PlacedField
  <2>2. Len(s[k].value) = 1 /\ s[k].value[1] = Undecodable
    BY <1>3
  <2>3. at[k] + 2 + 1 \in 1..Len(c)
    BY <2>1, <2>2
  <2>4. c[at[k] + 2 + 1] = Undecodable
    BY <2>1, <2>2
  <2>5. QED BY <1>2, <2>3, <2>4 DEF ToSet
<1>4. ASSUME Undecodable \in ToSet(c) PROVE \E k \in 1..Len(s) : s[k].value = <<Undecodable>>
  <2>1. PICK p \in 1..Len(c) : c[p] = Undecodable
    BY <1>2, <1>4 DEF ToSet
  <2>2. PICK k \in 1..Len(s) : \/ Undecodable = s[k].key
                               \/ \E j \in 1..Len(s[k].value) : Undecodable = s[k].value[j]
    BY <2>1, PlacedByte, WordsAreNoMarks
  <2>3. s[k].key # Undecodable /\ s[k].value \in Written
    BY <1>1, WordsAreNoMarks DEF FieldsWritten
  <2>4. PICK j \in 1..Len(s[k].value) : Undecodable = s[k].value[j]
    BY <2>2, <2>3
  <2>5. s[k].value # <<>>
    BY <2>4
  <2>6. PICK t \in Words : s[k].value = <<t>>
    BY <2>3, <2>5 DEF Written
  <2>7. j = 1 /\ t = Undecodable
    BY <2>4, <2>6
  <2>8. QED BY <2>6, <2>7
<1>5. QED BY <1>1, <1>3, <1>4 DEF Decodable

(* What is to be made of a section that is all there.                      *)
ReadAs(s, t) ==
    IF \E k \in DOMAIN s : s[k].value = <<Undecodable>>
    THEN t = Failed("UnicodeDecodeError")
    ELSE Unambiguous(s) =>
            t = IF RequiredFields \subseteq KeysOf(s)
                THEN Found([key \in KeysOf(s) \cap KnownKeys |-> FieldOf(s, key)])
                ELSE Failed("TypeError")

LEMMA ContentRead ==
    ASSUME NEW s \in Sections, NEW c, NEW at, Placed(c, s, at), NEW d,
           Find(d, Header, 1) # 0, FooterOf(d) # 0,
           SubSeq(d, Find(d, Header, 1) + 1, FooterOf(d) - 1) = c
    PROVE  ReadAs(s, parse_security_txt(d))
<1> DEFINE t == parse_security_txt(d)
<1>1. t = IF ~Decodable(c) THEN Failed("UnicodeDecodeError")
          ELSE IF ~(RequiredFields \subseteq DOMAIN Fields(c)) THEN Failed("TypeError")
          ELSE Found(Fields(c))
  BY DEF parse_security_txt
<1>2. SUFFICES ReadAs(s, t)
  OBVIOUS
<1> HIDE DEF t
<1> DEFINE Broken == \E k \in DOMAIN s : s[k].value = <<Undecodable>>
<1>3. Decodable(c) <=> ~Broken
  BY DecodablePlaced
<1>4. Broken /\ t = Failed("UnicodeDecodeError") => ReadAs(s, t)
  BY DEF ReadAs
<1>5. ~Broken /\ ~Unambiguous(s) => ReadAs(s, t)
  BY DEF ReadAs
<1>6. ~Broken /\ t = (IF RequiredFields \subseteq KeysOf(s)
                      THEN Found([key \in KeysOf(s) \cap KnownKeys |-> FieldOf(s, key)])
                      ELSE Failed("TypeError"))
        => ReadAs(s, t)
  BY DEF ReadAs
<1> HIDE DEF Broken
<1>7. CASE ~Decodable(c)
  <2>1. t = Failed("UnicodeDecodeError")
    BY <1>1, <1>7, Zenon
  <2>2. QED BY <1>7, <1>3, <1>4, <2>1, Zenon
<1>8. CASE Decodable(c) /\ ~Unambiguous(s)
  BY <1>8, <1>3, <1>5, Zenon
<1>9. CASE Decodable(c) /\ Unambiguous(s)
  <2> DEFINE F == [key \in KeysOf(s) \cap KnownKeys |-> FieldOf(s, key)]
  <2>1. Fields(c) = F
    BY <1>9, FieldsPlaced
  <2>2. RequiredFields \subseteq DOMAIN F <=> RequiredFields \subseteq KeysOf(s)
    BY DEF KnownKeys
  <2> HIDE DEF F
  <2>3. t = IF RequiredFields \subseteq KeysOf(s) THEN Found(F) ELSE Failed("TypeError")
    BY <1>1, <1>9, <2>1, <2>2
  <2>4. t = IF RequiredFields \subseteq KeysOf(s)
            THEN Found([key \in KeysOf(s) \cap KnownKeys |-> FieldOf(s, key)])
            ELSE Failed("TypeError")
    BY <2>3, Zenon DEF F
  <2>5. QED BY <1>9, <1>3, <1>6, <2>4, Zenon
<1>10. QED BY <1>7, <1>8, <1>9

LEMMA SubSeqAt ==
    ASSUME NEW T, NEW c \in Seq(T), NEW i \in 1..(Len(c) + 1), NEW j \in (i - 1)..Len(c)
    PROVE  /\ SubSeq(c, i, j) \in Seq(T)
           /\ Len(SubSeq(c, i, j)) = j - i + 1
           /\ \A q \in 1..(j - i + 1) : SubSeq(c, i, j)[q] = c[i + q - 1]
<1> DEFINE w == SubSeq(c, i, j)
<1>1. i \in Int /\ j \in Int /\ \A k \in i..j : c[k] \in T
  OBVIOUS
<1>2. w \in Seq(T)
  BY <1>1, SubSeqProperties
<1>3. Len(w) = IF i <= j THEN j - i + 1 ELSE 0
  BY <1>1, SubSeqProperties
<1>4. \A q \in 1..(j - i + 1) : w[q] = c[i + q - 1]
  BY <1>1, SubSeqProperties
<1>5. (IF i <= j THEN j - i + 1 ELSE 0) = j - i + 1
  BY <1>1
<1>6. QED BY <1>2, <1>3, <1>4, <1>5

(* The data of a program, and what of it a call reads.                     *)
Embedded(s) == <<Footer>> \o SectionOf(s)

LEMMA EmbeddedAt ==
    ASSUME NEW s \in Sections
    PROVE  \E at :
              LET c == FieldsOf(s)
                  b == Embedded(s)
              IN /\ Placed(c, s, at)
                 /\ c \in Seq(Tokens) /\ Len(c) \in Nat
                 /\ b \in Seq(Tokens) /\ Len(b) = Len(c) + 3
                 /\ b[1] = Footer /\ b[2] = Header /\ b[Len(c) + 3] = Footer
                 /\ \A p \in 1..Len(c) : b[2 + p] = c[p] /\ c[p] \notin {Header, Footer}
<1> DEFINE c == FieldsOf(s)
           h == <<Header>>
           z == <<Footer>>
           hc == h \o c
           hcz == hc \o z
           b == z \o hcz
<1>1. PICK at : Placed(c, s, at)
  BY SectionPlaced
<1>2. c \in Seq(Tokens)
  BY <1>1 DEF Placed
<1>3. Len(c) \in Nat
  BY <1>2
<1>4. /\ h \in Seq(Tokens) /\ Len(h) = 1 /\ h[1] = Header
      /\ z \in Seq(Tokens) /\ Len(z) = 1 /\ z[1] = Footer
  <2>1. Header \in Tokens /\ Footer \in Tokens
    BY DEF Tokens
  <2>2. QED BY <2>1
<1>5. ASSUME NEW p \in 1..Len(c) PROVE c[p] \notin {Header, Footer}
  BY <1>1, <1>5, PlacedByte, WordsAreNoMarks
<1>6. b = Embedded(s)
  BY DEF Embedded, SectionOf, FieldsOf
<1> HIDE DEF c, h, z
<1>7. hc \in Seq(Tokens) /\ Len(hc) = 1 + Len(c)
  <2>1. Len(hc) = Len(h) + Len(c) /\ hc \in Seq(Tokens)
    BY <1>2, <1>4, ConcatAt
  <2>2. QED BY <2>1, <1>4
<1>8. hc[1] = Header
  <2>1. \A p \in 1..Len(h) : hc[p] = h[p]
    BY <1>2, <1>4, ConcatAt
  <2>2. QED BY <2>1, <1>4
<1>9. \A p \in 1..Len(c) : hc[1 + p] = c[p]
  <2>1. \A p \in 1..Len(c) : hc[Len(h) + p] = c[p]
    BY <1>2, <1>4, ConcatSecond
  <2>2. QED BY <2>1, <1>4
<1> HIDE DEF hc
<1>10. hcz \in Seq(Tokens) /\ Len(hcz) = 2 + Len(c)
  <2>1. Len(hcz) = Len(hc) + Len(z) /\ hcz \in Seq(Tokens)
    BY <1>7, <1>4, ConcatAt
  <2>2. QED BY <2>1, <1>3, <1>4, <1>7
<1>11. \A p \in 1..(1 + Len(c)) : hcz[p] = hc[p]
  <2>1. \A p \in 1..Len(hc) : hcz[p] = hc[p]
    BY <1>7, <1>4, ConcatAt
  <2>2. QED BY <2>1, <1>7
<1>12. hcz[Len(c) + 2] = Footer
  <2>1. hcz[Len(hc) + 1] = z[1]
    <3>1. 1 \in 1..Len(z)
      BY <1>4
    <3>2. hc \in Seq(Tokens) /\ z \in Seq(Tokens)
      BY <1>7, <1>4
    <3>3. QED BY <3>1, <3>2, ConcatSecond
  <2>2. hcz[(1 + Len(c)) + 1] = Footer
    BY <2>1, <1>4, <1>7
  <2>3. (1 + Len(c)) + 1 = Len(c) + 2
    BY <1>3
  <2>4. QED BY <2>2, <2>3
<1> HIDE DEF hcz
<1>13. b \in Seq(Tokens) /\ Len(b) = Len(c) + 3
  <2>1. Len(b) = Len(z) + Len(hcz) /\ b \in Seq(Tokens)
    BY <1>10, <1>4, ConcatAt
  <2>2. QED BY <2>1, <1>3, <1>4, <1>10
<1>14. b[1] = Footer
  <2>1. hcz \in Seq(Tokens) /\ z \in Seq(Tokens) /\ 1 \in 1..Len(z)
    BY <1>10, <1>4
  <2>2. b[1] = z[1]
    BY <2>1, ConcatFirst
  <2>3. QED BY <2>2, <1>4
<1>15. \A j \in 1..(2 + Len(c)) : b[1 + j] = hcz[j]
  <2>1. \A j \in 1..Len(hcz) : b[Len(z) + j] = hcz[j]
    BY <1>10, <1>4, ConcatSecond
  <2>2. QED BY <2>1, <1>4, <1>10
<1> HIDE DEF b
<1>16. b[2] = Header
  <2>1. 1 \in 1..(2 + Len(c)) /\ 1 \in 1..(1 + Len(c)) /\ 1 + 1 = 2
    BY <1>3
  <2>2. QED BY <2>1, <1>8, <1>11, <1>15
<1>17. b[Len(c) + 3] = Footer
  <2>1. Len(c) + 2 \in 1..(2 + Len(c)) /\ 1 + (Len(c) + 2) = Len(c) + 3
    BY <1>3
  <2>2. b[1 + (Len(c) + 2)] = hcz[Len(c) + 2]
    BY <2>1, <1>15
  <2>3. QED BY <2>1, <2>2, <1>12
<1>18. ASSUME NEW p \in 1..Len(c) PROVE b[2 + p] = c[p]
  <2>1. 1 + p \in 1..(2 + Len(c)) /\ 1 + p \in 1..(1 + Len(c)) /\ 1 + (1 + p) = 2 + p
    BY <1>3
  <2>2. QED BY <2>1, <1>9, <1>11, <1>15
<1>19. QED BY <1>1, <1>2, <1>3, <1>5, <1>6, <1>13, <1>14, <1>16, <1>17, <1>18 DEF c

(* Found whole, a section is between its header and its footer.            *)
LEMMA SliceRead ==
    ASSUME NEW s \in Sections, NEW i \in 1..3,
           NEW j \in (Len(Embedded(s)) - 1)..Len(Embedded(s)),
           NEW d, d = SubSeq(Embedded(s), i, j), d # <<>>
    PROVE  IF ~({Header} \subseteq ToSet(d) /\ Last(d) = Footer)
           THEN parse_security_txt(d) = Failed("NoSecurityTxtFoundError")
           ELSE ReadAs(s, parse_security_txt(d))
<1> DEFINE c == FieldsOf(s)
           b == Embedded(s)
           n == Len(c)
           m == Len(d)
<1>1. PICK at :
        /\ Placed(c, s, at)
        /\ c \in Seq(Tokens) /\ n \in Nat
        /\ b \in Seq(Tokens) /\ Len(b) = n + 3
        /\ b[1] = Footer /\ b[2] = Header /\ b[n + 3] = Footer
        /\ \A p \in 1..n : b[2 + p] = c[p] /\ c[p] \notin {Header, Footer}
  BY EmbeddedAt
<1> HIDE DEF c, b, n, m
<1>2. d = SubSeq(b, i, j) /\ j \in {n + 2, n + 3} /\ j \in Int /\ i \in Int
  BY <1>1 DEF b
<1>3. d \in Seq(Tokens) /\ m \in Nat /\ DOMAIN d = 1..m
      /\ m = (IF i <= j THEN j - i + 1 ELSE 0)
      /\ \A q \in 1..(j - i + 1) : d[q] = b[i + q - 1]
  <2>1. \A k \in i..j : b[k] \in Tokens
    BY <1>1, <1>2
  <2>2. QED BY <1>2, <2>1, SubSeqProperties DEF m
<1>4. m = j - i + 1 /\ m # 0
  <2>1. m # 0
    BY <1>3 DEF m
  <2>2. QED BY <1>2, <1>3, <2>1
<1>5. \A q \in 1..m : d[q] = b[i + q - 1]
  BY <1>3, <1>4
<1>6. Header # Footer
  BY TokenAssumption
<1>7. CASE i = 3
  <2>1. ASSUME NEW q \in 1..m PROVE d[q] # Header
    <3>1. d[q] = b[2 + q]
      BY <1>5, <1>7, <1>3
    <3>2. CASE q \in 1..n
      BY <1>1, <3>1, <3>2
    <3>3. CASE q \notin 1..n
      <4>1. q = n + 1 /\ 2 + q = n + 3
        BY <1>1, <1>2, <1>3, <1>4, <1>7, <3>3
      <4>2. QED BY <1>1, <1>6, <3>1, <4>1
    <3>4. QED BY <3>2, <3>3
  <2>2. Find(d, Header, 1) = 0
    BY <2>1, FindNone DEF m
  <2>3. Header \notin ToSet(d)
    BY <1>3, <2>1 DEF ToSet
  <2>4. QED BY <2>2, <2>3 DEF parse_security_txt
<1>8. CASE i \in {1, 2}
  <2> DEFINE h == 3 - i
  <2>1. h \in Nat /\ h \in 1..m /\ i + h - 1 = 2 /\ h + 1 \in Nat /\ h \in 1..2
    BY <1>1, <1>2, <1>4, <1>8
  <2>2. d[h] = Header
    BY <1>1, <1>5, <2>1
  <2>3. ASSUME NEW q \in 1..(h - 1) PROVE d[q] # Header
    <3>1. i = 1 /\ h = 2 /\ q = 1
      BY <1>8, <2>1
    <3>2. q \in 1..m /\ i + q - 1 = 1
      BY <1>3, <2>1, <3>1
    <3>3. QED BY <1>1, <1>5, <1>6, <3>2
  <2>4. i + h = 3
    BY <1>8
  <2> HIDE DEF h
  <2>5. Find(d, Header, 1) = h
    <3>1. Len(d) \in Nat /\ h \in 1..Len(d) /\ 1 \in Nat
      BY <1>3, <2>1 DEF m
    <3>2. First(d, Header, 1, h)
      BY <3>1, <2>2, <2>3 DEF First
    <3>3. QED BY <3>2, FindFirst
  <2>6. Header \in ToSet(d)
    BY <1>3, <2>1, <2>2 DEF ToSet
  <2>7. \A p \in 1..n : h + p \in 1..m /\ d[h + p] = c[p] /\ c[p] # Footer
    <3>1. ASSUME NEW p \in 1..n PROVE h + p \in 1..m /\ d[h + p] = c[p] /\ c[p] # Footer
      <4>1. h + p \in 1..m /\ i + (h + p) - 1 = 2 + p
        BY <1>1, <1>2, <1>4, <2>1, <2>4
      <4>2. QED BY <1>1, <1>5, <4>1
    <3>2. QED BY <3>1
  <2>8. CASE j = n + 3
    <3>1. m = h + n + 1 /\ m \in (h + 1)..m /\ i + m - 1 = n + 3 /\ m \in 1..m
      BY <1>1, <1>4, <2>1, <2>8, <2>4
    <3>2. d[m] = Footer
      BY <1>1, <1>5, <3>1
    <3>3. ASSUME NEW q \in (h + 1)..(m - 1) PROVE d[q] # Footer
      <4>1. q - h \in 1..n /\ h + (q - h) = q
        BY <1>1, <2>1, <3>1
      <4>2. QED BY <2>7, <4>1
    <3>4. Find(d, Footer, h + 1) = m
      <4>1. Len(d) \in Nat /\ m \in (h + 1)..Len(d) /\ h + 1 \in Nat
        BY <1>3, <2>1, <3>1 DEF m
      <4>2. First(d, Footer, h + 1, m)
        BY <4>1, <3>2, <3>3 DEF First
      <4>3. QED BY <4>2, FindFirst
    <3>5. FooterOf(d) = m
      BY <2>5, <3>4 DEF FooterOf
    <3> DEFINE w == SubSeq(d, h + 1, m - 1)
    <3>6. w = c
      <4> DEFINE from == h + 1
                 to == m - 1
      <4>1. from \in 1..(m + 1) /\ to \in (from - 1)..m /\ to - from + 1 = n
        BY <1>1, <2>1, <3>1
      <4>2. w = SubSeq(d, from, to)
        OBVIOUS
      <4>3. \A q \in Int : from + q - 1 = h + q
        BY <2>1
      <4> HIDE DEF w, from, to
      <4>4. w \in Seq(Tokens) /\ Len(w) = n /\ \A q \in 1..n : w[q] = d[from + q - 1]
        <5>1. d \in Seq(Tokens) /\ from \in 1..(Len(d) + 1) /\ to \in (from - 1)..Len(d)
          BY <1>3, <4>1 DEF m
        <5>2. w \in Seq(Tokens) /\ Len(w) = to - from + 1
          BY <5>1, <4>2, SubSeqAt
        <5>3. \A q \in 1..(to - from + 1) : w[q] = d[from + q - 1]
          BY <5>1, <4>2, SubSeqAt
        <5>4. QED BY <5>2, <5>3, <4>1
      <4>5. ASSUME NEW q \in 1..n PROVE w[q] = c[q]
        <5>1. from + q - 1 = h + q
          BY <4>3
        <5>2. w[q] = d[h + q]
          BY <4>4, <5>1
        <5>3. QED BY <2>7, <5>2
      <4>6. QED BY <1>1, <4>4, <4>5, SeqEqual DEF n
    <3>7. ReadAs(s, parse_security_txt(d))
      <4>1. h # 0 /\ m # 0
        BY <1>4, <2>1
      <4>2. SubSeq(d, Find(d, Header, 1) + 1, FooterOf(d) - 1) = c
        BY <2>5, <3>5, <3>6
      <4>3. QED BY <1>1, <2>5, <3>5, <4>1, <4>2, ContentRead
    <3>8. Last(d) = Footer
      BY <3>2 DEF Last, m
    <3>9. QED BY <2>6, <3>7, <3>8
  <2>9. CASE j = n + 2
    <3>1. m = h + n
      BY <1>1, <1>4, <2>1, <2>9, <2>4
    <3>2. ASSUME NEW q \in (h + 1)..m PROVE d[q] # Footer
      <4>1. q - h \in 1..n /\ h + (q - h) = q
        BY <1>1, <2>1, <3>1
      <4>2. QED BY <2>7, <4>1
    <3>3. Find(d, Footer, h + 1) = 0
      BY <3>2, FindNone DEF m
    <3>4. FooterOf(d) = 0
      BY <2>5, <3>3 DEF FooterOf
    <3>5. d[m] # Footer
      <4>1. CASE n = 0
        <5>1. m = h
          BY <2>1, <3>1, <4>1
        <5>2. QED BY <1>6, <2>2, <5>1
      <4>2. CASE n # 0
        <5>1. m \in (h + 1)..m
          BY <1>1, <2>1, <3>1, <4>2
        <5>2. QED BY <3>2, <5>1
      <4>3. QED BY <4>1, <4>2
    <3>6. Last(d) # Footer
      BY <3>5 DEF Last, m
    <3>7. parse_security_txt(d) = Failed("NoSecurityTxtFoundError")
      BY <3>4 DEF parse_security_txt
    <3>8. QED BY <3>6, <3>7
  <2>10. QED BY <1>2, <2>8, <2>9
<1>9. QED BY <1>7, <1>8

SliceOf(d, s) ==
    \E i \in 1..3 : \E j \in (Len(Embedded(s)) - 1)..Len(Embedded(s)) :
        d = SubSeq(Embedded(s), i, j)

(* The invariant: the data is a slice of what a program embeds, and what   *)
(* is made of it is what parse_security_txt makes of it.                   *)
SectionInv ==
    /\ data # <<>> => section \in Sections /\ SliceOf(data, section)
    /\ out = "section_read" => data # <<>> /\ txt = parse_security_txt(data)

LEMMA SlicesAreSlices ==
    ASSUME NEW s \in Sections, NEW d \in Slices(Embedded(s))
    PROVE  SliceOf(d, s)
<1> DEFINE b == Embedded(s)
<1>1. b \in Seq(Tokens) /\ Len(b) \in Nat \ {0}
  <2>1. PICK n \in Nat : b \in Seq(Tokens) /\ Len(b) = n + 3
    BY EmbeddedAt
  <2>2. QED BY <2>1
<1> HIDE DEF b
<1>2. CASE d = b
  <2>1. SubSeq(b, 1, Len(b)) = b
    BY <1>1, SubSeqFull
  <2>2. 1 \in 1..3 /\ Len(b) \in (Len(b) - 1)..Len(b)
    BY <1>1
  <2>3. QED BY <1>2, <2>1, <2>2 DEF SliceOf, b
<1>3. CASE d # b
  <2>1. d \in {SubSeq(b, i, j) : i \in 1..3, j \in (Len(b) - 1)..Len(b)}
    BY <1>3 DEF Slices, b
  <2>2. PICK i \in 1..3, j \in (Len(b) - 1)..Len(b) : d = SubSeq(b, i, j)
    BY <2>1
  <2>3. QED BY <2>2 DEF SliceOf, b
<1>4. QED BY <1>2, <1>3

LEMMA SectionInit == Init => SectionInv
BY DEF Init, SectionInv

LEMMA SectionKept == SectionInv /\ [Next]_vars => SectionInv'
<1> SUFFICES ASSUME SectionInv, [Next]_vars PROVE SectionInv'
  OBVIOUS
<1>1. CASE Call
  <2>1. out' # "section_read" /\ UNCHANGED <<section, data>>
    BY <1>1 DEF Call
  <2>2. QED BY <2>1 DEF SectionInv
<1>2. CASE Answer
  <2>1. out' # "section_read"
    BY <1>2 DEF Answer, ParseRaw
  <2>2. \/ UNCHANGED <<section, data>>
        \/ \E s \in Sections : \E d \in Slices(Embedded(s)) : section' = s /\ data' = d
    BY <1>2 DEF Answer, Embedded
  <2>3. CASE UNCHANGED <<section, data>>
    BY <2>1, <2>3 DEF SectionInv
  <2>4. ASSUME NEW s \in Sections, NEW d \in Slices(Embedded(s)), section' = s, data' = d
        PROVE  SectionInv'
    <3>1. SliceOf(data', section')
      BY <2>4, SlicesAreSlices
    <3>2. QED BY <2>1, <2>4, <3>1 DEF SectionInv
  <2>5. QED BY <2>2, <2>3, <2>4
<1>3. CASE TransportFails
  <2>1. out' # "section_read" /\ UNCHANGED <<section, data>>
    BY <1>3 DEF TransportFails
  <2>2. QED BY <2>1 DEF SectionInv
<1>4. CASE ReadSecurityTxt
  <2>1. data # <<>> /\ UNCHANGED <<section, data>> /\ txt' = parse_security_txt(data)
    BY <1>4 DEF ReadSecurityTxt
  <2>2. QED BY <2>1 DEF SectionInv
<1>5. CASE UNCHANGED vars
  <2>1. UNCHANGED <<out, section, data, txt>>
    BY <1>5 DEF vars
  <2>2. QED BY <2>1 DEF SectionInv
<1>6. QED BY <1>1, <1>2, <1>3, <1>4, <1>5 DEF Next

LEMMA InvSection == SectionInv => SectionRead
<1> SUFFICES ASSUME SectionInv, out = "section_read"
             PROVE  IF ~({Header} \subseteq ToSet(data) /\ Last(data) = Footer)
                    THEN txt = Failed("NoSecurityTxtFoundError")
                    ELSE ReadAs(section, txt)
  BY DEF SectionRead, ReadAs
<1>1. /\ data # <<>> /\ txt = parse_security_txt(data)
      /\ section \in Sections /\ SliceOf(data, section)
  BY DEF SectionInv
<1>2. PICK i \in 1..3, j \in (Len(Embedded(section)) - 1)..Len(Embedded(section)) :
          data = SubSeq(Embedded(section), i, j)
  BY <1>1 DEF SliceOf
<1>3. QED BY <1>1, <1>2, SliceRead

(* A security.txt section is read as the program wrote it, whatever its    *)
(* fields: refused if it was cut or lacks a required field, never read in  *)
(* part.                                                                   *)
THEOREM SectionsAreRead == Spec => []SectionRead
<1>1. Spec => []SectionInv
  BY SectionInit, SectionKept, PTL DEF Spec
<1>2. QED BY <1>1, InvSection, PTL
=============================================================================
