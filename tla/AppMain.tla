------------------------------- MODULE AppMain -------------------------------
(***************************************************************************)
(* The application around the Falcon handlers: the main loop and dispatcher, *)
(* address and transaction requests in G_context, token descriptors, the    *)
(* review screens with the user's later answer, the settings menu, and the  *)
(* exchange (swap) entry points.                                            *)
(*                                                                          *)
(* The transport is half duplex: a command is received only when the last   *)
(* one has been answered.  A handler that starts a review returns without   *)
(* an answer; the user's choice sends it.                                   *)
(***************************************************************************)
EXTENDS TxParser, FiniteSets

CONSTANTS
  Paths,            \* BIP-32 paths the host may send
  PartialPath,      \* what G_context holds after a path that could not be read
  Chunks,           \* data fields of transaction chunks, sequences of bytes
  Descriptors,      \* token descriptors the host may send
  TOKENS,           \* the table of token_db.c, address -> [ticker, decimals]
  AddressOf(_),     \* the address derived from the key at a path
  Cut(_),           \* the first 9 characters of a ticker
  BlindMemo,        \* the memo "Blind-sign"
  SwapParams,       \* what the exchange passes to create_transaction
  AddressQueries,   \* what it passes to check_address
  AmountQueries     \* what it passes to get_printable_amount

\* The data field of a command is a buffer of bytes.
ASSUME ChunksAssumption == Chunks \subseteq Seq(Byte)

NativeUnit == [ticker |-> "BOL", decimals |-> 3]   \* EXPONENT_SMALLEST_UNIT

None == [none |-> TRUE]
NoAmount == -1     \* a number that swap_str_to_u64 does not accept

VARIABLES
  running,                \* "off", "device" (menu), or "swap"
  G_context,              \* the request being built or reviewed
  g_dynamic_token_info,   \* the token provided last, or None
  N_storage,              \* NVM: the two switches of the settings menu
  screen,                 \* the page the user sees
  pending,                \* a command has not been answered yet
  resp,                   \* the last answer
  G_swap_validated,       \* what the exchange promised, or None
  reviewed                \* history: raw_tx at the last review of this request

ctxVars == <<G_context, reviewed>>
vars == <<running, G_context, g_dynamic_token_info, N_storage, screen, pending, resp,
          G_swap_validated, reviewed>>

ReqTypes == {"CONFIRM_ADDRESS", "CONFIRM_TRANSACTION", "CONFIRM_TOKEN_TRANSACTION"}

\* explicit_bzero(&G_context): req_type 0 is CONFIRM_ADDRESS, state 0 STATE_NONE.
ZeroContext == [state |-> "STATE_NONE", req_type |-> "CONFIRM_ADDRESS", path |-> None,
                pk |-> None, is_token_tx |-> FALSE, token_info |-> None,
                raw_tx |-> <<>>, transaction |-> None, m_hash |-> <<>>]

Menu == [page |-> "menu"]
Status == [page |-> "status"]
Warning == [page |-> "warning"]
NoScreen == [page |-> "none"]
IsReview(s) == s.page \in {"address", "review"}

Sw(s) == [kind |-> "sw", sw |-> s]

\* format_hex writes upper case; an address from the exchange comes in either case.
Hex(bytes) == [case |-> "upper", of |-> bytes]
Upper(h) == [h EXCEPT !.case = "upper"]

-----------------------------------------------------------------------------
(***************************************************************************)
(* Answers: io_send_sw and io_send_response_pointer.                        *)
(***************************************************************************)
PoweredOff == /\ running' = "off"
              /\ G_context' = ZeroContext
              /\ UNCHANGED g_dynamic_token_info   \* cleared by the next app_main
              /\ screen' = NoScreen
              /\ pending' = FALSE
              /\ G_swap_validated' = None
              /\ reviewed' = <<>>

\* A command may be received: the application runs and owes no answer.
Ready == running # "off" /\ ~pending

\* Answer r with the screen unchanged.
Reply(r) == resp' = r /\ pending' = FALSE /\ UNCHANGED <<running, screen>>

\* Mutant: the choice callback is not registered, so no answer is owed.
ReviewUnanswered(s) == screen' = s /\ pending' = FALSE /\ resp' = None /\ UNCHANGED running

\* Start a review: the answer is left to the user.
Review(s) == /\ screen' = s
             /\ pending' = TRUE
             /\ resp' = None
             /\ UNCHANGED running

-----------------------------------------------------------------------------
(***************************************************************************)
(* app_main: start from the dashboard, or as a library of the exchange      *)
(* after swap_copy_transaction_parameters.                                  *)
(***************************************************************************)
\* The settings are initialised on the first start and kept afterwards.
InitStorage == IF N_storage.initialized THEN N_storage
               ELSE [initialized |-> TRUE, dummy1_allowed |-> FALSE, dummy2_allowed |-> FALSE]

app_main(mode) ==
  /\ running' = mode
  /\ screen' = IF mode = "swap" THEN NoScreen ELSE Menu
  /\ G_context' = ZeroContext
  /\ g_dynamic_token_info' = None
  /\ N_storage' = InitStorage
  /\ pending' = FALSE /\ resp' = None /\ reviewed' = <<>>

Start == /\ running = "off"
         /\ app_main("device")
         /\ G_swap_validated' = None

\* io_recv_command fails, the user quits from the menu, or power is lost.
Stop == /\ running # "off"
        /\ PoweredOff
        /\ resp' = None
        /\ UNCHANGED N_storage

-----------------------------------------------------------------------------
\* The commands without effect on the state: version, name, and what apdu_parser and
\* apdu_dispatcher refuse (length, class, instruction, P1 and P2).
handler_get_version ==
  /\ Ready
  /\ Reply(Sw("CONSTANT_ANSWER"))
  /\ UNCHANGED <<ctxVars, g_dynamic_token_info, N_storage, G_swap_validated>>

(***************************************************************************)
(* GET_PUBLIC_KEY.  path is None when it cannot be read, derives tells      *)
(* whether the key derivation succeeds.                                     *)
(***************************************************************************)
helper_send_response_pubkey(ctx) == [kind |-> "pubkey", path |-> ctx.pk]

ui_display_address(ctx) == [page |-> "address", hex |-> Hex(AddressOf(ctx.pk))]

handler_get_public_key(path, display, derives) ==
  LET fresh == [ZeroContext EXCEPT !.req_type = "CONFIRM_ADDRESS",
                                   !.path = IF path = None THEN PartialPath ELSE path]
      done  == [fresh EXCEPT !.pk = path]
  IN  /\ Ready
      /\ reviewed' = <<>>
      /\ UNCHANGED <<g_dynamic_token_info, N_storage, G_swap_validated>>
      /\ \/ path = None /\ G_context' = fresh /\ Reply(Sw("SWO_WRONG_DATA_LENGTH"))
         \/ path # None /\ ~derives /\ G_context' = fresh /\ Reply(Sw("CX_ERROR"))
         \/ /\ path # None /\ derives
            /\ G_context' = done
            /\ IF display THEN Review(ui_display_address(done))
               ELSE Reply(helper_send_response_pubkey(done))

(***************************************************************************)
(* PROVIDE_TOKEN_INFO.  The slot is cleared first.  The SDK checks structure *)
(* and signature of the descriptor (d.valid); the handler the coin type and *)
(* the token address.                                                       *)
(***************************************************************************)
validate_coin_type(t) == t \in {"BOL", "BOL hardened"}

\* parse_dynamic_token_tuid with handle_tuid_token_address: one address, of the right length.
parse_dynamic_token_tuid(tuid) == Len(tuid) = 1 /\ Len(tuid[1]) = TOKEN_ADDRESS_LEN

handler_provide_token_info(d) ==
  /\ Ready
  /\ IF d.valid /\ validate_coin_type(d.coin_type) /\ parse_dynamic_token_tuid(d.tuid)
     THEN /\ g_dynamic_token_info' = [address |-> d.tuid[1], ticker |-> d.ticker,
                                      decimals |-> d.magnitude]
          /\ Reply(Sw("SWO_SUCCESS"))
     ELSE /\ g_dynamic_token_info' = None
          /\ Reply(Sw("SW_INVALID_DYNAMIC_TOKEN"))
  /\ UNCHANGED <<ctxVars, N_storage, G_swap_validated>>

\* The provided token first, then the table; None when neither has the address.
get_dynamic_token_info(address) ==
  IF g_dynamic_token_info # None /\ g_dynamic_token_info.address = address
  THEN [ticker |-> g_dynamic_token_info.ticker, decimals |-> g_dynamic_token_info.decimals]
  ELSE None

get_hardcoded_token_info(address) ==
  IF address \in DOMAIN TOKENS THEN TOKENS[address] ELSE None

get_token_info(address) ==
  IF get_dynamic_token_info(address) # None THEN get_dynamic_token_info(address)
  ELSE get_hardcoded_token_info(address)

-----------------------------------------------------------------------------
(***************************************************************************)
(* SIGN_TX and SIGN_TOKEN_TX, chunk 0: a new request with its path.  A path *)
(* that cannot be read is refused, and the request stays open.              *)
(***************************************************************************)
ReqType(is_token) == IF is_token THEN "CONFIRM_TOKEN_TRANSACTION" ELSE "CONFIRM_TRANSACTION"

init_transaction_context(path, is_token) ==
  /\ Ready
  /\ G_context' = [ZeroContext EXCEPT !.req_type = ReqType(is_token),
                                      !.path = IF path = None THEN PartialPath ELSE path]
  /\ reviewed' = <<>>
  /\ Reply(Sw(IF path = None THEN "SWO_WRONG_DATA_LENGTH" ELSE "SWO_SUCCESS"))
  /\ UNCHANGED <<g_dynamic_token_info, N_storage, G_swap_validated>>

\* Mutant: the kind of the request is not compared.
AccumulateAnyKind(data, is_token) ==
  IF Len(G_context.raw_tx) + Len(data) > MAX_TX_LEN THEN "SWO_WRONG_DATA_LENGTH" ELSE "SWO_SUCCESS"

\* Further chunks: the error, or SWO_SUCCESS and the longer raw transaction.
accumulate_transaction_data(data, is_token) ==
  IF G_context.req_type # ReqType(is_token) THEN "SWO_CONDITIONS_NOT_SATISFIED"
  ELSE IF Len(G_context.raw_tx) + Len(data) > MAX_TX_LEN THEN "SWO_WRONG_DATA_LENGTH"
  ELSE "SWO_SUCCESS"

(***************************************************************************)
(* process_transaction: parse, find the token, hash.  The context after it, *)
(* with the error.                                                          *)
(***************************************************************************)
process_transaction(ctx, is_token) ==
  LET flagged == [ctx EXCEPT !.is_token_tx = is_token]
      tx      == transaction_deserialize(ctx.raw_tx, is_token)
      info    == get_token_info(tx.token_address)
  IN  IF tx.status # "PARSING_OK" \/ (is_token /\ info = None)
      THEN [err |-> "SWO_INCORRECT_DATA", ctx |-> flagged]
      ELSE [err |-> "SWO_SUCCESS",
            ctx |-> [flagged EXCEPT !.transaction = tx,
                                    !.token_info = IF is_token THEN info ELSE @,
                                    !.state = "STATE_PARSED",
                                    !.m_hash = ctx.raw_tx]]

(***************************************************************************)
(* ui_display_transaction_bs_token_choice: the review of a parsed           *)
(* transaction of the expected kind, or None and state STATE_NONE.  The     *)
(* token's name is cut to its 10-byte buffer.                               *)
(***************************************************************************)
ui_display_transaction_bs_token_choice(ctx, blind, is_token) ==
  LET unit == IF is_token THEN ctx.token_info ELSE NativeUnit
  IN  IF ctx.req_type # ReqType(is_token) \/ ctx.state # "STATE_PARSED" THEN None
      ELSE [page |-> "review", blind |-> blind, amount |-> ctx.transaction.value,
            unit |-> unit, token |-> IF is_token THEN Cut(unit.ticker) ELSE "",
            to |-> Hex(ctx.transaction.to)]

\* Which review handler_sign_tx starts: the memo "Blind-sign" comes first.
ui_display_transaction(ctx, is_token) ==
  IF ctx.transaction.memo = BlindMemo
  THEN ui_display_transaction_bs_token_choice(ctx, TRUE, FALSE)
  ELSE ui_display_transaction_bs_token_choice(ctx, FALSE, is_token)

\* A chunk that is refused, is not the last, or does not make a transaction.
sign_tx_chunk(data, more, is_token) ==
  LET err  == accumulate_transaction_data(data, is_token)
      ctx  == [G_context EXCEPT !.raw_tx = @ \o data]
      done == process_transaction(ctx, is_token)
  IN  /\ Ready
      /\ UNCHANGED <<reviewed, g_dynamic_token_info, N_storage, G_swap_validated>>
      /\ \/ err # "SWO_SUCCESS" /\ Reply(Sw(err)) /\ UNCHANGED G_context
         \/ err = "SWO_SUCCESS" /\ more /\ Reply(Sw(err)) /\ G_context' = ctx
         \/ /\ err = "SWO_SUCCESS" /\ ~more /\ running = "device"
            /\ done.err # "SWO_SUCCESS"
            /\ Reply(Sw(done.err)) /\ G_context' = done.ctx

\* The last chunk of a transaction that parses, outside an exchange.
sign_tx_review(data, is_token) ==
  LET ctx  == [G_context EXCEPT !.raw_tx = @ \o data]
      done == process_transaction(ctx, is_token)
      page == ui_display_transaction(done.ctx, is_token)
  IN  /\ Ready /\ running = "device"
      /\ accumulate_transaction_data(data, is_token) = "SWO_SUCCESS"
      /\ done.err = "SWO_SUCCESS"
      /\ IF page = None
         THEN /\ G_context' = [done.ctx EXCEPT !.state = "STATE_NONE"]
              /\ Reply(Sw("SWO_CONDITIONS_NOT_SATISFIED"))
              /\ UNCHANGED reviewed
         ELSE /\ G_context' = done.ctx
              /\ Review(page)
              /\ reviewed' = ctx.raw_tx
      /\ UNCHANGED <<g_dynamic_token_info, N_storage, G_swap_validated>>

-----------------------------------------------------------------------------
(***************************************************************************)
(* The user's answer: validate_pubkey and validate_transaction, then the    *)
(* status page.  signs tells whether the signature computation succeeds.    *)
(***************************************************************************)
helper_send_response_sig(ctx) ==
  [kind |-> "signature", path |-> ctx.path, hash |-> ctx.m_hash, is_token |-> ctx.is_token_tx]

validate_pubkey(choice) ==
  /\ pending /\ screen.page = "address"
  /\ resp' = IF choice THEN helper_send_response_pubkey(G_context)
             ELSE Sw("SWO_CONDITIONS_NOT_SATISFIED")
  /\ pending' = FALSE
  /\ screen' = Status
  /\ UNCHANGED <<running, ctxVars, g_dynamic_token_info, N_storage, G_swap_validated>>

\* The context and the answer that follow a choice.
SignOutcome(ctx, choice, signs) ==
  IF choice /\ signs
  THEN [ctx |-> [ctx EXCEPT !.state = "STATE_APPROVED"], resp |-> helper_send_response_sig(ctx)]
  ELSE [ctx |-> [ctx EXCEPT !.state = "STATE_NONE"],
        resp |-> Sw(IF choice THEN "SWO_SECURITY_ISSUE" ELSE "SWO_CONDITIONS_NOT_SATISFIED")]

validate_transaction(choice, signs) ==
  LET o == SignOutcome(G_context, choice, signs)
  IN  /\ pending /\ screen.page = "review"
      /\ G_context' = o.ctx
      /\ resp' = o.resp
      /\ pending' = FALSE
      /\ screen' = Status
      /\ UNCHANGED <<running, g_dynamic_token_info, N_storage, G_swap_validated, reviewed>>

\* The status page goes back to the menu.
ui_menu_main == /\ screen = Status
                /\ screen' = Menu
                /\ UNCHANGED <<running, ctxVars, g_dynamic_token_info, N_storage, pending,
                               resp, G_swap_validated>>

\* Mutant: the warning is skipped.
ControlsNoWarning(switch) ==
  /\ screen = Menu
  /\ N_storage' = IF switch = 1 THEN [N_storage EXCEPT !.dummy1_allowed = ~@]
                  ELSE [N_storage EXCEPT !.dummy2_allowed = ~@]
  /\ UNCHANGED <<screen, running, ctxVars, g_dynamic_token_info, pending, resp, G_swap_validated>>

\* The switches of the settings menu: the second asks before it is turned on.
controls_callback(switch) ==
  /\ screen = Menu
  /\ IF switch = 1
     THEN /\ N_storage' = [N_storage EXCEPT !.dummy1_allowed = ~@]
          /\ UNCHANGED screen
     ELSE IF N_storage.dummy2_allowed
          THEN N_storage' = [N_storage EXCEPT !.dummy2_allowed = ~@] /\ UNCHANGED screen
          ELSE screen' = Warning /\ UNCHANGED N_storage
  /\ UNCHANGED <<running, ctxVars, g_dynamic_token_info, pending, resp, G_swap_validated>>

review_warning_choice(confirm) ==
  /\ screen = Warning
  /\ N_storage' = IF confirm THEN [N_storage EXCEPT !.dummy2_allowed = ~@] ELSE N_storage
  /\ screen' = Menu
  /\ UNCHANGED <<running, ctxVars, g_dynamic_token_info, pending, resp, G_swap_validated>>

-----------------------------------------------------------------------------
(***************************************************************************)
(* The exchange.  create_transaction records the promise and starts the     *)
(* application; the address is kept in upper case.                          *)
(***************************************************************************)
swap_copy_transaction_parameters(p) ==
  /\ running = "off"
  /\ p.address # None /\ Len(p.address.of) = ADDRESS_LEN
  /\ p.amount # NoAmount /\ p.fee # NoAmount
  /\ G_swap_validated' = [amount |-> p.amount, fee |-> p.fee, recipient |-> Upper(p.address),
                          unit |-> IF p.config = None THEN NativeUnit ELSE p.config]
  /\ app_main("swap")

\* Parameters the exchange gets refused: the application is not started.
swap_refuse_parameters(p) ==
  /\ running = "off"
  /\ \/ p.address = None
     \/ p.address # None /\ Len(p.address.of) # ADDRESS_LEN
     \/ p.amount = NoAmount
     \/ p.fee = NoAmount
  /\ resp' = Sw("refused")
  /\ UNCHANGED <<running, ctxVars, g_dynamic_token_info, N_storage, screen, pending, G_swap_validated>>

is_token_swap == G_swap_validated.unit # NativeUnit

\* Mutant: the unit of the token is not compared.
CheckValidityNoUnit(ctx) ==
  /\ ctx.is_token_tx = is_token_swap
  /\ G_swap_validated.amount = ctx.transaction.value
  /\ G_swap_validated.fee = ctx.transaction.fee
  /\ G_swap_validated.recipient = Hex(ctx.transaction.to)

\* swap_check_validity, without the errors it sends.
swap_check_validity(ctx) ==
  /\ G_swap_validated # None
  /\ ctx.is_token_tx = is_token_swap
  /\ ctx.is_token_tx => ctx.token_info = G_swap_validated.unit
  /\ G_swap_validated.amount = ctx.transaction.value
  /\ G_swap_validated.fee = ctx.transaction.fee
  /\ G_swap_validated.recipient = Hex(ctx.transaction.to)

(***************************************************************************)
(* check_and_sign_swap_tx: the last chunk in an exchange is checked against *)
(* the promise instead of being shown.  G_swap_response_ready is set before *)
(* the check, so every way out answers and returns to the exchange, and the *)
(* test against a second signature is never reached.                        *)
(***************************************************************************)
check_and_sign_swap_tx(data, is_token, signs) ==
  LET ctx  == [G_context EXCEPT !.raw_tx = @ \o data]
      done == process_transaction(ctx, is_token)
  IN  /\ Ready /\ running = "swap"
      /\ accumulate_transaction_data(data, is_token) = "SWO_SUCCESS"
      /\ resp' = IF done.err # "SWO_SUCCESS" THEN Sw("SW_SWAP_FAIL")
                 ELSE IF swap_check_validity(done.ctx) THEN SignOutcome(done.ctx, TRUE, signs).resp
                 ELSE Sw("SW_SWAP_FAIL")
      /\ PoweredOff
      /\ UNCHANGED N_storage

\* check_address: the derived address, in upper case, against the text given.
swap_handle_check_address(q) ==
  /\ running = "off"
  /\ resp' = Sw(IF /\ q.path # None /\ q.address # None
                   /\ Len(q.address.of) = ADDRESS_LEN
                   /\ q.derives
                   /\ Hex(AddressOf(q.path)) = q.address
                THEN "address ok" ELSE "address refused")
  /\ UNCHANGED <<running, ctxVars, g_dynamic_token_info, N_storage, screen, pending, G_swap_validated>>

\* get_printable_amount: fees and amounts without configuration are in BOL.
swap_handle_get_printable_amount(q) ==
  /\ running = "off"
  /\ resp' = IF q.amount = NoAmount THEN Sw("no amount")
             ELSE [kind |-> "printable", amount |-> q.amount,
                   unit |-> IF q.is_fee \/ q.config = None THEN NativeUnit ELSE q.config]
  /\ UNCHANGED <<running, ctxVars, g_dynamic_token_info, N_storage, screen, pending, G_swap_validated>>

-----------------------------------------------------------------------------
Init == /\ running = "off"
        /\ G_context = ZeroContext /\ g_dynamic_token_info = None
        /\ N_storage = [initialized |-> FALSE, dummy1_allowed |-> FALSE, dummy2_allowed |-> FALSE]
        /\ screen = NoScreen /\ pending = FALSE /\ resp = None
        /\ G_swap_validated = None /\ reviewed = <<>>

\* The instructions as apdu_dispatcher hands them to their handlers.
apdu_dispatcher ==
  \/ handler_get_version
  \/ \E path \in Paths \cup {None}, display, derives \in BOOLEAN :
       handler_get_public_key(path, display, derives)
  \/ \E d \in Descriptors : handler_provide_token_info(d)
  \/ \E path \in Paths \cup {None}, is_token \in BOOLEAN :
       init_transaction_context(path, is_token)
  \/ \E data \in Chunks, more, is_token \in BOOLEAN : sign_tx_chunk(data, more, is_token)
  \/ \E data \in Chunks, is_token \in BOOLEAN : sign_tx_review(data, is_token)
  \/ \E data \in Chunks, is_token, signs \in BOOLEAN :
       check_and_sign_swap_tx(data, is_token, signs)

User == \/ \E choice \in BOOLEAN : validate_pubkey(choice)
        \/ \E choice, signs \in BOOLEAN : validate_transaction(choice, signs)
        \/ ui_menu_main
        \/ \E switch \in {1, 2} : controls_callback(switch)
        \/ \E confirm \in BOOLEAN : review_warning_choice(confirm)

Exchange == \/ \E p \in SwapParams : swap_copy_transaction_parameters(p) \/ swap_refuse_parameters(p)
            \/ \E q \in AddressQueries : swap_handle_check_address(q)
            \/ \E q \in AmountQueries : swap_handle_get_printable_amount(q)

Next == Start \/ Stop \/ apdu_dispatcher \/ User \/ Exchange

Spec == Init /\ [][Next]_vars

-----------------------------------------------------------------------------
\* The context, the page and the owed answer have their types; a request of one kind
\* never holds results of another (pk_info and tx_info are one union in the code).
TypeOK ==
  /\ running \in {"off", "device", "swap"} /\ pending \in BOOLEAN
  /\ G_context.state \in {"STATE_NONE", "STATE_PARSED", "STATE_APPROVED"}
  /\ G_context.req_type \in ReqTypes
  /\ G_context.raw_tx \in Seq(Byte) /\ Len(G_context.raw_tx) <= MAX_TX_LEN
  /\ G_context.pk # None => G_context.req_type = "CONFIRM_ADDRESS" /\ G_context.raw_tx = <<>>
  /\ G_context.state # "STATE_NONE" => G_context.req_type # "CONFIRM_ADDRESS"

\* A handler returns without an answer only when a review is on the screen, and a review
\* is on the screen only while its command waits: otherwise the host waits for ever, or
\* an answer is sent that nobody asked for (review_choice, io_send_sw).
WaitingHasReview == pending <=> IsReview(screen)

(***************************************************************************)
(* What a signature says, read from the signed bytes alone and from the     *)
(* token known by the time it is sent.                                      *)
(***************************************************************************)
ViewOf(raw, is_token) ==
  LET tx == transaction_deserialize(raw, is_token)
  IN  [amount |-> tx.value, to |-> Hex(tx.to),
       unit |-> IF is_token THEN get_token_info(tx.token_address) ELSE NativeUnit]

Shown == IF screen.page = "review"
         THEN [amount |-> screen.amount, to |-> screen.to, unit |-> screen.unit] ELSE None

Signed == IF resp # None /\ resp.kind = "signature" THEN ViewOf(resp.hash, resp.is_token) ELSE None

\* A view keeps a promise: same amount and unit, same destination; fees are constant.
Keeps(view, promised) == /\ view.amount = promised.amount /\ view.unit = promised.unit
                         /\ view.to = promised.recipient
                         /\ promised.fee = 0

A == INSTANCE Approval WITH Fulfils <- Keeps, shown <- Shown, promise <- G_swap_validated,
                            signed <- Signed

\* What is signed is what was shown when the user accepted, or what the exchange promised,
\* and then once, across all sequences of chunks, address requests, token descriptors and
\* restarts (handler_sign_tx, validate_transaction, check_and_sign_swap_tx).
ImplementsApproval == A!Spec

\* A chunk after a review belongs to the same request.  It can only lead to a second
\* review when the first transaction ended before its memo length, which the parser
\* takes for an empty memo: a transaction with a memo length is never a proper prefix
\* of another (transaction_deserialize, accumulate_transaction_data).
HeaderLen(is_token) == NonceLen + ADDRESS_LEN + ValueLen
                       + (IF is_token THEN TOKEN_ADDRESS_LEN ELSE 0)
ReviewedOnce ==
  [][ reviewed # <<>> /\ reviewed' \notin {<<>>, reviewed}
        => Len(reviewed) = HeaderLen(G_context.is_token_tx) ]_vars

\* The bytes that are hashed are the serialisation of the transaction that was shown,
\* when they give the memo length in its shortest form (transaction_serialize).
HashedIsSerialized ==
  G_context.state = "STATE_PARSED" /\ ~G_context.is_token_tx
    /\ HasShortLength(G_context.m_hash, FALSE)
  => G_context.m_hash = transaction_serialize(G_context.transaction, MAX_TX_LEN)

\* The second switch is turned on only from the warning page (controls_callback).
WarnedBeforeOn ==
  [][ ~N_storage.dummy2_allowed /\ N_storage'.dummy2_allowed => screen = Warning ]_vars

\* The memo of a transaction that was accepted fits the limit: MAX_MEMO_LEN bytes and a
\* NUL, the buffer of the fuzzing harness (transaction_utils_format_memo).
MemoWithinLimit ==
  G_context.state = "STATE_PARSED"
    => transaction_utils_format_memo(G_context.transaction.memo, MAX_MEMO_LEN + 1)
=============================================================================
