------------------------------ MODULE MCAppMain ------------------------------
(***************************************************************************)
(* Instances of AppMain.  The short one has one-byte fields; the real one   *)
(* has the field sizes of the code and two chunks that make one long memo.  *)
(***************************************************************************)
EXTENDS AppMain, TLC

OnePath == {[path |-> "m/44'"]}
Partial == [path |-> "partial"]
MCAddressOf(path) == [i \in 1..ADDRESS_LEN |-> 1]
MCCut(ticker) == ticker

MCBlind == <<1>>
ShortChunks == {<<1>>, <<0>>, <<1, 128>>, <<253, 1, 0>>}
MCTokens == (<<1>> :> [ticker |-> "USDC", decimals |-> 12])
MCDescriptors ==
  { [valid |-> v, coin_type |-> c, tuid |-> t, ticker |-> "NEW", magnitude |-> 6] :
      v \in {TRUE}, c \in {"BOL"}, t \in {<< <<1>> >>} }
  \cup { [valid |-> FALSE, coin_type |-> "BOL", tuid |-> << <<2>> >>, ticker |-> "NEW", magnitude |-> 6],
         [valid |-> TRUE, coin_type |-> "BTC", tuid |-> << <<2>> >>, ticker |-> "NEW", magnitude |-> 6],
         [valid |-> TRUE, coin_type |-> "BOL", tuid |-> <<>>, ticker |-> "NEW", magnitude |-> 6] }
MCSwapParams ==
  { [address |-> [case |-> "lower", of |-> <<1>>], amount |-> 1, fee |-> 1, config |-> None],
    [address |-> [case |-> "lower", of |-> <<1>>], amount |-> 1, fee |-> 0,
     config |-> [ticker |-> "USDC", decimals |-> 12]],
    [address |-> [case |-> "upper", of |-> <<1>>], amount |-> NoAmount, fee |-> 0, config |-> None],
    [address |-> [case |-> "upper", of |-> <<1>>], amount |-> 1, fee |-> NoAmount, config |-> None] }
  \cup { [address |-> a, amount |-> m, fee |-> e, config |-> None] :
           a \in {None, [case |-> "lower", of |-> <<1, 1>>]},
           m \in {NoAmount, 1}, e \in {NoAmount, 0} }
MCAddressQueries ==
  [path : OnePath \cup {None}, address : {None} \cup [case : {"upper", "lower"}, of : {<<1>>, <<1, 1>>}],
   derives : {TRUE}]
MCAmountQueries == [amount : {NoAmount, 1}, is_fee : BOOLEAN, config : {None, [ticker |-> "USDC", decimals |-> 12]}]

\* Real sizes: header with memo length 466 = 253, 210, 1, then the memo in two chunks.
LongMemo == { [i \in 1..39 |-> IF i = 37 THEN 253 ELSE IF i = 38 THEN 210 ELSE IF i = 39 THEN 1 ELSE 0],
              [i \in 1..233 |-> 65] }
NoTokens == [a \in {} |-> None]
=============================================================================
