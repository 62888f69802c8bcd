------------------------------ MODULE Approval ------------------------------
(***************************************************************************)
(* What transaction signing promises, whatever the commands in between: a   *)
(* signature leaves the device only for the transaction on the screen when  *)
(* the user accepts, or, in an exchange, once and for a transaction that    *)
(* keeps the promise the exchange recorded.                                 *)
(***************************************************************************)
CONSTANTS None, Fulfils(_, _)

VARIABLES shown,    \* the view under review, or None
          promise,  \* the exchange's promise, or None
          signed    \* the view of the signature last sent, None after any other answer

Init == shown = None /\ promise = None /\ signed = None

\* A review appears, in place of whatever was answered before.
Ask == /\ shown = None
       /\ shown' # None
       /\ signed' = None
       /\ UNCHANGED promise

Accept == /\ shown # None
          /\ signed' = shown
          /\ shown' = None
          /\ UNCHANGED promise

\* An exchange begins while nothing is under review.
Begin == /\ shown = None /\ shown' = None
         /\ promise' # None
         /\ signed' = None

Deliver == /\ promise # None
           /\ signed' # None
           /\ Fulfils(signed', promise)
           /\ promise' = None
           /\ shown' = None

\* Refusals, errors, other commands, the end of the session.
Else == /\ shown' \in {shown, None}
        /\ promise' \in {promise, None}
        /\ signed' = None

Next == Ask \/ Accept \/ Begin \/ Deliver \/ Else

Spec == Init /\ [][Next]_<<shown, promise, signed>>
=============================================================================
