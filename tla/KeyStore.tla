------------------------------ MODULE KeyStore ------------------------------
(***************************************************************************)
(* What the Falcon key records promise, without NVM, power or seed cache:  *)
(* for each degree the device holds no key or one whole key, a key is      *)
(* created and dropped in one step, a key of the mnemonic in the device is *)
(* never dropped, and only such a key is served to the host.               *)
(***************************************************************************)
CONSTANTS Mnemonics, Degrees

VARIABLES
    mnemonic,   \* the master secret in the device
    store,      \* per degree the seed <<mnemonic, degree>> of the stored key, or NoKey
    served      \* the keys handed out by the answer the host is looking at

storeVars == <<mnemonic, store, served>>

NoKey == <<>>

Init ==
    /\ mnemonic \in Mnemonics
    /\ store = [d \in Degrees |-> NoKey]
    /\ served = {}

Create(d) ==
    /\ store[d] = NoKey
    /\ store' = [store EXCEPT ![d] = <<mnemonic, d>>]
    /\ UNCHANGED <<mnemonic, served>>

Drop(d) ==
    /\ store[d] \notin {NoKey, <<mnemonic, d>>}
    /\ store' = [store EXCEPT ![d] = NoKey]
    /\ UNCHANGED <<mnemonic, served>>

Serve(d) ==
    /\ store[d] = <<mnemonic, d>>
    /\ served' = {store[d]}
    /\ UNCHANGED <<mnemonic, store>>

Forget ==
    /\ served' = {}
    /\ UNCHANGED <<mnemonic, store>>

Switch ==
    /\ served = {}
    /\ mnemonic' \in Mnemonics
    /\ UNCHANGED <<store, served>>

Next == (\E d \in Degrees : Create(d) \/ Drop(d) \/ Serve(d)) \/ Forget \/ Switch

Spec == Init /\ [][Next]_storeVars
=============================================================================
