------------------------------ MODULE FalconLR ------------------------------
(***************************************************************************)
(* The low-RAM Falcon APDU handlers (handler_falcon_lowram.c), their RAM   *)
(* session (falcon_lr_storage_t in globals.h) and the two NVM key records  *)
(* (falcon_lowram_nvm.h).                                                  *)
(*                                                                         *)
(* The transport is half duplex: the host sends one APDU and waits for its *)
(* response, so handlers do not interleave with each other.  What does     *)
(* interleave is a power loss (or the user quitting the app), which may    *)
(* strike between two nvm_write calls of KEYGEN and inside a multi-byte    *)
(* one.  KEYGEN is therefore a sequence of steps, one per nvm_write; every *)
(* other handler touches RAM only and is one action.                       *)
(*                                                                         *)
(* Data is abstracted to what it was computed from: a SLIP-10 seed is a    *)
(* pair <<mnemonic, degree>>; key_id, f|g|F and h are tagged with the seed *)
(* they come from, so equal bytes are equal tags (SHAKE256 collisions and  *)
(* equal keys from different seeds are left out).  A signature is tagged   *)
(* with the degree, the private key, the message and the signing seed.     *)
(***************************************************************************)
EXTENDS Naturals, FiniteSets

CONSTANTS
    Mnemonics,  \* master secrets the device can be unlocked with (mnemonic, passphrase)
    Msgs,       \* 32-byte payload hashes the host signs
    HostSeeds,  \* 40-byte signing seeds fed by the host (FEED_SEED)
    TrngSeeds,  \* 40-byte values the TRNG will ever return; a bound on GEN_SEED in TLC
    Chunks,     \* chunk indices (P1) the host asks for
    Unlucky     \* signing inputs for which the core exhausts its 27 attempts

Degrees == {9, 10}
Sizes == {0, 32, 40}                   \* APDU payload lengths the host sends
P2Values == Degrees \cup {11}          \* P2 bytes the host sends
Seeds == Mnemonics \X Degrees
SignSeeds == HostSeeds \cup TrngSeeds

ASSUME ConstantsAssumption ==
    /\ HostSeeds \cap TrngSeeds = {}   \* the host never sees a TRNG seed
    /\ Chunks \subseteq 0..255

-----------------------------------------------------------------------------
(* Values derived from a seed.                                             *)

NoSeed == <<>>
SeedOf(m, d) == <<m, d>>
KeyId(s) == [kind |-> "key_id", of |-> s]
Priv(s) == [kind |-> "fgF", of |-> s]
Pub(s) == [kind |-> "h", of |-> s]
Blank == [kind |-> "blank", of |-> NoSeed]
TornBytes == [kind |-> "torn", of |-> NoSeed]
OldLayout(s) == [kind |-> "old layout", of |-> s]

\* A signature and all it depends on: the degree, the f|g|F it was made with, the message
\* and the signing seed.
SigOf(d, key, m, s) == [kind |-> "sig", d |-> d, key |-> key, msg |-> m, sseed |-> s]

FMT == 1

\* A record as installed, or left behind complete by a firmware with another layout.
BlankRecord == [key_id |-> Blank, fgF |-> Blank, h |-> Blank, fmt |-> 0, ready |-> 0]
OldRecord(s) == [key_id |-> KeyId(s), fgF |-> OldLayout(s), h |-> OldLayout(s),
                 fmt |-> 0, ready |-> 1]
InstallRecords(d) == {BlankRecord} \cup {OldRecord(SeedOf(m, d)) : m \in Mnemonics}

\* Contents of the output buffer.
ZeroOut == [kind |-> "zero"]
ScratchOut == [kind |-> "scratch"]

VARIABLES
    mnemonic,     \* the master secret behind SLIP-10
    power,        \* "on" while the app runs
    nvm,          \* N_falcon_lr_key_512_storage, N_falcon_lr_key_1024_storage
    seed,         \* g_falcon_lr.seed
    seed_ready,   \* g_falcon_lr.seed_ready: degree whose seed is cached, or 0
    msg,          \* g_falcon_lr.msg
    msg_ready,
    sign_seed,    \* g_falcon_lr.sign_seed
    sseed_ready,
    out,          \* g_falcon_lr.out: nonce at 1, s2 bytes 0..1023, s2 bytes 1024..2047
    sig_ready,    \* g_falcon_lr.sig_ready: degree of the signature in out, or 0
    kg,           \* where KEYGEN stands: next nvm_write and its degree
    resp,         \* the last APDU response
    drawn,        \* history: TRNG seeds drawn so far
    used,         \* history: successful signatures made with each TRNG seed
    last          \* history: what the last SIGN_ALL since INIT left in out

session == <<seed, seed_ready>>
signing == <<msg, msg_ready, sign_seed, sseed_ready, out, sig_ready, drawn, used, last>>
vars == <<mnemonic, power, nvm, seed, seed_ready, msg, msg_ready, sign_seed,
          sseed_ready, out, sig_ready, kg, resp, drawn, used, last>>

NoKg == [step |-> "idle", d |-> 0]
NoResp == [ins |-> "none", d |-> 0, sw |-> "none", data |-> {}]
NoMsg == "no message"
NoSig == [kind |-> "nosig"]
FailedSig == [kind |-> "failed"]

Status(sw) == resp' = [NoResp EXCEPT !.sw = sw]
Reply(ins, d, sw, data) == resp' = [ins |-> ins, d |-> d, sw |-> sw, data |-> data]
Idle == power = "on" /\ kg.step = "idle"

OutZero == [nonce |-> ZeroOut, lo |-> ZeroOut, hi |-> ZeroOut]

\* The app's RAM as it starts, and its loss.
RamCleared ==
    /\ seed = NoSeed /\ seed_ready = 0
    /\ msg = NoMsg /\ msg_ready = 0 /\ sign_seed = NoMsg /\ sseed_ready = 0
    /\ out = OutZero /\ sig_ready = 0
    /\ kg = NoKg /\ resp = NoResp /\ last = NoSig

LoseRam ==
    /\ seed' = NoSeed /\ seed_ready' = 0
    /\ msg' = NoMsg /\ msg_ready' = 0 /\ sign_seed' = NoMsg /\ sseed_ready' = 0
    /\ out' = OutZero /\ sig_ready' = 0
    /\ kg' = NoKg /\ resp' = NoResp /\ last' = NoSig

Init ==
    /\ mnemonic \in Mnemonics
    /\ power = "off"
    /\ nvm \in [Degrees -> UNION {InstallRecords(d) : d \in Degrees}]
    /\ \A d \in Degrees : nvm[d] \in InstallRecords(d)
    /\ RamCleared
    /\ drawn = {} /\ used = [s \in TrngSeeds |-> 0]

-----------------------------------------------------------------------------
(* Helpers shared by the handlers.                                         *)

\* Mutant: any complete record is accepted, whoever it belongs to.
KeyOkAnyOwner(d, id) == nvm[d].ready = 1 /\ nvm[d].fmt = FMT

KeyOk(d, id) == nvm[d].ready = 1 /\ nvm[d].fmt = FMT /\ nvm[d].key_id = id

\* Mutant: a cached seed is reused whichever degree it belongs to.
SessionSeedAnyDegree(d) ==
    /\ seed' = IF seed_ready = 0 THEN SeedOf(mnemonic, d) ELSE seed
    /\ seed_ready' = d

\* session_seed: the seed slot holds one degree; asking for the other derives again.  The
\* two derivations always return CX_OK, so the handlers' branch for a failure is never taken.
SessionSeed(d) ==
    /\ seed' = IF seed_ready # d THEN SeedOf(mnemonic, d) ELSE seed
    /\ seed_ready' = d

Total(d) == IF d = 9 THEN 1024 ELSE 2048
Off(p1) == p1 * 255

\* The halves of s2 that the 255-byte chunk at offset off covers.
OutParts(off, total) ==
    (IF off < 1024 THEN {out.lo} ELSE {})
        \cup (IF off + 255 > 1024 /\ total > 1024 THEN {out.hi} ELSE {})

\* Payload length each command insists on (SIGN sub-commands by P1).
Length(cmd) ==
    CASE cmd = "FEED_MSG" -> 32
      [] cmd = "FEED_SEED" -> 40
      [] OTHER -> 0

-----------------------------------------------------------------------------
(* Early returns: unsupported logn or P1, then a wrong payload length.     *)
(* GET_PK, GET_NONCE and GET_SIG ignore the payload.                       *)

BadP1 == {"KEYGEN, P1 not 0", "SIGN, unknown P1"}

RefuseP1P2(cmd, p2) ==
    /\ Idle
    /\ p2 \notin Degrees \/ cmd \in BadP1
    /\ Status("6A86")
    /\ UNCHANGED <<mnemonic, power, nvm, session, signing, kg>>

RefuseLength(cmd, d, size) ==
    /\ Idle /\ size # Length(cmd)
    /\ Status("6A87")
    /\ UNCHANGED <<mnemonic, power, nvm, session, signing, kg>>

-----------------------------------------------------------------------------
(* KEYGEN.                                                                 *)

\* Mutant: KEYGEN regenerates without looking at the record first.
KeygenStartAlways(d, size) ==
    /\ Idle /\ size = Length("KEYGEN")
    /\ SessionSeed(d)
    /\ kg' = [step |-> "clear", d |-> d]
    /\ resp' = NoResp
    /\ UNCHANGED <<mnemonic, power, nvm, signing>>

KeygenStart(d, size) ==
    /\ Idle /\ size = Length("KEYGEN")
    /\ SessionSeed(d)
    /\ \/ /\ KeyOk(d, KeyId(seed'))
          /\ Reply("KEYGEN", d, "9000", {nvm[d].h})
          /\ UNCHANGED kg
       \/ /\ ~KeyOk(d, KeyId(seed'))
          /\ kg' = [step |-> "clear", d |-> d]
          /\ resp' = NoResp
    /\ UNCHANGED <<mnemonic, power, nvm, signing>>

\* One nvm_write turns the record of this degree into rec; then on to the next one.
KeygenWrite(step, rec, next) ==
    /\ power = "on" /\ kg.step = step
    /\ nvm' = [nvm EXCEPT ![kg.d] = rec]
    /\ kg' = [kg EXCEPT !.step = next]
    /\ UNCHANGED <<mnemonic, power, session, signing, resp>>

\* Mutants: ready is not cleared first; fmt is never written; another layout number is.
KeygenClearNothing == KeygenWrite("clear", nvm[kg.d], "key_id")
KeygenFmtForgotten == KeygenWrite("fmt", nvm[kg.d], "ready")
KeygenFmtOther == KeygenWrite("fmt", [nvm[kg.d] EXCEPT !.fmt = FMT + 1], "ready")

\* fndsa_keygen_seeded_temp and the decoding to f, g, F, h run after this write.  The
\* core refuses only a temporary area below 22n+31 bytes, which is what it is given.
KeygenClear == KeygenWrite("clear", [nvm[kg.d] EXCEPT !.ready = 0], "key_id")
KeygenKeyId == KeygenWrite("key_id", [nvm[kg.d] EXCEPT !.key_id = KeyId(seed)], "fgF")
KeygenFgF == KeygenWrite("fgF", [nvm[kg.d] EXCEPT !.fgF = Priv(seed)], "h")
KeygenH == KeygenWrite("h", [nvm[kg.d] EXCEPT !.h = Pub(seed)], "fmt")
KeygenFmt == KeygenWrite("fmt", [nvm[kg.d] EXCEPT !.fmt = FMT], "ready")
KeygenReady == KeygenWrite("ready", [nvm[kg.d] EXCEPT !.ready = 1], "reply")

KeygenReply ==
    /\ power = "on" /\ kg.step = "reply"
    /\ Reply("KEYGEN", kg.d, "9000", {nvm[kg.d].h})
    /\ kg' = NoKg
    /\ UNCHANGED <<mnemonic, power, nvm, session, signing>>

KeygenStep == KeygenClear \/ KeygenKeyId \/ KeygenFgF \/ KeygenH \/ KeygenFmt
                 \/ KeygenReady \/ KeygenReply

-----------------------------------------------------------------------------
(* GET_PK: the seed is cached even when the request is then refused.       *)

GetPk(p1, d) ==
    /\ Idle
    /\ SessionSeed(d)
    /\ \/ /\ ~KeyOk(d, KeyId(seed'))
          /\ Status("6A80")
       \/ /\ KeyOk(d, KeyId(seed')) /\ Off(p1) >= Total(d)
          /\ Status("6A86")
       \/ /\ KeyOk(d, KeyId(seed')) /\ Off(p1) < Total(d)
          /\ Reply("GET_PK", d, "9000", {nvm[d].h})
    /\ UNCHANGED <<mnemonic, power, nvm, signing, kg>>

-----------------------------------------------------------------------------
(* SIGN sub-commands.                                                      *)

SignInit(d, size) ==
    /\ Idle /\ size = Length("INIT")
    /\ msg_ready' = 0 /\ sseed_ready' = 0 /\ sig_ready' = 0
    /\ out' = OutZero
    /\ last' = NoSig
    /\ Status("9000")
    /\ UNCHANGED <<mnemonic, power, nvm, session, msg, sign_seed, drawn, used, kg>>

FeedMsg(d, size, m) ==
    /\ Idle /\ size = Length("FEED_MSG")
    /\ msg' = m /\ msg_ready' = 1
    /\ Status("9000")
    /\ UNCHANGED <<mnemonic, power, nvm, session, sign_seed, sseed_ready, out, sig_ready,
                   drawn, used, last, kg>>

FeedSeed(d, size, s) ==
    /\ Idle /\ size = Length("FEED_SEED")
    /\ sign_seed' = s /\ sseed_ready' = 1
    /\ Status("9000")
    /\ UNCHANGED <<mnemonic, power, nvm, session, msg, msg_ready, out, sig_ready,
                   drawn, used, last, kg>>

\* The TRNG never repeats a 40-byte value.
GenSeed(d, size) ==
    /\ Idle /\ size = Length("GEN_SEED")
    /\ \E s \in TrngSeeds \ drawn : sign_seed' = s /\ drawn' = drawn \cup {s}
    /\ sseed_ready' = 1
    /\ Status("9000")
    /\ UNCHANGED <<mnemonic, power, nvm, session, msg, msg_ready, out, sig_ready,
                   used, last, kg>>

\* Mutant: the signing seed stays ready after a signature.
SignOutputKeepsSeed(d, key) ==
    LET sig == SigOf(d, key, msg, sign_seed)
    IN  \/ /\ sig \in Unlucky
           /\ out' = [out EXCEPT !.nonce = ScratchOut, !.lo = ScratchOut]
           /\ last' = FailedSig
           /\ Status("6A80")
           /\ UNCHANGED <<sseed_ready, sig_ready, used>>
        \/ /\ sig \notin Unlucky
           /\ out' = [nonce |-> sig, lo |-> sig, hi |-> IF d = 10 THEN sig ELSE out.hi]
           /\ sig_ready' = d /\ UNCHANGED sseed_ready
           /\ used' = [s \in TrngSeeds |-> used[s] + (IF s = sign_seed THEN 1 ELSE 0)]
           /\ last' = sig
           /\ Status("9000")

\* sign_core writes the nonce at out+1 and the adjustment bits at out+41 on the way; a
\* success then overwrites s2 (2n bytes), a failure leaves them there.
SignOutput(d, key) ==
    LET sig == SigOf(d, key, msg, sign_seed)
    IN  \/ /\ sig \in Unlucky
           /\ out' = [out EXCEPT !.nonce = ScratchOut, !.lo = ScratchOut]
           /\ last' = FailedSig
           /\ Status("6A80")
           /\ UNCHANGED <<sseed_ready, sig_ready, used>>
        \/ /\ sig \notin Unlucky
           /\ out' = [nonce |-> sig, lo |-> sig, hi |-> IF d = 10 THEN sig ELSE out.hi]
           /\ sig_ready' = d /\ sseed_ready' = 0
           /\ used' = [s \in TrngSeeds |-> used[s] + (IF s = sign_seed THEN 1 ELSE 0)]
           /\ last' = sig
           /\ Status("9000")

SignAll(d, size) ==
    /\ Idle /\ size = Length("SIGN_ALL")
    /\ \/ /\ msg_ready = 0 \/ sseed_ready = 0
          /\ Status("6A80")
          /\ UNCHANGED <<session, out, sig_ready, sseed_ready, used, last>>
       \/ /\ msg_ready = 1 /\ sseed_ready = 1
          /\ SessionSeed(d)
          /\ ~KeyOk(d, KeyId(seed'))
          /\ Status("6A80")
          /\ UNCHANGED <<out, sig_ready, sseed_ready, used, last>>
       \/ /\ msg_ready = 1 /\ sseed_ready = 1
          /\ SessionSeed(d)
          /\ KeyOk(d, KeyId(seed'))
          /\ SignOutput(d, nvm[d].fgF)
    /\ UNCHANGED <<mnemonic, power, nvm, msg, msg_ready, sign_seed, drawn, kg>>

GetNonce(d) ==
    /\ Idle
    /\ \/ sig_ready # d /\ Status("6A80")
       \/ sig_ready = d /\ Reply("GET_NONCE", d, "9000", {out.nonce})
    /\ UNCHANGED <<mnemonic, power, nvm, session, signing, kg>>

\* Mutant: GET_SIG tests only that some signature is ready.
GetSigAnyDegree(p1, d) ==
    /\ Idle
    /\ \/ /\ sig_ready = 0
          /\ Status("6A80")
       \/ /\ sig_ready # 0 /\ Off(p1) >= Total(d)
          /\ Status("6A86")
       \/ /\ sig_ready # 0 /\ Off(p1) < Total(d)
          /\ Reply("GET_SIG", d, "9000", OutParts(Off(p1), Total(d)))
    /\ UNCHANGED <<mnemonic, power, nvm, session, signing, kg>>

GetSig(p1, d) ==
    /\ Idle
    /\ \/ /\ sig_ready # d
          /\ Status("6A80")
       \/ /\ sig_ready = d /\ Off(p1) >= Total(d)
          /\ Status("6A86")
       \/ /\ sig_ready = d /\ Off(p1) < Total(d)
          /\ Reply("GET_SIG", d, "9000", OutParts(Off(p1), Total(d)))
    /\ UNCHANGED <<mnemonic, power, nvm, session, signing, kg>>

-----------------------------------------------------------------------------
(* Power: the app starts with its RAM cleared; it may stop at any moment.  *)

Start ==
    /\ power = "off" /\ power' = "on"
    /\ UNCHANGED <<mnemonic, nvm, session, signing, kg, resp>>

Torn(old, new) == IF old = new THEN old ELSE TornBytes

\* What a power loss leaves of the nvm_write in progress: the write not begun, or, for
\* the multi-byte fields, some bytes old and some new.  (A complete write is the write
\* step followed by a loss.)  A one-byte write is atomic.
TornWrite ==
    \/ UNCHANGED nvm
    \/ /\ kg.step = "key_id"
       /\ nvm' = [nvm EXCEPT ![kg.d] =
                    [nvm[kg.d] EXCEPT !.key_id = Torn(nvm[kg.d].key_id, KeyId(seed))]]
    \/ /\ kg.step = "fgF"
       /\ nvm' = [nvm EXCEPT ![kg.d] =
                    [nvm[kg.d] EXCEPT !.fgF = Torn(nvm[kg.d].fgF, Priv(seed))]]
    \/ /\ kg.step = "h"
       /\ nvm' = [nvm EXCEPT ![kg.d] =
                    [nvm[kg.d] EXCEPT !.h = Torn(nvm[kg.d].h, Pub(seed))]]

Stop ==
    /\ power = "on" /\ power' = "off"
    /\ TornWrite
    /\ LoseRam
    /\ UNCHANGED <<mnemonic, drawn, used>>

\* The user can only switch mnemonic or passphrase outside the app.
SwitchMnemonic ==
    /\ power = "off"
    /\ mnemonic' \in Mnemonics \ {mnemonic}
    /\ UNCHANGED <<power, nvm, session, signing, kg, resp>>

-----------------------------------------------------------------------------

Handlers ==
    \/ \E cmd \in {"KEYGEN", "GET_PK", "SIGN", "GET_SIG"} \cup BadP1, p2 \in P2Values :
          RefuseP1P2(cmd, p2)
    \/ \E d \in Degrees :
        \/ \E size \in Sizes :
            \/ \E cmd \in {"KEYGEN", "INIT", "FEED_MSG", "FEED_SEED", "GEN_SEED", "SIGN_ALL"} :
                  RefuseLength(cmd, d, size)
            \/ KeygenStart(d, size)
            \/ SignInit(d, size)
            \/ \E m \in Msgs : FeedMsg(d, size, m)
            \/ \E s \in HostSeeds : FeedSeed(d, size, s)
            \/ GenSeed(d, size)
            \/ SignAll(d, size)
        \/ GetNonce(d)
        \/ \E p1 \in Chunks : GetPk(p1, d) \/ GetSig(p1, d)

Next == Handlers \/ KeygenStep \/ Start \/ Stop \/ SwitchMnemonic

\* Once an APDU is accepted the processor runs its handler to the end.
Fairness == WF_vars(KeygenStep)

Spec == Init /\ [][Next]_vars /\ Fairness

-----------------------------------------------------------------------------
(* Properties.                                                             *)

KeyFields == {Blank, TornBytes} \cup {KeyId(s) : s \in Seeds} \cup {Priv(s) : s \in Seeds}
                \cup {Pub(s) : s \in Seeds} \cup {OldLayout(s) : s \in Seeds}

\* Type invariant of the RAM session, the NVM records and the KEYGEN progress.
TypeOK ==
    /\ mnemonic \in Mnemonics
    /\ power \in {"on", "off"}
    /\ nvm \in [Degrees -> [key_id : KeyFields, fgF : KeyFields, h : KeyFields,
                            fmt : {0, FMT}, ready : {0, 1}]]
    /\ seed \in Seeds \cup {NoSeed}
    /\ seed_ready \in Degrees \cup {0}
    /\ msg_ready \in {0, 1} /\ sseed_ready \in {0, 1}
    /\ sig_ready \in Degrees \cup {0}
    /\ kg \in [step : {"idle", "clear", "key_id", "fgF", "h", "fmt", "ready", "reply"},
               d : Degrees \cup {0}]
    /\ drawn \subseteq TrngSeeds
    /\ used \in [TrngSeeds -> Nat]

\* A record that key_ok would accept for some seed (ready = 1, current fmt) holds the
\* id, the private key and the public key of one and the same seed, at every instant:
\* between the nvm_writes of KEYGEN and after a power loss inside any of them.
AcceptedRecordIsWhole ==
    \A d \in Degrees :
        nvm[d].ready = 1 /\ nvm[d].fmt = FMT =>
            \E m \in Mnemonics :
                /\ nvm[d].key_id = KeyId(SeedOf(m, d))
                /\ nvm[d].fgF = Priv(SeedOf(m, d))
                /\ nvm[d].h = Pub(SeedOf(m, d))

\* KEYGEN and GET_PK only ever answer with the public key that the mnemonic now in the
\* device derives for the requested degree, whatever the record or the seed cache held.
ServedKeyIsSessionKey ==
    resp.ins \in {"KEYGEN", "GET_PK"} /\ resp.sw = "9000" =>
        resp.data = {Pub(SeedOf(mnemonic, resp.d))}

\* After a successful SIGN_ALL, GET_NONCE and every GET_SIG chunk come from that one
\* signature, made for the requested degree with the private key the current mnemonic
\* derives: no zero bytes, no bytes of another degree's or an earlier signature.
ServedSignatureIsLast ==
    resp.ins \in {"GET_NONCE", "GET_SIG"} /\ resp.sw = "9000" /\ last # FailedSig =>
        /\ resp.data = {last}
        /\ last.d = resp.d /\ last.key = Priv(SeedOf(mnemonic, resp.d))

\* "One signature per seed": no 40-byte TRNG seed makes two signatures, across INIT,
\* failed attempts, both degrees and restarts.
OneSignaturePerSeed == \A s \in TrngSeeds : used[s] <= 1

\* A record that is valid for the mnemonic in the device is never written again
\* (KEYGEN is idempotent, whichever degree's seed the session has cached).
ValidRecordNeverRewritten ==
    [][\A d \in Degrees :
          KeyOk(d, KeyId(SeedOf(mnemonic, d))) => nvm'[d] = nvm[d]]_vars

\* An uninterrupted KEYGEN ends with a record accepted for the current mnemonic, even
\* over a torn, foreign or old-format record; only a power loss can prevent it.
KeygenDelivers ==
    \A d \in Degrees :
        (kg.step = "clear" /\ kg.d = d)
            ~> (power = "off" \/ (kg.step = "idle" /\ KeyOk(d, KeyId(SeedOf(mnemonic, d)))))

\* What an outside observer can tell of the records: the key that key_ok could accept,
\* and the keys in the answer now on the wire.
StoredKey == [d \in Degrees |->
                 IF nvm[d].ready = 1 /\ nvm[d].fmt = FMT THEN nvm[d].key_id.of ELSE NoSeed]
ServedKeys == IF resp.ins \in {"KEYGEN", "GET_PK"} THEN {x.of : x \in resp.data} ELSE {}

Store == INSTANCE KeyStore WITH store <- StoredKey, served <- ServedKeys

\* The records written piecewise under power losses behave as a store in which a key
\* appears and disappears in one step, is never dropped while it belongs to the mnemonic
\* in the device, and is served only then.
ImplementsKeyStore == Store!Spec

\* globals.h on sig_ready: "logn of the signature in out[], or 0".
SigReadyNamesSignature ==
    sig_ready # 0 =>
        /\ out.nonce.kind = "sig" /\ out.nonce.d = sig_ready
        /\ out.lo = out.nonce
        /\ sig_ready = 10 => out.hi = out.nonce

=============================================================================
