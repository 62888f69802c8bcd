-------------------------- MODULE FalconLR_proofs --------------------------
(***************************************************************************)
(* Proofs that the invariants of FalconLR hold for every set of mnemonics, *)
(* messages and seeds and for every set of failing signing inputs.         *)
(***************************************************************************)
EXTENDS FalconLR, TLAPS

(* The inductive invariant, part by part. *)

\* The seed slot holds the seed of the degree it claims, derived from the mnemonic now in
\* the device.
SeedCacheInv == seed_ready # 0 => seed = SeedOf(mnemonic, seed_ready)

\* Nothing of a session survives while the app is not running.
OffInv == power = "off" => /\ kg = NoKg /\ resp = NoResp
                           /\ seed_ready = 0 /\ sig_ready = 0 /\ sseed_ready = 0

\* How far KEYGEN has come determines which fields of the record are already those of
\* the session seed, and the record is not ready until all of them are.
KeygenInv ==
    kg.step # "idle" =>
        /\ power = "on" /\ kg.d \in Degrees /\ seed_ready = kg.d /\ resp = NoResp
        /\ kg.step = "clear" => ~KeyOk(kg.d, KeyId(seed))
        /\ kg.step \notin {"clear", "reply"} => nvm[kg.d].ready = 0
        /\ kg.step \in {"fgF", "h", "fmt", "ready", "reply"} => nvm[kg.d].key_id = KeyId(seed)
        /\ kg.step \in {"h", "fmt", "ready", "reply"} => nvm[kg.d].fgF = Priv(seed)
        /\ kg.step \in {"fmt", "ready", "reply"} => nvm[kg.d].h = Pub(seed)
        /\ kg.step \in {"ready", "reply"} => nvm[kg.d].fmt = FMT
        /\ kg.step = "reply" => nvm[kg.d].ready = 1

RecordInv == TypeOK /\ SeedCacheInv /\ OffInv /\ KeygenInv /\ AcceptedRecordIsWhole

\* Every field value KEYGEN writes has the type of a record field.
LEMMA FieldTypes ==
  ASSUME NEW s \in Seeds
  PROVE  /\ KeyId(s) \in KeyFields /\ Priv(s) \in KeyFields /\ Pub(s) \in KeyFields
         /\ OldLayout(s) \in KeyFields
  BY DEF KeyFields

\* So do the contents of a fresh record and of a torn one.
LEMMA ConstantFieldTypes == Blank \in KeyFields /\ TornBytes \in KeyFields
  BY DEF KeyFields

\* key_id determines the seed: records that agree on it belong to the same seed.
LEMMA KeyIdInjective ==
  ASSUME NEW s, NEW t, KeyId(s) = KeyId(t)
  PROVE  s = t
  BY DEF KeyId

\* A device just flashed, its records blank or in an older layout, satisfies RecordInv.
LEMMA InitRecordInv == Init => RecordInv
  <1> SUFFICES ASSUME Init PROVE RecordInv
    OBVIOUS
  <1>1. ASSUME NEW d \in Degrees
        PROVE  /\ nvm[d] \in [key_id : KeyFields, fgF : KeyFields, h : KeyFields,
                              fmt : {0, FMT}, ready : {0, 1}]
               /\ nvm[d].fmt = 0
    <2>1. CASE nvm[d] = BlankRecord
      BY <2>1, ConstantFieldTypes DEF BlankRecord, FMT
    <2>2. ASSUME NEW m \in Mnemonics, nvm[d] = OldRecord(SeedOf(m, d))
          PROVE  <1>1!2
      <3>1. SeedOf(m, d) \in Seeds
        BY DEF SeedOf, Seeds
      <3> QED
        BY <2>2, <3>1, FieldTypes DEF OldRecord, FMT
    <2> QED
      BY <2>1, <2>2 DEF Init, InstallRecords
  <1>2. TypeOK
    BY <1>1 DEF Init, RamCleared, TypeOK, NoKg
  <1>3. AcceptedRecordIsWhole
    BY <1>1 DEF AcceptedRecordIsWhole, FMT
  <1> QED
    BY <1>2, <1>3 DEF Init, RamCleared, RecordInv, SeedCacheInv, OffInv, KeygenInv, NoKg

-----------------------------------------------------------------------------
(* Preservation of RecordInv, one lemma per group of actions. *)

\* A handler that leaves the records, the seed cache and KEYGEN alone preserves RecordInv
\* as long as the remaining session bytes keep their types.
LEMMA QuietStep ==
  ASSUME RecordInv, Idle,
         UNCHANGED <<mnemonic, power, nvm, session, kg>>,
         msg_ready' \in {0, 1}, sseed_ready' \in {0, 1}, sig_ready' \in Degrees \cup {0},
         drawn' \subseteq TrngSeeds, used' \in [TrngSeeds -> Nat]
  PROVE  RecordInv'
  BY DEF RecordInv, TypeOK, SeedCacheInv, OffInv, KeygenInv, AcceptedRecordIsWhole, Idle,
         session, KeyOk

\* The same for a handler that goes through session_seed.
LEMMA SessionStep ==
  ASSUME RecordInv, Idle, NEW d \in Degrees, SessionSeed(d),
         UNCHANGED <<mnemonic, power, nvm, kg>>,
         msg_ready' \in {0, 1}, sseed_ready' \in {0, 1}, sig_ready' \in Degrees \cup {0},
         drawn' \subseteq TrngSeeds, used' \in [TrngSeeds -> Nat]
  PROVE  RecordInv'
  <1>1. seed' = SeedOf(mnemonic, d) /\ seed_ready' = d
    BY DEF SessionSeed, RecordInv, SeedCacheInv, Degrees
  <1>2. seed' \in Seeds
    BY <1>1 DEF SeedOf, Seeds, RecordInv, TypeOK
  <1> QED
    BY <1>1, <1>2 DEF RecordInv, TypeOK, SeedCacheInv, OffInv, KeygenInv,
         AcceptedRecordIsWhole, Idle, KeyOk

\* After session_seed the cached seed is the one of the mnemonic and the degree asked for.
LEMMA SessionSeedValue ==
  ASSUME SeedCacheInv, NEW d \in Degrees, SessionSeed(d)
  PROVE  seed' = SeedOf(mnemonic, d)
  BY DEF SessionSeed, SeedCacheInv, Degrees

\* The signing core leaves flags of the right types, whether it succeeds or fails.
LEMMA SignOutputTypes ==
  ASSUME TypeOK, NEW d \in Degrees, NEW key, SignOutput(d, key)
  PROVE  /\ sseed_ready' \in {0, 1} /\ sig_ready' \in Degrees \cup {0}
         /\ used' \in [TrngSeeds -> Nat]
  BY DEF SignOutput, TypeOK

\* SIGN_ALL preserves RecordInv.
LEMMA SignAllStep ==
  ASSUME RecordInv, NEW d \in Degrees, NEW size, SignAll(d, size)
  PROVE  RecordInv'
  <1> USE DEF SignAll
  <1>1. CASE UNCHANGED <<session, out, sig_ready, sseed_ready, used, last>>
    BY <1>1, QuietStep DEF RecordInv, TypeOK
  <1>2. CASE SessionSeed(d) /\ UNCHANGED <<out, sig_ready, sseed_ready, used, last>>
    BY <1>2, SessionStep DEF RecordInv, TypeOK
  <1>3. CASE SessionSeed(d) /\ SignOutput(d, nvm[d].fgF)
    BY <1>3, SignOutputTypes, SessionStep DEF RecordInv, TypeOK
  <1> QED
    BY <1>1, <1>2, <1>3

\* The part of KEYGEN before its first nvm_write preserves RecordInv.
LEMMA KeygenStartStep ==
  ASSUME RecordInv, NEW d \in Degrees, NEW size, KeygenStart(d, size)
  PROVE  RecordInv'
  <1> USE DEF KeygenStart
  <1>0. /\ msg_ready' \in {0, 1} /\ sseed_ready' \in {0, 1} /\ sig_ready' \in Degrees \cup {0}
        /\ drawn' \subseteq TrngSeeds /\ used' \in [TrngSeeds -> Nat]
    BY DEF signing, RecordInv, TypeOK
  <1>1. CASE UNCHANGED kg
    BY <1>0, <1>1, SessionStep
  <1>2. CASE ~KeyOk(d, KeyId(seed')) /\ kg' = [step |-> "clear", d |-> d] /\ resp' = NoResp
    <2>1. seed' = SeedOf(mnemonic, d) /\ seed_ready' = d
      BY SessionSeedValue DEF SessionSeed, RecordInv
    <2>2. seed' \in Seeds
      BY <2>1 DEF SeedOf, Seeds, RecordInv, TypeOK
    <2> QED
      BY <1>0, <1>2, <2>1, <2>2 DEF RecordInv, TypeOK, SeedCacheInv, OffInv, KeygenInv,
           AcceptedRecordIsWhole, Idle, KeyOk
  <1> QED
    BY <1>1, <1>2

\* The record of the degree KEYGEN works on is rewritten by one nvm_write.
LEMMA KeygenWriteStep ==
  ASSUME RecordInv, NEW step, NEW next, NEW rec,
         KeygenWrite(step, rec, next),
         step \in {"clear", "key_id", "fgF", "h", "fmt", "ready"},
         next \in {"key_id", "fgF", "h", "fmt", "ready", "reply"},
         rec \in [key_id : KeyFields, fgF : KeyFields, h : KeyFields,
                  fmt : {0, FMT}, ready : {0, 1}],
         next # "reply" => rec.ready = 0,
         next \in {"fgF", "h", "fmt", "ready", "reply"} => rec.key_id = KeyId(seed),
         next \in {"h", "fmt", "ready", "reply"} => rec.fgF = Priv(seed),
         next \in {"fmt", "ready", "reply"} => rec.h = Pub(seed),
         next \in {"ready", "reply"} => rec.fmt = FMT,
         next = "reply" => rec.ready = 1
  PROVE  RecordInv'
  <1> USE DEF KeygenWrite
  <1>1. kg.d \in Degrees /\ seed_ready = kg.d /\ seed = SeedOf(mnemonic, kg.d) /\ resp = NoResp
    BY DEF RecordInv, KeygenInv, SeedCacheInv, Degrees
  <1>2. /\ nvm'[kg.d] = rec /\ kg'.step = next /\ kg'.d = kg.d
        /\ \A d \in Degrees \ {kg.d} : nvm'[d] = nvm[d]
    BY <1>1 DEF RecordInv, TypeOK
  <1>3. TypeOK'
    BY <1>1 DEF RecordInv, TypeOK, session, signing
  <1>4. SeedCacheInv' /\ OffInv'
    BY DEF RecordInv, SeedCacheInv, OffInv, session, signing
  <1>5. KeygenInv'
    BY <1>1, <1>2 DEF KeygenInv, session
  <1>6. AcceptedRecordIsWhole'
    <2> SUFFICES ASSUME NEW d \in Degrees, nvm'[d].ready = 1, nvm'[d].fmt = FMT
                 PROVE  \E m \in Mnemonics :
                           /\ nvm'[d].key_id = KeyId(SeedOf(m, d))
                           /\ nvm'[d].fgF = Priv(SeedOf(m, d))
                           /\ nvm'[d].h = Pub(SeedOf(m, d))
      BY DEF AcceptedRecordIsWhole
    <2>1. CASE d = kg.d
      BY <1>1, <1>2, <2>1 DEF RecordInv, TypeOK
    <2>2. CASE d # kg.d
      BY <1>2, <2>2 DEF RecordInv, AcceptedRecordIsWhole
    <2> QED
      BY <2>1, <2>2
  <1> QED
    BY <1>3, <1>4, <1>5, <1>6 DEF RecordInv

\* Every nvm_write of KEYGEN, and its reply, preserves RecordInv.
LEMMA KeygenStepStep ==
  ASSUME RecordInv, KeygenStep
  PROVE  RecordInv'
  <1> DEFINE rec == nvm[kg.d]
             Records == [key_id : KeyFields, fgF : KeyFields, h : KeyFields,
                         fmt : {0, FMT}, ready : {0, 1}]
  <1>1. ASSUME kg.step # "idle"
        PROVE  /\ rec \in Records /\ seed \in Seeds
               /\ KeyId(seed) \in KeyFields /\ Priv(seed) \in KeyFields /\ Pub(seed) \in KeyFields
    <2>1. kg.d \in Degrees /\ seed = SeedOf(mnemonic, kg.d)
      BY <1>1 DEF RecordInv, KeygenInv, SeedCacheInv, Degrees
    <2>2. seed \in Seeds
      BY <2>1 DEF SeedOf, Seeds, RecordInv, TypeOK
    <2> QED
      BY <2>1, <2>2, FieldTypes DEF RecordInv, TypeOK
  <1>2. CASE KeygenClear
    <2>1. kg.step = "clear"
      BY <1>2 DEF KeygenClear, KeygenWrite
    <2>2. [rec EXCEPT !.ready = 0] \in Records
      BY <1>1, <2>1
    <2> QED
      BY <1>1, <1>2, <2>1, <2>2, KeygenWriteStep DEF KeygenClear
  <1>3. CASE KeygenKeyId
    <2>1. kg.step = "key_id" /\ rec.ready = 0
      BY <1>3 DEF KeygenKeyId, KeygenWrite, RecordInv, KeygenInv
    <2>2. [rec EXCEPT !.key_id = KeyId(seed)] \in Records
      BY <1>1, <2>1
    <2> QED
      BY <1>1, <1>3, <2>1, <2>2, KeygenWriteStep DEF KeygenKeyId
  <1>4. CASE KeygenFgF
    <2>1. kg.step = "fgF" /\ rec.ready = 0 /\ rec.key_id = KeyId(seed)
      BY <1>4 DEF KeygenFgF, KeygenWrite, RecordInv, KeygenInv
    <2>2. [rec EXCEPT !.fgF = Priv(seed)] \in Records
      BY <1>1, <2>1
    <2> QED
      BY <1>1, <1>4, <2>1, <2>2, KeygenWriteStep DEF KeygenFgF
  <1>5. CASE KeygenH
    <2>1. kg.step = "h" /\ rec.ready = 0 /\ rec.key_id = KeyId(seed) /\ rec.fgF = Priv(seed)
      BY <1>5 DEF KeygenH, KeygenWrite, RecordInv, KeygenInv
    <2>2. [rec EXCEPT !.h = Pub(seed)] \in Records
      BY <1>1, <2>1
    <2> QED
      BY <1>1, <1>5, <2>1, <2>2, KeygenWriteStep DEF KeygenH
  <1>6. CASE KeygenFmt
    <2>1. /\ kg.step = "fmt" /\ rec.ready = 0 /\ rec.key_id = KeyId(seed)
          /\ rec.fgF = Priv(seed) /\ rec.h = Pub(seed)
      BY <1>6 DEF KeygenFmt, KeygenWrite, RecordInv, KeygenInv
    <2>2. [rec EXCEPT !.fmt = FMT] \in Records
      BY <1>1, <2>1
    <2> QED
      BY <1>1, <1>6, <2>1, <2>2, KeygenWriteStep DEF KeygenFmt
  <1>7. CASE KeygenReady
    <2>1. /\ kg.step = "ready" /\ rec.key_id = KeyId(seed)
          /\ rec.fgF = Priv(seed) /\ rec.h = Pub(seed) /\ rec.fmt = FMT
      BY <1>7 DEF KeygenReady, KeygenWrite, RecordInv, KeygenInv
    <2>2. [rec EXCEPT !.ready = 1] \in Records
      BY <1>1, <2>1
    <2> QED
      BY <1>1, <1>7, <2>1, <2>2, KeygenWriteStep DEF KeygenReady
  <1>8. CASE KeygenReply
    BY <1>8 DEF KeygenReply, Reply, NoKg, session, signing, RecordInv, TypeOK, SeedCacheInv,
         OffInv, KeygenInv, AcceptedRecordIsWhole, KeyOk
  <1> QED
    BY <1>2, <1>3, <1>4, <1>5, <1>6, <1>7, <1>8 DEF KeygenStep

\* A power loss leaves a torn field only in a record whose ready byte is 0.
LEMMA TornWriteRecords ==
  ASSUME RecordInv, TornWrite, NEW d \in Degrees
  PROVE  /\ nvm'[d] \in [key_id : KeyFields, fgF : KeyFields, h : KeyFields,
                         fmt : {0, FMT}, ready : {0, 1}]
         /\ nvm' = [x \in Degrees |-> nvm'[x]]
         /\ nvm'[d].ready = nvm[d].ready
         /\ nvm[d].ready = 1 => nvm'[d] = nvm[d]
  <1>1. CASE UNCHANGED nvm
    BY <1>1 DEF RecordInv, TypeOK
  <1>2. CASE kg.step \in {"key_id", "fgF", "h"}
    <2>1. kg.d \in Degrees /\ seed = SeedOf(mnemonic, kg.d) /\ nvm[kg.d].ready = 0
      BY <1>2 DEF RecordInv, KeygenInv, SeedCacheInv, Degrees
    <2>2. seed \in Seeds
      BY <2>1 DEF SeedOf, Seeds, RecordInv, TypeOK
    <2>3. /\ Torn(nvm[kg.d].key_id, KeyId(seed)) \in KeyFields
          /\ Torn(nvm[kg.d].fgF, Priv(seed)) \in KeyFields
          /\ Torn(nvm[kg.d].h, Pub(seed)) \in KeyFields
      BY <2>1, <2>2, FieldTypes, ConstantFieldTypes DEF Torn, RecordInv, TypeOK
    <2>4. nvm \in [Degrees -> [key_id : KeyFields, fgF : KeyFields, h : KeyFields,
                               fmt : {0, FMT}, ready : {0, 1}]]
      BY DEF RecordInv, TypeOK
    <2> QED
      BY <1>1, <2>1, <2>3, <2>4 DEF TornWrite
  <1> QED
    BY <1>1, <1>2 DEF TornWrite

\* A power loss at any moment preserves RecordInv.
LEMMA StopStep ==
  ASSUME RecordInv, Stop
  PROVE  RecordInv'
  <1>1. TypeOK'
    <2>1. nvm' \in [Degrees -> [key_id : KeyFields, fgF : KeyFields, h : KeyFields,
                                fmt : {0, FMT}, ready : {0, 1}]]
      BY TornWriteRecords DEF Stop, Degrees
    <2> QED
      BY <2>1 DEF Stop, LoseRam, NoKg, RecordInv, TypeOK
  <1>2. AcceptedRecordIsWhole'
    <2>1. ASSUME NEW d \in Degrees, nvm'[d].ready = 1
          PROVE  nvm'[d] = nvm[d]
      BY <2>1, TornWriteRecords DEF Stop
    <2> QED
      BY <2>1 DEF RecordInv, AcceptedRecordIsWhole
  <1> QED
    BY <1>1, <1>2 DEF Stop, LoseRam, NoKg, RecordInv, SeedCacheInv, OffInv, KeygenInv

\* So do the start of the app and a change of mnemonic outside it.
LEMMA PowerStep ==
  ASSUME RecordInv, Start \/ SwitchMnemonic
  PROVE  RecordInv'
  BY DEF Start, SwitchMnemonic, session, signing, NoKg, RecordInv, TypeOK, SeedCacheInv,
       OffInv, KeygenInv, AcceptedRecordIsWhole

\* Every APDU that finds the device idle preserves RecordInv.
LEMMA HandlersStep ==
  ASSUME RecordInv, Handlers
  PROVE  RecordInv'
  <1>0. /\ msg_ready \in {0, 1} /\ sseed_ready \in {0, 1} /\ sig_ready \in Degrees \cup {0}
        /\ drawn \subseteq TrngSeeds /\ used \in [TrngSeeds -> Nat]
    BY DEF RecordInv, TypeOK
  <1>1. ASSUME NEW cmd, NEW p2, RefuseP1P2(cmd, p2)
        PROVE  RecordInv'
    BY <1>0, <1>1, QuietStep DEF RefuseP1P2, signing
  <1>2. ASSUME NEW cmd, NEW d, NEW size, RefuseLength(cmd, d, size)
        PROVE  RecordInv'
    BY <1>0, <1>2, QuietStep DEF RefuseLength, signing
  <1>3. ASSUME NEW d, NEW size, SignInit(d, size)
        PROVE  RecordInv'
    BY <1>0, <1>3, QuietStep DEF SignInit
  <1>4. ASSUME NEW d, NEW size, NEW m, FeedMsg(d, size, m)
        PROVE  RecordInv'
    BY <1>0, <1>4, QuietStep DEF FeedMsg
  <1>5. ASSUME NEW d, NEW size, NEW s, FeedSeed(d, size, s)
        PROVE  RecordInv'
    BY <1>0, <1>5, QuietStep DEF FeedSeed
  <1>6. ASSUME NEW d, NEW size, GenSeed(d, size)
        PROVE  RecordInv'
    BY <1>0, <1>6, QuietStep DEF GenSeed
  <1>7. ASSUME NEW d, GetNonce(d)
        PROVE  RecordInv'
    BY <1>0, <1>7, QuietStep DEF GetNonce, signing
  <1>8. ASSUME NEW d, NEW p1, GetSig(p1, d)
        PROVE  RecordInv'
    BY <1>0, <1>8, QuietStep DEF GetSig, signing
  <1>9. ASSUME NEW d \in Degrees, NEW p1, GetPk(p1, d)
        PROVE  RecordInv'
    BY <1>0, <1>9, SessionStep DEF GetPk, signing
  <1> QED
    BY <1>1, <1>2, <1>3, <1>4, <1>5, <1>6, <1>7, <1>8, <1>9, KeygenStartStep, SignAllStep
       DEF Handlers

\* A stuttering step preserves RecordInv.
LEMMA StutterStep ==
  ASSUME RecordInv, UNCHANGED vars
  PROVE  RecordInv'
  BY DEF vars, RecordInv, TypeOK, SeedCacheInv, OffInv, KeygenInv, AcceptedRecordIsWhole, KeyOk

\* RecordInv is inductive.
LEMMA NextRecordInv == RecordInv /\ [Next]_vars => RecordInv'
  BY HandlersStep, KeygenStepStep, StopStep, PowerStep, StutterStep DEF Next

\* RecordInv, which ties the NVM records to the seed cache and to KEYGEN's progress, holds in
\* every reachable state.
THEOREM RecordInvariance == Spec => []RecordInv
  BY InitRecordInv, NextRecordInv, PTL DEF Spec

\* The session, the records and KEYGEN's progress are always well typed, whatever the host
\* sends and whenever the power fails.
THEOREM TypeCorrect == Spec => []TypeOK
  <1>1. RecordInv => TypeOK
    BY DEF RecordInv
  <1> QED
    BY <1>1, RecordInvariance, PTL

\* A record key_ok could accept is one whole key, at every instant and after a power loss
\* in any nvm_write of KEYGEN.
THEOREM RecordsWhole == Spec => []AcceptedRecordIsWhole
  <1>1. RecordInv => AcceptedRecordIsWhole
    BY DEF RecordInv
  <1> QED
    BY <1>1, RecordInvariance, PTL

-----------------------------------------------------------------------------
(* What the host is served. *)

\* A record key_ok accepts for the current mnemonic holds that mnemonic's public and private key.
LEMMA AcceptedIsSession ==
  ASSUME RecordInv, NEW d \in Degrees, KeyOk(d, KeyId(SeedOf(mnemonic, d)))
  PROVE  nvm[d].h = Pub(SeedOf(mnemonic, d)) /\ nvm[d].fgF = Priv(SeedOf(mnemonic, d))
  <1>1. PICK m \in Mnemonics : /\ nvm[d].key_id = KeyId(SeedOf(m, d))
                               /\ nvm[d].fgF = Priv(SeedOf(m, d))
                               /\ nvm[d].h = Pub(SeedOf(m, d))
    BY DEF RecordInv, AcceptedRecordIsWhole, KeyOk
  <1>2. SeedOf(m, d) = SeedOf(mnemonic, d)
    BY <1>1, KeyIdInjective DEF KeyOk
  <1> QED
    BY <1>1, <1>2

\* An answer without data serves no key.
LEMMA StatusServesNoKey ==
  ASSUME NEW sw, Status(sw)
  PROVE  resp'.ins = "none" /\ resp'.data = {} /\ ServedKeyIsSessionKey'
  BY DEF Status, NoResp, ServedKeyIsSessionKey

\* Every step preserves ServedKeyIsSessionKey.
LEMMA NextServedKey ==
  RecordInv /\ ServedKeyIsSessionKey /\ [Next]_vars => ServedKeyIsSessionKey'
  <1> SUFFICES ASSUME RecordInv, ServedKeyIsSessionKey, [Next]_vars
               PROVE  ServedKeyIsSessionKey'
    OBVIOUS
  <1>1. ASSUME NEW d \in Degrees, NEW size, KeygenStart(d, size)
        PROVE  ServedKeyIsSessionKey'
    <2>1. seed' = SeedOf(mnemonic, d)
      BY <1>1, SessionSeedValue DEF RecordInv, KeygenStart
    <2>2. CASE KeyOk(d, KeyId(seed')) /\ Reply("KEYGEN", d, "9000", {nvm[d].h})
      <3>1. nvm[d].h = Pub(SeedOf(mnemonic, d))
        BY <2>1, <2>2, AcceptedIsSession
      <3> QED
        BY <1>1, <2>2, <3>1 DEF KeygenStart, Reply, ServedKeyIsSessionKey
    <2>3. CASE resp' = NoResp
      BY <2>3 DEF NoResp, ServedKeyIsSessionKey
    <2> QED
      BY <1>1, <2>2, <2>3 DEF KeygenStart
  <1>2. ASSUME NEW d \in Degrees, NEW p1, GetPk(p1, d)
        PROVE  ServedKeyIsSessionKey'
    <2>1. seed' = SeedOf(mnemonic, d)
      BY <1>2, SessionSeedValue DEF RecordInv, GetPk
    <2>2. CASE KeyOk(d, KeyId(seed')) /\ Reply("GET_PK", d, "9000", {nvm[d].h})
      <3>1. nvm[d].h = Pub(SeedOf(mnemonic, d))
        BY <2>1, <2>2, AcceptedIsSession
      <3> QED
        BY <1>2, <2>2, <3>1 DEF GetPk, Reply, ServedKeyIsSessionKey
    <2>3. CASE Status("6A80") \/ Status("6A86")
      BY <2>3, StatusServesNoKey
    <2> QED
      BY <1>2, <2>2, <2>3 DEF GetPk
  <1>3. CASE KeygenReply
    <2>1. kg.d \in Degrees /\ seed = SeedOf(mnemonic, kg.d) /\ nvm[kg.d].h = Pub(seed)
      BY <1>3 DEF KeygenReply, RecordInv, KeygenInv, SeedCacheInv, Degrees
    <2> QED
      BY <1>3, <2>1 DEF KeygenReply, Reply, ServedKeyIsSessionKey
  <1>4. ASSUME NEW step, NEW rec, NEW next, KeygenWrite(step, rec, next)
        PROVE  ServedKeyIsSessionKey'
    BY <1>4 DEF KeygenWrite, ServedKeyIsSessionKey
  <1>5. CASE Start \/ Stop \/ SwitchMnemonic
    BY <1>5 DEF Start, Stop, SwitchMnemonic, LoseRam, NoResp, RecordInv, OffInv,
         ServedKeyIsSessionKey
  <1>6. ASSUME NEW d, NEW size, SignAll(d, size)
        PROVE  ServedKeyIsSessionKey'
    BY <1>6, StatusServesNoKey DEF SignAll, SignOutput
  <1>7. ASSUME NEW d, GetNonce(d)
        PROVE  ServedKeyIsSessionKey'
    BY <1>7, StatusServesNoKey DEF GetNonce, Reply, ServedKeyIsSessionKey
  <1>8. ASSUME NEW d, NEW p1, GetSig(p1, d)
        PROVE  ServedKeyIsSessionKey'
    BY <1>8, StatusServesNoKey DEF GetSig, Reply, ServedKeyIsSessionKey
  <1>9. CASE Handlers
    BY <1>1, <1>2, <1>6, <1>7, <1>8, <1>9, StatusServesNoKey
       DEF Handlers, RefuseP1P2, RefuseLength, SignInit, FeedMsg, FeedSeed, GenSeed
  <1>10. CASE KeygenStep
    BY <1>3, <1>4, <1>10 DEF KeygenStep, KeygenClear, KeygenKeyId, KeygenFgF, KeygenH,
         KeygenFmt, KeygenReady
  <1>11. CASE UNCHANGED vars
    BY <1>11 DEF vars, ServedKeyIsSessionKey
  <1> QED
    BY <1>5, <1>9, <1>10, <1>11 DEF Next

\* KEYGEN and GET_PK answer only with the public key of the mnemonic in the device, for
\* every history of sessions, mnemonics, degrees and power losses.
THEOREM ServedKey == Spec => []ServedKeyIsSessionKey
  <1>1. Init => ServedKeyIsSessionKey
    BY DEF Init, RamCleared, NoResp, ServedKeyIsSessionKey
  <1> QED
    BY <1>1, RecordInvariance, NextServedKey, PTL DEF Spec

-----------------------------------------------------------------------------
(* Signing seeds. *)

\* A loaded TRNG seed has been drawn and has not signed; no seed signs before it is drawn.
SeedUseInv ==
    \A s \in TrngSeeds :
        /\ used[s] <= 1
        /\ s \notin drawn => used[s] = 0
        /\ sseed_ready = 1 /\ sign_seed = s => used[s] = 0 /\ s \in drawn

\* Every step preserves SeedUseInv.
LEMMA NextSeedUse == TypeOK /\ SeedUseInv /\ [Next]_vars => SeedUseInv'
  <1> SUFFICES ASSUME TypeOK, SeedUseInv, [Next]_vars
               PROVE  SeedUseInv'
    OBVIOUS
  <1>1. CASE UNCHANGED <<sign_seed, sseed_ready, drawn, used>>
    BY <1>1 DEF SeedUseInv
  <1>2. ASSUME sseed_ready' = 0, UNCHANGED <<drawn, used>>
        PROVE  SeedUseInv'
    BY <1>2 DEF SeedUseInv
  <1>3. ASSUME NEW d, NEW size, NEW s \in HostSeeds, FeedSeed(d, size, s)
        PROVE  SeedUseInv'
    BY <1>3, ConstantsAssumption DEF FeedSeed, SeedUseInv
  <1>4. ASSUME NEW d, NEW size, GenSeed(d, size)
        PROVE  SeedUseInv'
    BY <1>4 DEF GenSeed, SeedUseInv
  <1>5. ASSUME NEW d, NEW size, SignAll(d, size)
        PROVE  SeedUseInv'
    <2>1. CASE UNCHANGED <<sseed_ready, used>>
      BY <1>1, <1>5, <2>1 DEF SignAll
    <2>2. CASE /\ sseed_ready = 1 /\ sseed_ready' = 0
               /\ used' = [s \in TrngSeeds |-> used[s] + (IF s = sign_seed THEN 1 ELSE 0)]
      <3>1. UNCHANGED drawn
        BY <1>5 DEF SignAll
      <3>2. ASSUME NEW s \in TrngSeeds
            PROVE  /\ used'[s] <= 1
                   /\ s \notin drawn => used'[s] = 0
        BY <2>2 DEF SeedUseInv, TypeOK
      <3> QED
        BY <2>2, <3>1, <3>2 DEF SeedUseInv
    <2> QED
      BY <1>5, <2>1, <2>2 DEF SignAll, SignOutput
  <1>6. CASE Handlers
    BY <1>1, <1>2, <1>3, <1>4, <1>5, <1>6 DEF Handlers, RefuseP1P2, RefuseLength, KeygenStart,
         SignInit, FeedMsg, GetNonce, GetPk, GetSig, signing
  <1>7. CASE KeygenStep
    BY <1>1, <1>7 DEF KeygenStep, KeygenClear, KeygenKeyId, KeygenFgF, KeygenH, KeygenFmt,
         KeygenReady, KeygenReply, KeygenWrite, signing
  <1>8. CASE Start \/ Stop \/ SwitchMnemonic
    BY <1>1, <1>2, <1>8 DEF Start, Stop, SwitchMnemonic, LoseRam, signing
  <1>9. CASE UNCHANGED vars
    BY <1>1, <1>9 DEF vars
  <1> QED
    BY <1>6, <1>7, <1>8, <1>9 DEF Next

\* No TRNG seed ever makes two signatures (README: "one signature per seed").
THEOREM OneSignature == Spec => []OneSignaturePerSeed
  <1>1. Init => SeedUseInv
    BY DEF Init, RamCleared, SeedUseInv
  <1>2. SeedUseInv => OneSignaturePerSeed
    BY DEF SeedUseInv, OneSignaturePerSeed
  <1> QED
    BY <1>1, <1>2, TypeCorrect, NextSeedUse, PTL DEF Spec

-----------------------------------------------------------------------------
(* The signature in out. *)

\* Unless the last SIGN_ALL failed, sig_ready names a signature of the current mnemonic's
\* key that fills the nonce and all of s2 for that degree.
SigInv ==
    sig_ready # 0 /\ last # FailedSig =>
        /\ last.d = sig_ready /\ last.key = Priv(SeedOf(mnemonic, sig_ready))
        /\ out.nonce = last /\ out.lo = last
        /\ sig_ready = 10 => out.hi = last

\* A chunk of a buffer filled by one signature comes from that signature only.
LEMMA ChunkOfSignature ==
  ASSUME NEW d \in Degrees, NEW p1 \in Nat, Off(p1) < Total(d), NEW v,
         out.lo = v, d = 10 => out.hi = v
  PROVE  OutParts(Off(p1), Total(d)) = {v}
  BY DEF OutParts, Total, Off, Degrees

\* SIGN_ALL leaves out and sig_ready describing the signature it made.
LEMMA SignAllSig ==
  ASSUME RecordInv, SigInv, NEW d \in Degrees, NEW size, SignAll(d, size)
  PROVE  SigInv'
  <1>1. CASE UNCHANGED <<out, sig_ready, last>>
    BY <1>1 DEF SignAll, SigInv
  <1>2. CASE SessionSeed(d) /\ KeyOk(d, KeyId(seed')) /\ SignOutput(d, nvm[d].fgF)
    <2>1. nvm[d].fgF = Priv(SeedOf(mnemonic, d))
      BY <1>2, SessionSeedValue, AcceptedIsSession DEF RecordInv
    <2>2. CASE last' = FailedSig
      BY <2>2 DEF SigInv
    <2>3. CASE SigOf(d, nvm[d].fgF, msg, sign_seed) \notin Unlucky
      BY <1>2, <2>1, <2>3 DEF SignOutput, SigOf, SigInv, SignAll
    <2> QED
      BY <1>2, <2>2, <2>3 DEF SignOutput
  <1> QED
    BY <1>1, <1>2 DEF SignAll

\* An answer without data serves no signature.
LEMMA StatusServesNoSig ==
  ASSUME NEW sw, Status(sw)
  PROVE  ServedSignatureIsLast'
  BY DEF Status, NoResp, ServedSignatureIsLast

\* Every step preserves SigInv and ServedSignatureIsLast.
LEMMA NextServedSig ==
  RecordInv /\ SigInv /\ ServedSignatureIsLast /\ [Next]_vars
      => SigInv' /\ ServedSignatureIsLast'
  <1> SUFFICES ASSUME RecordInv, SigInv, ServedSignatureIsLast, [Next]_vars
               PROVE  SigInv' /\ ServedSignatureIsLast'
    OBVIOUS
  <1>1. ASSUME UNCHANGED <<mnemonic, out, sig_ready, last>>
        PROVE  SigInv'
    BY <1>1 DEF SigInv
  <1>2. ASSUME sig_ready' = 0
        PROVE  SigInv'
    BY <1>2 DEF SigInv
  <1>3. ASSUME NEW d \in Degrees, NEW size, SignAll(d, size)
        PROVE  SigInv' /\ ServedSignatureIsLast'
    BY <1>3, SignAllSig, StatusServesNoSig DEF SignAll, SignOutput
  <1>4. ASSUME NEW d \in Degrees, GetNonce(d)
        PROVE  SigInv' /\ ServedSignatureIsLast'
    <2>1. UNCHANGED <<mnemonic, out, sig_ready, last>>
      BY <1>4 DEF GetNonce, signing
    <2>2. CASE sig_ready = d /\ Reply("GET_NONCE", d, "9000", {out.nonce})
      BY <1>1, <2>1, <2>2 DEF Reply, SigInv, ServedSignatureIsLast, Degrees
    <2> QED
      BY <1>1, <1>4, <2>1, <2>2, StatusServesNoSig DEF GetNonce
  <1>5. ASSUME NEW d \in Degrees, NEW p1 \in Chunks, GetSig(p1, d)
        PROVE  SigInv' /\ ServedSignatureIsLast'
    <2>1. UNCHANGED <<mnemonic, out, sig_ready, last>>
      BY <1>5 DEF GetSig, signing
    <2>2. p1 \in Nat
      BY ConstantsAssumption
    <2>3. CASE /\ sig_ready = d /\ Off(p1) < Total(d)
               /\ Reply("GET_SIG", d, "9000", OutParts(Off(p1), Total(d)))
      <3>1. CASE last = FailedSig
        BY <1>1, <2>1, <3>1 DEF ServedSignatureIsLast
      <3>2. CASE last # FailedSig
        <4>1. /\ out.lo = last /\ (d = 10 => out.hi = last)
              /\ last.d = d /\ last.key = Priv(SeedOf(mnemonic, d))
          BY <2>3, <3>2 DEF SigInv, Degrees
        <4>2. OutParts(Off(p1), Total(d)) = {last}
          BY <2>2, <2>3, <4>1, ChunkOfSignature
        <4> QED
          BY <1>1, <2>1, <2>3, <4>1, <4>2 DEF Reply, ServedSignatureIsLast
      <3> QED
        BY <3>1, <3>2
    <2> QED
      BY <1>1, <1>5, <2>1, <2>3, StatusServesNoSig DEF GetSig
  <1>6. ASSUME NEW d \in Degrees, NEW size, KeygenStart(d, size)
        PROVE  SigInv' /\ ServedSignatureIsLast'
    BY <1>1, <1>6 DEF KeygenStart, signing, Reply, NoResp, ServedSignatureIsLast
  <1>7. ASSUME NEW d \in Degrees, NEW p1, GetPk(p1, d)
        PROVE  SigInv' /\ ServedSignatureIsLast'
    BY <1>1, <1>7, StatusServesNoSig DEF GetPk, signing, Reply, ServedSignatureIsLast
  <1>8. CASE Handlers
    BY <1>1, <1>2, <1>3, <1>4, <1>5, <1>6, <1>7, <1>8, StatusServesNoSig
       DEF Handlers, RefuseP1P2, RefuseLength, SignInit, FeedMsg, FeedSeed, GenSeed, signing
  <1>9. CASE KeygenStep
    <2>1. CASE KeygenReply
      BY <1>1, <2>1 DEF KeygenReply, Reply, signing, ServedSignatureIsLast
    <2>2. ASSUME NEW step, NEW rec, NEW next, KeygenWrite(step, rec, next)
          PROVE  SigInv' /\ ServedSignatureIsLast'
      BY <1>1, <2>2 DEF KeygenWrite, signing, ServedSignatureIsLast
    <2> QED
      BY <1>9, <2>1, <2>2 DEF KeygenStep, KeygenClear, KeygenKeyId, KeygenFgF, KeygenH,
           KeygenFmt, KeygenReady
  <1>10. CASE Start \/ Stop \/ SwitchMnemonic
    BY <1>10 DEF Start, Stop, SwitchMnemonic, LoseRam, NoResp, signing, RecordInv, OffInv,
         SigInv, ServedSignatureIsLast
  <1>11. CASE UNCHANGED vars
    BY <1>11 DEF vars, SigInv, ServedSignatureIsLast
  <1> QED
    BY <1>8, <1>9, <1>10, <1>11 DEF Next

\* After a successful SIGN_ALL every nonce and chunk served belongs to that signature and
\* to the key of the current mnemonic and the requested degree.
THEOREM ServedSignature == Spec => []ServedSignatureIsLast
  <1>1. Init => SigInv /\ ServedSignatureIsLast
    BY DEF Init, RamCleared, NoResp, SigInv, ServedSignatureIsLast
  <1> QED
    BY <1>1, RecordInvariance, NextServedSig, PTL DEF Spec

-----------------------------------------------------------------------------
(* The records as a key store. *)

\* A step changes at most the record KEYGEN works on, and never one that is valid for the
\* mnemonic in the device.
LEMMA RecordStep ==
  ASSUME RecordInv, [Next]_vars, NEW d \in Degrees, KeyOk(d, KeyId(SeedOf(mnemonic, d)))
  PROVE  nvm'[d] = nvm[d]
  <1>1. ASSUME kg.step \notin {"idle", "reply"}
        PROVE  kg.d # d
    <2>1. CASE kg.step = "clear"
      BY <1>1, <2>1 DEF RecordInv, KeygenInv, SeedCacheInv, Degrees
    <2>2. CASE kg.step # "clear"
      BY <1>1, <2>2 DEF RecordInv, KeygenInv, KeyOk
    <2> QED
      BY <2>1, <2>2
  <1>2. CASE Handlers
    BY <1>2 DEF Handlers, RefuseP1P2, RefuseLength, KeygenStart, SignInit, FeedMsg, FeedSeed,
         GenSeed, SignAll, GetNonce, GetPk, GetSig
  <1>3. ASSUME NEW step, NEW rec, NEW next, KeygenWrite(step, rec, next),
               step \notin {"idle", "reply"}
        PROVE  nvm'[d] = nvm[d]
    BY <1>1, <1>3 DEF KeygenWrite, RecordInv, TypeOK
  <1>4. CASE KeygenStep
    BY <1>3, <1>4 DEF KeygenStep, KeygenClear, KeygenKeyId, KeygenFgF, KeygenH,
         KeygenFmt, KeygenReady, KeygenReply
  <1>5. CASE Stop
    BY <1>5, TornWriteRecords DEF Stop, KeyOk
  <1>6. CASE Start \/ SwitchMnemonic \/ UNCHANGED vars
    BY <1>6 DEF Start, SwitchMnemonic, vars
  <1> QED
    BY <1>2, <1>4, <1>5, <1>6 DEF Next

\* KEYGEN is idempotent: a record valid for the current mnemonic is never written again.
THEOREM NeverRewritten == Spec => ValidRecordNeverRewritten
  <1>1. RecordInv /\ [Next]_vars =>
           [\A d \in Degrees : KeyOk(d, KeyId(SeedOf(mnemonic, d))) => nvm'[d] = nvm[d]]_vars
    BY RecordStep
  <1> QED
    BY <1>1, RecordInvariance, PTL DEF Spec, ValidRecordNeverRewritten

\* What the abstract store holds for a degree.
LEMMA StoredKeyValue ==
  ASSUME NEW d \in Degrees
  PROVE  /\ nvm[d].ready = 1 /\ nvm[d].fmt = FMT => StoredKey[d] = nvm[d].key_id.of
         /\ ~(nvm[d].ready = 1 /\ nvm[d].fmt = FMT) => StoredKey[d] = NoSeed
  BY DEF StoredKey

\* A stored key that key_ok accepts is the seed of the current mnemonic.
LEMMA StoredKeyAccepted ==
  ASSUME NEW d \in Degrees, KeyOk(d, KeyId(SeedOf(mnemonic, d)))
  PROVE  StoredKey[d] = <<mnemonic, d>>
  BY StoredKeyValue DEF KeyOk, KeyId, SeedOf

\* Handlers that touch neither record nor mnemonic and answer without a key.
LEMMA ForgetStep ==
  ASSUME UNCHANGED <<mnemonic, nvm>>, resp'.ins \notin {"KEYGEN", "GET_PK"}
  PROVE  Store!Forget
  BY DEF Store!Forget, StoredKey, ServedKeys

\* Answering with the accepted record's key is the abstract Serve.
LEMMA ServeStep ==
  ASSUME UNCHANGED <<mnemonic, nvm>>, NEW d \in Degrees, RecordInv,
         KeyOk(d, KeyId(SeedOf(mnemonic, d))),
         NEW ins \in {"KEYGEN", "GET_PK"}, Reply(ins, d, "9000", {nvm[d].h})
  PROVE  Store!Serve(d)
  <1>1. StoredKey[d] = <<mnemonic, d>> /\ UNCHANGED StoredKey
    BY StoredKeyAccepted DEF StoredKey
  <1>2. nvm[d].h.of = <<mnemonic, d>>
    <2>1. nvm[d].h = Pub(SeedOf(mnemonic, d))
      BY AcceptedIsSession
    <2> QED
      BY <2>1 DEF Pub, SeedOf
  <1>3. ServedKeys' = {nvm[d].h.of}
    BY DEF Reply, ServedKeys
  <1> QED
    BY <1>1, <1>2, <1>3 DEF Store!Serve

\* A record write changes the abstract store at the written degree only, and serves nothing.
LEMMA WriteStore ==
  ASSUME RecordInv, NEW step, NEW rec, NEW next, KeygenWrite(step, rec, next), step # "idle"
  PROVE  /\ kg.d \in Degrees /\ UNCHANGED <<mnemonic, ServedKeys>>
         /\ StoredKey' = [StoredKey EXCEPT ![kg.d] =
                             IF rec.ready = 1 /\ rec.fmt = FMT THEN rec.key_id.of ELSE NoSeed]
  <1>1. kg.d \in Degrees /\ nvm' = [nvm EXCEPT ![kg.d] = rec] /\ DOMAIN nvm = Degrees
    BY DEF KeygenWrite, RecordInv, KeygenInv, TypeOK
  <1> QED
    BY <1>1 DEF KeygenWrite, StoredKey, ServedKeys

\* Clearing ready is the abstract Drop of a foreign key, or a stutter.
LEMMA ClearStore ==
  ASSUME RecordInv, KeygenClear
  PROVE  Store!Drop(kg.d) \/ UNCHANGED Store!storeVars
  <1> DEFINE d == kg.d
  <1>1. /\ d \in Degrees /\ UNCHANGED <<mnemonic, ServedKeys>>
        /\ StoredKey' = [StoredKey EXCEPT ![d] = NoSeed]
    <2>1. nvm[d] \in [key_id : KeyFields, fgF : KeyFields, h : KeyFields,
                      fmt : {0, FMT}, ready : {0, 1}]
      BY DEF KeygenClear, KeygenWrite, RecordInv, KeygenInv, TypeOK
    <2> DEFINE rec == [nvm[d] EXCEPT !.ready = 0]
    <2>2. rec.ready = 0
      BY <2>1
    <2>3. KeygenWrite("clear", rec, "key_id")
      BY DEF KeygenClear
    <2>4. /\ d \in Degrees /\ UNCHANGED <<mnemonic, ServedKeys>>
          /\ StoredKey' = [StoredKey EXCEPT ![d] =
                              IF rec.ready = 1 /\ rec.fmt = FMT THEN rec.key_id.of ELSE NoSeed]
      <3> HIDE DEF rec
      <3> QED
        BY <2>3, WriteStore
    <2> HIDE DEF rec
    <2> QED
      BY <2>2, <2>4
  <1>2. kg.step = "clear" /\ seed = SeedOf(mnemonic, d) /\ ~KeyOk(d, KeyId(seed))
    BY DEF KeygenClear, KeygenWrite, RecordInv, KeygenInv, SeedCacheInv, Degrees
  <1>3. CASE StoredKey[d] = NoSeed
    <2>1. UNCHANGED StoredKey
      BY <1>1, <1>3 DEF StoredKey
    <2> QED
      BY <1>1, <2>1 DEF Store!storeVars
  <1>4. CASE StoredKey[d] # NoSeed
    <2>1. nvm[d].ready = 1 /\ nvm[d].fmt = FMT /\ StoredKey[d] = nvm[d].key_id.of
      BY <1>1, <1>4, StoredKeyValue
    <2>2. PICK m \in Mnemonics : nvm[d].key_id = KeyId(SeedOf(m, d))
      BY <1>1, <2>1 DEF RecordInv, AcceptedRecordIsWhole
    <2>3. SeedOf(m, d) # SeedOf(mnemonic, d)
      BY <1>2, <2>1, <2>2 DEF KeyOk
    <2>4. StoredKey[d] # <<mnemonic, d>>
      BY <2>1, <2>2, <2>3 DEF KeyId, SeedOf
    <2> QED
      BY <1>1, <1>4, <2>4 DEF Store!Drop, Store!NoKey, NoSeed
  <1> QED
    BY <1>3, <1>4

\* The writes while ready is 0 are stutters of the abstract store.
LEMMA MiddleStore ==
  ASSUME RecordInv, KeygenKeyId \/ KeygenFgF \/ KeygenH \/ KeygenFmt
  PROVE  UNCHANGED Store!storeVars
  <1> DEFINE d == kg.d
  <1>1. d \in Degrees /\ nvm[d].ready = 0
    BY DEF KeygenKeyId, KeygenFgF, KeygenH, KeygenFmt, KeygenWrite, RecordInv, KeygenInv
  <1>2. nvm[d] \in [key_id : KeyFields, fgF : KeyFields, h : KeyFields,
                    fmt : {0, FMT}, ready : {0, 1}] /\ DOMAIN nvm = Degrees
    BY <1>1 DEF RecordInv, TypeOK
  <1>3. nvm'[d].ready = 0 /\ \A x \in Degrees \ {d} : nvm'[x] = nvm[x]
    BY <1>1, <1>2 DEF KeygenKeyId, KeygenFgF, KeygenH, KeygenFmt, KeygenWrite
  <1>4. UNCHANGED StoredKey
    BY <1>1, <1>3 DEF StoredKey
  <1>5. UNCHANGED <<mnemonic, ServedKeys>>
    BY DEF KeygenKeyId, KeygenFgF, KeygenH, KeygenFmt, KeygenWrite, ServedKeys
  <1> QED
    BY <1>4, <1>5 DEF Store!storeVars

\* Setting ready is the abstract Create.
LEMMA ReadyStore ==
  ASSUME RecordInv, KeygenReady
  PROVE  Store!Create(kg.d)
  <1> DEFINE d == kg.d
  <1>1. /\ d \in Degrees /\ nvm[d].ready = 0 /\ nvm[d].fmt = FMT
        /\ nvm[d].key_id = KeyId(SeedOf(mnemonic, d))
    BY DEF KeygenReady, KeygenWrite, RecordInv, KeygenInv, SeedCacheInv, Degrees
  <1>2. nvm[d] \in [key_id : KeyFields, fgF : KeyFields, h : KeyFields,
                    fmt : {0, FMT}, ready : {0, 1}]
    BY <1>1 DEF RecordInv, TypeOK
  <1> DEFINE rec == [nvm[d] EXCEPT !.ready = 1]
  <1>3. rec.ready = 1 /\ rec.fmt = FMT /\ rec.key_id.of = <<mnemonic, d>>
    BY <1>1, <1>2 DEF KeyId, SeedOf
  <1>4. /\ UNCHANGED <<mnemonic, ServedKeys>>
        /\ StoredKey' = [StoredKey EXCEPT ![d] = <<mnemonic, d>>]
    BY <1>3, WriteStore DEF KeygenReady
  <1>5. StoredKey[d] = NoSeed
    BY <1>1, StoredKeyValue
  <1> QED
    BY <1>4, <1>5 DEF Store!Create, Store!NoKey, NoSeed

\* Start and power loss are stutters or Forget; a mnemonic change is Switch.
LEMMA PowerStore ==
  ASSUME RecordInv, Start \/ Stop \/ SwitchMnemonic
  PROVE  Store!Forget \/ Store!Switch \/ UNCHANGED Store!storeVars
  <1>1. CASE Start
    BY <1>1 DEF Start, Store!storeVars, StoredKey, ServedKeys
  <1>2. CASE Stop
    <2>1. ASSUME NEW d \in Degrees
          PROVE  nvm'[d].ready = nvm[d].ready /\ (nvm[d].ready = 1 => nvm'[d] = nvm[d])
      BY <1>2, TornWriteRecords DEF Stop
    <2>2. UNCHANGED StoredKey
      BY <2>1 DEF StoredKey
    <2>3. ServedKeys' = {}
      BY <1>2 DEF Stop, LoseRam, NoResp, ServedKeys
    <2> QED
      BY <1>2, <2>2, <2>3 DEF Stop, Store!Forget
  <1>3. CASE SwitchMnemonic
    <2>1. ServedKeys = {} /\ UNCHANGED <<StoredKey, ServedKeys>>
      BY <1>3 DEF SwitchMnemonic, RecordInv, OffInv, NoResp, ServedKeys, StoredKey
    <2> QED
      BY <1>3, <2>1 DEF SwitchMnemonic, Store!Switch
  <1> QED
    BY <1>1, <1>2, <1>3

\* An answer without data is Forget.
LEMMA StatusForgets ==
  ASSUME NEW sw, Status(sw), UNCHANGED <<mnemonic, nvm>>
  PROVE  Store!Forget
  BY ForgetStep, StatusServesNoKey

\* Every APDU that finds the device idle is a step of the abstract store.
LEMMA HandlersStore ==
  ASSUME RecordInv, Handlers
  PROVE  Store!Forget \/ \E d \in Degrees : Store!Serve(d)
  <1>1. ASSUME NEW d \in Degrees, NEW size, KeygenStart(d, size)
        PROVE  Store!Forget \/ Store!Serve(d)
    <2>1. seed' = SeedOf(mnemonic, d) /\ UNCHANGED <<mnemonic, nvm>>
      BY <1>1, SessionSeedValue DEF RecordInv, KeygenStart
    <2>2. CASE KeyOk(d, KeyId(seed')) /\ Reply("KEYGEN", d, "9000", {nvm[d].h})
      BY <2>1, <2>2, ServeStep
    <2>3. CASE resp' = NoResp
      BY <2>1, <2>3, ForgetStep DEF NoResp
    <2> QED
      BY <1>1, <2>2, <2>3 DEF KeygenStart
  <1>2. ASSUME NEW d \in Degrees, NEW p1, GetPk(p1, d)
        PROVE  Store!Forget \/ Store!Serve(d)
    <2>1. seed' = SeedOf(mnemonic, d) /\ UNCHANGED <<mnemonic, nvm>>
      BY <1>2, SessionSeedValue DEF RecordInv, GetPk
    <2>2. CASE KeyOk(d, KeyId(seed')) /\ Reply("GET_PK", d, "9000", {nvm[d].h})
      BY <2>1, <2>2, ServeStep
    <2>3. CASE Status("6A80") \/ Status("6A86")
      BY <2>1, <2>3, StatusForgets
    <2> QED
      BY <1>2, <2>2, <2>3 DEF GetPk
  <1>3. ASSUME NEW d, NEW size, SignAll(d, size)
        PROVE  Store!Forget
    BY <1>3, StatusForgets DEF SignAll, SignOutput
  <1>4. ASSUME NEW d, GetNonce(d)
        PROVE  Store!Forget
    BY <1>4, StatusForgets, ForgetStep DEF GetNonce, Reply
  <1>5. ASSUME NEW d, NEW p1, GetSig(p1, d)
        PROVE  Store!Forget
    BY <1>5, StatusForgets, ForgetStep DEF GetSig, Reply
  <1> QED
    BY <1>1, <1>2, <1>3, <1>4, <1>5, StatusForgets
       DEF Handlers, RefuseP1P2, RefuseLength, SignInit, FeedMsg, FeedSeed, GenSeed

\* KEYGEN's reply is the abstract Serve.
LEMMA ReplyStore ==
  ASSUME RecordInv, KeygenReply
  PROVE  Store!Serve(kg.d)
  <1>1. kg.d \in Degrees /\ KeyOk(kg.d, KeyId(SeedOf(mnemonic, kg.d)))
    BY DEF KeygenReply, RecordInv, KeygenInv, SeedCacheInv, KeyOk, Degrees
  <1> QED
    BY <1>1, ServeStep DEF KeygenReply

\* Every step of FalconLR is a step of KeyStore or a stutter.
LEMMA NextStore == RecordInv /\ [Next]_vars => [Store!Next]_(Store!storeVars)
  <1> SUFFICES ASSUME RecordInv, [Next]_vars
               PROVE  Store!Next \/ UNCHANGED Store!storeVars
    OBVIOUS
  <1>1. CASE Handlers
    BY <1>1, HandlersStore DEF Store!Next
  <1>2. CASE KeygenStep
    <2>1. kg.d \in Degrees
      BY <1>2 DEF KeygenStep, KeygenClear, KeygenKeyId, KeygenFgF, KeygenH, KeygenFmt,
           KeygenReady, KeygenReply, KeygenWrite, RecordInv, KeygenInv
    <2> QED
      BY <1>2, <2>1, ClearStore, MiddleStore, ReadyStore, ReplyStore DEF KeygenStep, Store!Next
  <1>3. CASE Start \/ Stop \/ SwitchMnemonic
    BY <1>3, PowerStore DEF Store!Next
  <1>4. CASE UNCHANGED vars
    BY <1>4 DEF vars, Store!storeVars, StoredKey, ServedKeys
  <1> QED
    BY <1>1, <1>2, <1>3, <1>4 DEF Next

\* The handlers, writing records piecewise under power losses, implement the atomic key
\* store of module KeyStore.
THEOREM ImplementsStore == Spec => ImplementsKeyStore
  <1>1. Init => Store!Init
    <2> SUFFICES ASSUME Init PROVE Store!Init
      OBVIOUS
    <2>1. ASSUME NEW d \in Degrees
          PROVE  nvm[d].fmt # FMT
      BY DEF Init, InstallRecords, BlankRecord, OldRecord, FMT
    <2>2. StoredKey = [d \in Degrees |-> NoSeed]
      BY <2>1 DEF StoredKey
    <2>3. ServedKeys = {}
      BY DEF Init, RamCleared, NoResp, ServedKeys
    <2> QED
      BY <2>2, <2>3 DEF Init, Store!Init, Store!NoKey, NoSeed
  <1> QED
    BY <1>1, RecordInvariance, NextStore, PTL DEF Spec, ImplementsKeyStore, Store!Spec

=============================================================================
