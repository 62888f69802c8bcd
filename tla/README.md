# TLA+ model of the ZKNOX Falcon signer

This directory specifies the Falcon application of this repository: the APDU handlers with their
NVM key records, the transaction review around them, and the cryptographic code underneath (signing,
sampling, rings, FFT, key generation, SHAKE, codecs), together with the archived first implementation
in `legacy/` where it does the same work in another way. TLC checks the specifications on small
instances; TLAPS proves the main results for every value of the constants.

Paths below are relative to the root of the repository.

## The system

| Component | State | Operations | Interacts with |
|---|---|---|---|
| Falcon handlers (`src/handler/handler_falcon_lowram.c`, `falcon_lowram_nvm.h`) | `g_falcon_lr`: session seed, message, signing seed, output buffer and their ready flags, 27 648-byte area; two NVM records `key_id, f, g, F, h, fmt, ready` | KEYGEN, GET_PK, SIGN (INIT, FEED_MSG, FEED_SEED, GEN_SEED, SIGN_ALL, GET_NONCE), GET_SIG | called by the dispatcher; calls seed derivation, key generation, the signing core, `nvm_write` |
| Signing core (`fndsa_sign_core.c`, `fndsa_sign.c`) | temporary area of 20n bytes shared by ten arrays; the output buffer, also used for the adjustment bits | one call: up to 27 attempts of about 110 statements | both rings, FFT, sampler, SHAKE |
| Rings modulo q = 12289 and q' = 18433 (`fndsa_mq.c`, `fndsa_sign_mq2.c`) | none | conversions, NTT, products with adjoints, batch inversion, norms; recombination of two residues | used by signing and key generation |
| Sampler, FFT, emulated doubles (`fndsa_sign_sampler.c`, `fndsa_sign_fpoly.c`, `fndsa_sign_fpr.c`) | SHAKE context, recursion over the Falcon tree in the same area | `ffsamp_fft`, FFT operations | used by signing |
| Key generation (`fndsa_kgen*.c`) | temporary area of 22n bytes | retry loop, Gaussian sampling, NTRU solver over big integers | used by KEYGEN |
| SHAKE, hash-to-point, codecs (`fndsa_sha3.c`, `fndsa_util.c`, `fndsa_codec.c`) | sponge state and pointer | inject, flip, extract; encode, decode | used everywhere |
| Main loop and dispatcher (`app_main.c`, `apdu/dispatcher.c`) | current command | receive, check CLA/INS/P1/P2, dispatch | all handlers |
| Transaction signing and approval (`handler/sign_tx.c`, `get_public_key.c`, `ui/`, `helper/`) | `G_context`: request type, state, path, raw transaction up to 510 bytes, hash | chunk 0, further chunks, the user's answer | parser, token table, UI callbacks |
| Transaction parser, token information (`transaction/`, `token/`) | token slot | parse, look up | transaction signing |
| Swap (`swap/`) | the exchange's promise | check an address, print an amount, sign one transaction | transaction signing |
| Legacy Falcon library (`legacy/src/zknox/falcon`) | none of its own | the same algorithms, other layouts | legacy handlers |
| Legacy handlers, simulation, fuzzing, JavaScript | | | not part of the device build, or test code |

What is hard here:

* **Failure.** The only persistent state is written by six `nvm_write` calls; the device may lose
  power between any two and inside the long ones.
* **Sequences of commands.** One seed slot serves two degrees, one output buffer holds the last
  signature of either, and the flags that guard them are set and cleared by different commands. A
  mnemonic or passphrase may change between sessions while the records stay.
* **Shared memory.** `sign_core` reuses the same 20n bytes for values in eight representations; the
  sampler destroys most of it twice; part of the state is parked in the signature buffer.
* **Key generation** gives up and starts again at any of a dozen tests, in an area whose layout changes
  at every depth of the solver and whose sizes come from tables found by measurement.
* **Numeric edges.** Zero is stored as q; f·adj(f)+g·adj(g) does not fit modulo q'; F·adj(f)+G·adj(g)
  fits neither modulus; norms saturate.
* There is no concurrency inside a command: the transport is half duplex and the application is
  single threaded. The user's answer to a transaction review is the one asynchronous event.

`PROJECT.json` lists these hazards at their lines, with the property that covers each.

## Modules

| Module | Models |
|---|---|
| `FalconLR` | the handlers, the session and the NVM records, with power loss |
| `KeyStore` | what the records promise: an atomic store of at most one key per degree |
| `FalconLR_proofs` | theorems about `FalconLR` |
| `AppMain` | main loop, dispatcher, `G_context`, reviews and the user's answer, tokens, settings, swap |
| `TxParser` | the transaction format, used by `AppMain` |
| `Approval` | what transaction signing promises: signed is what was shown, or what the exchange promised |
| `AppMain_proofs` | theorems about `AppMain` and `TxParser` |
| `ModPoly` | arithmetic modulo a prime as the portable C paths do it, and polynomials over it; the schoolbook arithmetic they are compared with |
| `ModPoly_proofs`, `MCModPoly_proofs` | theorems about reduction, the NTT and its products, for every modulus and for the two of the code |
| `ModPolyCheck` | `ModPoly` against schoolbook arithmetic |
| `FalconPoly` | the two rings with their constants, and the operations that join them |
| `SignCore` | `sign_core`, statement by statement |
| `SignCore_proofs` | theorems about `FalconPoly` (reduction, adjustment, CRT) and about `SignCore`: what the shared area holds at each statement, and that what is returned verifies |
| `Fpc` | the numbers of the FFT modules: an exact field with the roots of unity the code needs |
| `Fpoly`, `KgenVect`, `LegacyFFT` | the three FFT codes: signing, key generation, legacy; `Fpoly` ends with the reference of the samplers, the fast Fourier nearest plane on exact values |
| `LegacySign`, `LegacyVrfy` | LDL tree, both samplings, signature attempts; public key and verification |
| `FftCheck` | the FFT codes against evaluation at the roots, and legacy signing against the nearest plane |
| `FfSamp` | the recursion of `ffsamp_fft` in its work area |
| `Keccak`, `Shake`, `LegacyShake`, `ShakeCheck` | the permutation and the streaming contexts, against the FIPS 202 sponge |
| `Shake_proofs` | theorems about the three permutations and the streaming contexts |
| `Codec`, `LegacyCodec` | encoders and decoders of keys and signatures |
| `Message` | three versions of hash-to-point; what is hashed, and the checks of the entry points |
| `CodecCheck` | the three modules above against one another |
| `Codec_proofs` | theorems about the compressed format of `Codec` and, from `Message`, the versions of hash-to-point, what is hashed, and the room for signing |
| `KeygenMem` | the attempts of `keygen_inner`, the NTRU solver and the handler, as accesses to the working area |
| `Zint`, `Bezout`, `LegacyZint`, `ZintCheck` | the big integers of both key generations, against plain integers |
| `Once` | evaluation of an intermediate result once |
| `Induction` | induction over the natural numbers, stated with sets; powers of two up to 1024 |
| `MC...` | instances for TLC |

Operators named "Mutant" in the comment above them are faulty variants of the definition that
follows. No specification uses them; each shows that a property notices the fault.

### FalconLR

Each variable is a field of `g_falcon_lr` or an NVM record, by the same name; `kg` is where KEYGEN
stands, `resp` the last response, and `drawn`, `used` and `last` are history variables. Each SIGN
sub-command and each read is one action, early returns included: `RefuseP1P2` and `RefuseLength`
are the returns 6A86 and 6A87, the 6A80 returns are disjuncts of their actions. Since commands do
not interleave, one action per command loses nothing; KEYGEN alone has effects that survive a
power loss in the middle, so it is one action per `nvm_write`. `Stop` may happen in any state: it
clears RAM and leaves the write in progress undone or, for the multi-byte fields, torn. A one-byte
write is atomic.

Data is what it was computed from. A seed is ⟨mnemonic, degree⟩; `key_id`, f|g|F and h carry their
seed; a signature carries the degree, private key, message and signing seed. Left out: collisions
of SHAKE256, and a TRNG that repeats itself. Signing fails for the inputs in the constant `Unlucky`.
The output buffer has three parts: the nonce and the two halves of s2 at byte 1024, the boundary
up to which a Falcon-512 signature reaches.

`Init` starts with the power off, each record blank or complete in an older layout (`fmt` 0), with
the mnemonics of the device.

### ModPoly, FalconPoly

The device build compiles the plain C paths (`FNDSA_ASM_CORTEXM4=0`, no SIMD). The mask idiom
`x += Q & (x >> 16)` becomes a conditional addition; Montgomery reduction keeps its 16-bit halves
and its wrap-around modulo 2^16. One pass of the outer loop of a transform is one stage, a function
of the array before it, because each entry belongs to one butterfly. `FalconPoly` instantiates the
module twice with the constants of the two source files; the instances `MC...` give the entries of their tables
up to degree 8.

### SignCore

The temporary area is 20 units of n bytes, so unit K is `tmpK`. Each unit records which part of
which representation it holds; reading a unit in another representation gives junk, and junk
spreads. The statement lists `GramBothModuli` ... `BuildS0` follow the loop body line by line; one
statement is one step. The degree is 2, where an FFT value is the polynomial itself and can be
exact; the modular arithmetic is the code's own at that degree. `ffsamp_fft` is its contract: which
units it reads, which it destroys, and that it returns integers near the centre (`Offsets`).

The degree and the exact FFT are the abstractions to keep in mind: what does not show is rounding,
and the packing of the adjustment bits beyond one byte.

### AppMain, TxParser, Approval

A command is one action, from `io_recv_command` to its answer or to the start of a review; the
user's answer, the settings switches and the exchange's calls are actions of their own, and so is a
restart. The transport is half duplex, so no command arrives during a review. `G_context`, the token
slot, the settings and the promise of an exchange are variables by the names of the code. Keys,
hashes and signatures are the value they were computed from: `signed` is the parsed transaction with
its token, `shown` what the pages say. `TxParser` works byte by byte; field sizes are parameters, and
`app_memo` uses the real ones. The SDK's check of a token descriptor is an input.

`Approval` is the abstract specification: a signature leaves only for what is on the screen when the
user accepts or, in an exchange, once and for a transaction that keeps the promise. `AppMain`
implements it under the mapping of `ImplementsApproval`.

### Fpc, Fpoly, KgenVect, LegacyFFT, LegacySign, LegacyVrfy, FfSamp

Rounding is left out, nothing else: a real number is an element of GF(46271) and a complex number of
its quadratic extension, where a root of unity of the needed order exists and conjugation is the
Frobenius map. All identities the FFT code relies on hold there, and a wrong index, sign, conjugate or
factor breaks them. The forward transforms of `Fpoly` work in place on the words of the coefficients,
which is modelled; `KgenVect` has the lane permutations of its AVX2 build. In `FfSamp` a state is the
work area and the stack of the recursion, and a step the code between two recursive calls; the integer
sampler returns any value of `Zs`. In `LegacySign` the sampler is a function of centre and variance, so
that signing with a tree and without can be compared.

### Keccak, Shake, LegacyShake

A lane is the set of its one bits. `process_block` is followed as written: six lanes kept complemented,
two rounds per iteration in displaced positions. The reference in `ShakeCheck` is the sponge of
FIPS 202 by its formulas. The message is the constant `Msg`, `SampleMsg` in the run; lengths of chunks are
the state's choices.

### Codec, LegacyCodec, Message

Decoders return whether they accept and what they give. The compressed format is stated for bytes of
`BB` bits, so that every string can be tried; trim and public-key formats have the real widths.
Hash-to-point runs on an arbitrary stream of samples, each refused or kept. In `Message`, SHAKE256 is
a symbol that carries its input.

### KeygenMem

Each array is a place, an element size and the value it holds; `mem` has the arrays that are intact.
A statement removes what it overlaps and adds its results; `lost` collects an input that is not there,
arrays of one statement that cover one another, an access outside its area or misaligned. Giving up an
attempt empties `mem`: nothing of it is a value of the next. The sizes are those of the code at all
degrees 4 to 1024, with its tables, the saved polynomials below `FG_SAVE_OFFSET`, and the words of F
that the reduction loop gives up. Tests on values (invertible, norm, GCD, reduction, range) may go
either way.

### Zint, Bezout, LegacyZint

Words of `WB` bits in machine words of one bit more, as 31 in 32 in the code. A loop with a carry is a
`Pass`; masks that select are conditions. `zint_bezout` is a state machine, one iteration of the outer
loop per step, with its approximations of the two operands at reduced width.

## Runs

| Run | Instance | Checks |
|---|---|---|
| `nvm` | two mnemonics, both degrees, no signing inputs; 340 100 states | `TypeOK`, `AcceptedRecordIsWhole`, `ServedKeyIsSessionKey`, `ValidRecordNeverRewritten`, `ImplementsKeyStore`, `KeygenDelivers` |
| `sign` | one mnemonic, both degrees, two messages, a host seed that fails for one message, two TRNG seeds, chunks 0, 4, 5, 8, 9 | `ServedSignatureIsLast`, `OneSignaturePerSeed` |
| `sigready` | the same with one TRNG seed | `SigReadyNamesSignature`, violated |
| `sign_core` | five keys, four challenges, offsets 0, 1, 4, two attempts; 711 220 states | `SamplerInputs`, `SignatureIsLatticeVector`, `OutputVerifies`, `SignAdvances` |
| `app` | one-byte fields, transactions up to 6 bytes, four chunks, four descriptors, twelve exchange promises | `TypeOK`, `WaitingHasReview`, `HashedIsSerialized`, `ImplementsApproval`, `ReviewedOnce`, `WarnedBeforeOn` |
| `app_memo` | real field sizes, one long memo in three chunks | `MemoWithinLimit`, violated |
| `fft` | degrees 2 to 16: monomials and a dense polynomial; NTRU keys of degree 2, 4, 8 | `FftEvaluates`, `SplitMergeExact`, `SlotOperations`, `LdlAgrees`, `SigningWaysAgree`, `LegacyNearestPlane`, `LegacyVerifies` |
| `ffsamp` | degree 8, all outcomes of the integer samples out of two values | `SamplesNearestPlane`, `OutputIsDifference` |
| `ntt` | N = 4, both moduli, all pairs of polynomials with coefficients 1, a root of X^4+1, and 0 | `BothRoundTrip`, `BothMultiply`, `BothAdjointProducts`, `DivisionExact` (q only) |
| `shake` | rate 136, 24 rounds; chunks of 0, 68, 135, 137, 272 bytes in, 0, 68, 137 out | `StreamIsSponge` |
| `codec` | all strings of four 4-bit bytes, coefficients -22..22, all patterns of eight samples | `CompressedCanonical`, `KeyCodecsInverse`, `HashWaysAgree`, `SignedInputsBound`, `SigningRoom` |
| `keygen` | GCDs on words of 3 bits, the other functions on three words of 7 bits; the memory of all degrees; 299 638 states | `BezoutCorrect`, `WideZintExact`, `KeygenMemory` |

**Bounds.** Two mnemonics are enough for "mine" and "somebody else's"; the theorems below remove the
bound. The chunks are the first, the one across byte 1024, one past the end of a Falcon-512
signature only, the short last one and the first past the end. The keys of `sign_core` have
equal residues, residues that differ by q, an adjustment, a product that needs both moduli, and a
norm over the bound; the challenges hold zero and extreme coefficients; offset 4 is far enough to be
rejected, so that attempts are used up.

In `app`, one-byte fields keep the parser's cases (a memo length in one and in three bytes, a truncated
field, a transaction at and over the limit) while all sequences of chunks fit; one known token, one
descriptor for it, and three descriptors refused for different reasons cover the table. In `fft`, the
transforms are linear, so monomials determine them; at degree 16 the nested loops of all three codes
run more than once. In `ffsamp`, degree 8 has two levels of recursion above the leaves. In `shake`, the lengths end before, at and after a block and inside the second. In
`codec`, `B_INF` = 20 leaves coefficients the format could hold and the decoder must refuse, and 3
coefficients with 5 spare samples give several passes of the constant-time compaction. In `keygen`, up
to four words of 3 bits make the GCD leave the top words, the middle, and the alignment of its
approximations in every relation; 7 bits are needed for three different primes; `WB` + 1 is a power of
two because `modp_R2` squares a fixed number of times. The 32-bit integers of TLC set the upper bound.

**Fairness.** `FalconLR` assumes weak fairness of `KeygenStep` only: once a command is accepted the
processor runs its handler. Nothing obliges the host to send commands or the user to keep the
device powered; `KeygenDelivers` therefore allows a power loss as the other outcome. `SignCore`
needs none: `SignAdvances` says that each step increases a bounded measure, and TLC finds no
deadlock before the return. `AppMain` has no liveness property: the host and the user may stop. Key
generation terminates only with probability one, so `KeygenMem` states none.

**The violated runs.** `src/globals.h:40` describes `sig_ready` as "logn of the signature in out[], or
0". A SIGN_ALL that fails leaves `sig_ready` alone although the core has already overwritten the nonce
and the first bytes of s2, so a signature made earlier is still announced. Failure takes 27 rejected
attempts or an oversized key, so this is a matter of the comment and of robustness.
`ServedSignatureIsLast` is stated for the histories without such a failure since the last INIT.

`src/transaction/deserialize.c:76` joins with `&&` the two failures of the memo length, so a length that
can be read is not compared with `MAX_MEMO_LEN`: 466 bytes pass (`tx_types.h:8` says 465). The other
side of the same test lets a transaction that ends before its memo length parse with an empty memo.

**Observations**, not separate runs:

* A chunk 0 whose path cannot be read leaves the request open with the part of the path already read;
  `ImplementsApproval` shows that nothing is signed from it without a later review.
* For y = 1, `zint_bezout` reduces u to 0 and returns 1 with v = x - 1, so x·u - y·v = 1 - x, where
  `fndsa_kgen_inner.h:423` promises 1. The same comment's loop invariant (`fndsa_kgen_zint31.c:593`)
  holds with the bounds of either operand, and modulo x·y. `BezoutCorrect` states what the code does.
  A resultant of 1 does not occur for keys of the sizes in use.
* `fndsa_kgen_inner.h:1080` asks for 6n words for `solve_NTRU`; `keygen_inner` keeps f and g at 5n words,
  and 5n is what the code uses. The thresholds `MIN_SAVE_FG` leave no slack: with 3 instead of 4 at
  degree 1024, `KeygenMemory` fails, and the C code compiled so never returns a key.
* The legacy `comp_decode` accepts minus zero and nonzero bits after the last coefficient; the current
  decoder refuses both (`CompressedCanonical`).
* The Falcon-mode entry point hashes message and seed without their lengths: the two are told apart
  only because the seed has one length.
* The legacy `prng_get_bytes` copies from the start of its buffer, whatever has been consumed.

## Proofs

`FalconLR_proofs` proves, for all sets of mnemonics, messages, seeds, chunks and failing inputs:

* `TypeCorrect`, `RecordsWhole`: from the inductive invariant `RecordInv`, the conjunction of the type
  invariant, `SeedCacheInv` (a cached seed is that of its degree and of the mnemonic in the device),
  `OffInv` (nothing of a session survives without power), `KeygenInv` (how far KEYGEN is tells which
  fields are already new, and `ready` is 0 in between) and `AcceptedRecordIsWhole` itself. The latter
  is not inductive alone: before the last write it needs to know that all fields were written from
  one seed.
* `ServedKey`: each answer with a key goes through `key_ok` with the id of the session's seed.
* `OneSignature`: from `SeedUseInv`, a TRNG seed that is ready has been drawn and not used.
* `ServedSignature`: from `SigInv`, relating `out`, `sig_ready` and `last`.
* `NeverRewritten`, an action property, and `ImplementsStore`, the refinement of `KeyStore` under
  the mapping `StoredKey`, `ServedKeys`: setting `ready` is `Create`, clearing it is `Drop`, and the
  writes between are stutters.

The only assumptions are `ConstantsAssumption`: host seeds and TRNG seeds are disjoint, chunk
indices are bytes.

`SignCore_proofs` proves `MredQ` and `MredQ2` (Montgomery reduction for every product of two
residues), `AdjustRecovers` (every coefficient up to 16 822) and `CrtRecovers` (every integer
below qq'/2). They are linear arithmetic once the quotients and remainders have names. TLC tries
a few hundred values of the same operators inside `ntt` and `sign_core`.

It also proves, at the module's degree 2, all that the run `sign_core` checks, for every set of keys,
challenges and sampler offsets and every number of attempts:

* `CallAdvances`: every step of a call increases the measure of `SignAdvances`. Its invariant
  `CallOK` says that the statement counter stays inside the loop body and the attempt within its limit.
* `SamplerGetsInputs`: what the sampler reads at its two calls.
* `SignatureVector`: the tested vector is (c, 0) minus a lattice point.
* `SignatureVerifies`: what is returned passes the verifier's test under h = g/f.

The last three rest on the inductive invariant `CallInv` (`CallHolds`), the conjunction of `CallOK`, of
`CallState` (the key has passed the norm test, the nonce is one that was drawn, the bits parked in the
signature buffer are those of the Gram value, and the sampled integers stay below q') and of
`AreaInv`: at each of the 123 places of the loop body, which units hold which polynomial in which
representation. A `Row` says that one polynomial is in one place from one statement to another;
there are some 120, in six groups that follow the statement lists. None of the three properties is
inductive alone: each speaks of one place, and a polynomial gets there through dozens of statements. The
invariant says nothing of a unit that is dead, and this is how it shows that the reuse of units is right: a
statement keeps the rows it does not touch only if the units are `Apart`.

What a statement does to its polynomials is a lemma of its own (`Do...`), and these rest on four layers:

* *Residues.* A stored value is read modulo q (or q'), through the factor 2^32 of Montgomery
  representation, where there is one: `Value`, `Roots`, and `Cong` for congruence. `ToRoots...` and
  `FromRoots...` say that the NTT evaluates at the two roots of X^2 + 1 and back; `MulNtt...`,
  `MuladjX2...`, `MuladjAdd` that the products are those of the ring. Each is proved once for each modulus
  because the code has the constants in two files.
* *Inversion.* `InvNtt` and `DivNtt` use `InverseOfF`: the squared norm of f, which is the product of its
  values at the roots, is not 0 modulo q. That `mq_div`'s addition chain inverts a single residue is
  `DivisionAssumption`, a fact about one number without parameters that TLC decides by trying all 12 288.
* *Lifting.* `GramAdjusted` (with `AdjustRecovers`): within the norm bound the Gram value is its residue
  modulo q' or that moved by q'. `CrossShort` (with `CrtRecovers`): F·adj(f) + G·adj(g) stays below
  qq'/2. `FirstSampled`, `SecondSampled`: the sampled integers fit in q'. For the second centre this
  needs the lower bound of the Gram value that f·G - g·F = q gives (`SecondSample`).
* *Lattice.* `ThirdIsQuotient`: modulo q', multiplying by 3 a value that is a multiple of q divides it
  by q. So `LatticeS1` and `LatticeS0` turn what the statements compute into the reference's
  (c - g·Z0 - G·Z1, f·Z0 + F·Z1), and `VerifierS0` turns c - s1·h into the verifier's.

The assumptions are those of the module, each a fact about what `sign_core` is called with: `KeysAssumption`
(f·G - g·F = q, coefficients of at most 127, f invertible modulo q: what `fndsa_kgen.c:29` and `:64`
test or rely on), `HashAssumption` (`hash_to_point` gives residues), `OffsetsAssumption` (an offset is at most 19,
since `gaussian0` of `fndsa_sign_sampler.c` is at most 18), `AttemptsAssumption`, `DegreeAssumption` and
`DivisionAssumption`.

`AppMain_proofs` proves, for every set of chunks, paths, descriptors and exchange parameters and for
every field size, all that the run `app` checks. The inductive invariant `AppInv` has these parts:

* `ContextOK`: the type of `G_context`, and that a request for an address holds no raw transaction and is
  never parsed. Without it an address request could pass for a reviewed transaction.
* `ParsedOK`: a transaction in `STATE_PARSED` or later is what the hashed bytes say, read as the
  request's kind. This is what ties the user's answer, given later, to the bytes.
* `ReviewPage`: the page shows what the hashed bytes say, and no exchange is running. The answer signs
  `G_context`, not the page, so the two have to agree for as long as the page is up.
* `PromiseInv`: an exchange's promise exists only inside an exchange.
* `ReviewedInv`: what was reviewed parses, and the request has only grown since.
* `WaitingHasReview` itself.

From it follow `AppTypeCorrect`, `AlwaysAnswered` and, with the two lemmas about the parser,
`HashedSerialized` and `OneReview`. `SerializeParsed` says that serializing a parsed transaction gives
its bytes back; it rests on the big-endian fields (`BigEndianBytes`, by induction over the bytes) and on
the variable-length integer (`VarintBytes`). `PrefixHasNoLength` says that of two transactions that parse, one
a proper prefix of the other, the shorter one ends before its memo length. `Warned` is the settings
switch. `Approved` is the refinement of `Approval`: one lemma per command shows which step of
`Approval` it is, or that it is a stutter. The assumptions are `SizesAssumption` (sizes are naturals, a token
address is not empty) and `ChunksAssumption` (chunks are bytes).

`Codec_proofs` proves `MuBinds` and `SeedBinds`: the input of each hash can be read back in one way only,
because every part before the last has a fixed length, is preceded by its length, or is a tag none of which
is a prefix of another. SHAKE256 is a symbol that carries its input, so the theorems are about framing:
an actual collision is left out. `RoomLeft` is the arithmetic of the aligned area for every degree and address.
`RoomForSigning` and `InputsBound` apply them to the requests of the entry points, as the run `codec` states
them. Assumptions: `CtxAssumption` and `HashAssumption`, on the sizes of a context and of a block.

It also proves `StringCanonical` and `VectorCanonical`: for signatures of every length, bytes of 2 to 8 bits
and every bound that keeps the high part below a byte, a string is accepted only as the encoding of what it gives,
a vector is refused exactly when a coefficient is too large or the bits do not fit, and what is written is read back.
The two loops do not stop at the same places of the string: `comp_encode` keeps the bits of a byte it cannot
complete, `comp_decode` the bits of a byte it has not used up. The invariant `Joint` runs both on one
string and says that they are at the same bit of it: either both are between two bytes, or they are in the same byte,
the encoder holding its lower `el` bits `a`, the decoder its upper `l` bits `c`, so that
`el + l = BB` and the byte is `a + 2^el * c`. A coefficient ends in the byte that starts it or in the next one
(`OneByte`, `TwoBytes`), the same one for both. `NextSplits` says that this is all the decoder accepts, `AppendWrites`
that it is all the encoder writes, and `JointOne`, `JointTwo` and `ReadsBack` that both arrive at the same bit again.
Then it is induction over the coefficients, upwards, and downwards once (`AllAhead`): that the final string goes on with
what the accumulator held after each append is only known at the end. The bits that `WrittenBits` counts are what
decides a refusal. `SignatureEncodings` is the property of the run `codec`. The assumptions are `CompAssumption`
(with the code's numbers, 8 and 840, it holds) and `CompJobAssumption`.

The same module proves `HashVersions`: when a stream holds n samples below 5q, `hash_to_point_vartime`, the loop
by blocks of SHAKE output and, if they are among the n + `Over` samples it takes, `hash_to_point_ct` all return
the first n of them modulo q. The two plain loops
follow by induction over the samples. The squeezing passes of the constant-time version rest on a claim that the
legacy `common.c` only states ("it can be shown ... the destination slot is free"), and this is its proof: before
the pass by p, the distance of every kept value from its final slot is a multiple of p, and after the pass a
multiple of 2p; the kept values never change their order; so a value that moves down p slots never lands on
another one. After the last pass the distance is a multiple of a power of two above `Over`, hence 0.
`HashesAgree` is the property of the run `codec`. The assumptions are `HashAssumption` (at most 1023 samples over; the
code's `overtab` ends at 287) and `HashNAssumption`.

`Shake_proofs` proves what the run `shake` checks, for every message, every set of chunk lengths and every
even number of rounds up to 24.

* *Permutation.* `process_block` keeps some lanes complemented and leaves the lanes of the first of two
  rounds displaced. `Placed` says where a lane of the standard's state is and `Mask` whether it is
  complemented; masks pass through exclusive or and rotation, and through the rewritten chi whenever
  the table of masks says so. Each half iteration is then one round of the standard, and an iteration
  brings places and masks back: `ProcessBlockIsKeccak`, by induction over the rounds. The first implementation's
  portable code and the Cortex-M4 code, with its own order, are a second and a third proof of the
  same form (`LegacyProcessBlockIsKeccak`).
* *Streams.* Loops are written with `After`, the value after k iterations. The inductive invariant is
  `ContextInv`: both contexts hold the same state; while the message is injected it is the state after the
  full blocks, with the remaining bytes mixed in (`Filled`) and `dptr` their number; after the flip it is the output
  block being read (`Block`) and `dptr` the place in it (`Ptr`), which is the rate, not 0, after a whole block.
  The property alone is not inductive: it speaks of one answer only. The bits of the flip are the
  standard's padding of the last block, also when it has one free byte (`PadIs`, `Final`), and the sponge of the
  standard takes the same blocks (`SpongeBlocksAre`, `SpongeIs`). `StreamAlwaysSponge` follows.

`After` chooses the function that the recursion defines, which TLC cannot evaluate, so the run checks
`StreamIsSponge` and not `ContextInv`. The assumptions are `RoundsAssumption` and `ShakeAssumption` (rate of
SHAKE256; the message is any string of `MaxIn` bytes).

`ModPoly_proofs` has no constant fixed. `Reduces`: if Q1I is the negated inverse of Q modulo 2^32, `mq_mred` is
Montgomery reduction on every product of two residues, for every odd Q < 2^15. `NttInverse`: if
moreover entry k of one table times entry k of the other is 1/2, the inverse NTT gives back every
polynomial, for degrees 2 to 1024. A butterfly and its inverse cancel, the factor 2 against the halving of
the sum and the half in the table; each entry belongs to one butterfly, so a stage and its inverse cancel;
the stages cancel from the inside out, by induction over their number.

The products follow the tree of moduli. After lm stages block j of the array is the polynomial modulo
X^len - w, len = N / 2^lm, where w is the value of node 2^lm + j (`NodeValue`: -1 at the root, and s and -s
below a node whose table entry stands for s, with s^2 the value of the node, `RootSquare`). One stage takes every
block to its two remainders (`StageReduces`), and a product, a sum or an adjoint modulo X^(2h) - s^2 is
one modulo X^h - s (`ProductReduced`, `SumReduced`, `AdjReduced`), where the adjoint goes to the
block that mirrors it on its level, because the values of the two nodes multiply to 1. By induction over
the stages this holds at the leaves, blocks of one entry: `NttOfProduct`, `NttOfSum`, `NttOfAdjoint`. A sum of `len` terms is a
recursive function, and the lemma about a product under reduction folds it in half (`FoldedSum`, by induction over
the length). With the inverse transform, `SlotwiseIsSchoolbook` and `MirroredIsSchoolbook` say that `mul_ntt`, `muladj_ntt`,
`muladj_x2_ntt` and `muladj_add_muladj` compute `SchoolMul`, `Adj` and `SchoolAdd` of all polynomials of every
degree from 2 to 1024.

The hypotheses are facts about the numbers the source files give (`TablesCorrect`: Q1I, R2, the inverse
table, the order of the roots, the roots that mirror each other) and `ModulusAssumption`. `MCModPoly_proofs` discharges
them for q and q' with the code's constants and the table entries the instance has, which are those of degrees 2, 4 and 8:
`BothRoundTrips`, `BothMultiplyAlways`, `BothAdjointsAlways`.

`Induction` proves induction and the least-number principle for a set of naturals from the library's
well-founded set of naturals, since the library's own rules take an operator, which the provers cannot
instantiate, and from it what the loops need of the powers of two. Literals in the proofs stay below 2^62, where the prover's arithmetic on literals is exact;
larger products are named and reasoned about by inequalities.

Only model-checked:

* `KeygenDelivers`: liveness.
* `DivisionExact`: that `mq_div`'s addition chain x^(q-2) inverts x is Fermat's little theorem, which needs
  induction over a product of residues. The entries of the tables beyond degree 8 are not in the model.
* `FftCheck` and `FfSamp`: an FFT over an extension field, with recursive operators, at small degrees.
* `KeyCodecsInverse`: the unrolled decoders are shifts of sets of bits, and the legacy compressed format is not
  canonical, so the argument of `CompressedCanonical` does not carry over.
* `BezoutCorrect`, `WideZintExact`: loops over words, of divisions and carries, where the bound on each
  intermediate value is an induction of its own.
* `KeygenMemory`: fixed tables, and TLC covers all degrees there are.

## Not modelled, and the plan

* **Emulated doubles** (`fndsa_sign_fpr.c`, `legacy/.../fpr.c`) and 32.32 fixed point: rounding of 64-bit
  values is out of TLC's reach; the FFT modules are exact instead.
* **Samplers of integers** (`fndsa_sign_sampler.c` below the recursion, `fndsa_kgen_gauss.c`, the legacy
  ones): their correctness is a distribution. The models take any small integer.
* **Values in the NTRU solver.** `KeygenMem` follows memory and lengths, `Zint` the integers; that the
  reduction converges is heuristic in the code as well.
* **Vector and assembly variants** (SSE2, AVX2, NEON, Cortex-M4), except the permutations of
  `KgenVect` and the legacy assembly of Keccak. In particular the 16-bit widening of the SIMD NTT at
  degree 8 is left out. The device build compiles none of them.
* **Randomness** (`fndsa_sysrng.c`, legacy `rng.c` seeding): system calls; `FalconLR` has the TRNG as an
  external choice.
* **Legacy handlers**, drawing and text, the simulation, fuzzers and JavaScript harnesses.

What would come next, in this order: the theorems about `sign_core` at every degree, on the products of
`ModPoly_proofs` in place of those at degree 2; the type and range invariants of
`KeygenMem`; scrubbing of the working area; the rejection loop of the integer sampler.
