# Verification of the ESP32-C3 Algorand boilerplate

The firmware in `src/` connects an ESP32-C3 to WiFi, shows the state of the
connection on an LED, and then runs a three-stage pipeline against an algod
node until it succeeds once: fetch the transaction parameters, read the
account's balance, sign and submit a payment. This directory holds TLA+ models
of it, TLC configurations that check them on small instances, and TLAPS proofs
for every instance.

Paths such as `src/src/main.cpp` are relative to the directory above this one.

## 1. The system

### Components

| component | code | state it keeps | operations |
|---|---|---|---|
| algorand task | `src/src/main.cpp` | `lastAttemptMs`, `params`, `txId`, all in RAM | wait for an address; every second look at the clock; every 30 s run the pipeline; stop after a success |
| payment stages | `src/src/algorand.cpp` | none of its own | fetch parameters, log the balance, check credentials, check that amount and fee are covered, encode, sign, submit |
| algod client | `src/src/algod_client.cpp` | `response_buf`, `response_len`, shared by all calls | GET and POST with a handler that gathers the body; parse JSON; fill outputs |
| payment encoder | `src/src/algorand_codec.cpp` | static buffers for one payment | msgpack writers, `encodePaymentTxn`, `algorandEncodeSignedPayment`; decoders of addresses and secrets |
| WiFi manager | `src/src/wifi_manager.cpp` | `hasIp`, `lastAttemptFailedHard`, `ledMode`, three time stamps; plain globals | `wifiManagerBegin`, `wifiManagerLoop`, `onWifiEvent` |
| status LED | `src/src/wifi_manager.cpp` | mode, start of the phase, level of the pin | pick the mode, drive the pin |
| Ed25519 | `src/src/ed25519/` | none between calls | sign, create key pairs, add scalars; SHA-512; arithmetic mod the group order; field and curve |
| scripts, build files, credentials headers | `src/scripts/`, `src/platformio.ini`, `src/include/*.example.h` | none | static input and host-side helpers |

### How they interact

* `app_main` starts the algorand task and then loops over `wifiManagerLoop`
  every 10 ms. ESP-IDF delivers WiFi and IP events to `onWifiEvent` in its own
  task, at a higher priority. The three share `hasIp` and the manager's other
  globals without a lock; the core is single, so a handler runs between two
  accesses of `main`, never the other way round.
* The algorand task asks `wifiManagerIsConnected` only before its first
  attempt. From then on it relies on calls failing while there is no link.
* The stages call the client, one call at a time. The client's event handler
  runs inside `esp_http_client_perform` and writes the shared buffer.
* Stage 3 reads the balance a second time and combines it with the parameters
  of stage 1. A POST hands the payment to algod, which may take it whatever
  becomes of the answer.
* The encoder calls `ed25519_sign` with the 64 bytes of the configured secret.

### What is hard here

* **Lost answers.** A POST whose answer is lost, late or too long counts as a
  failure, and the retry is a new payment.
* **Accepted is not made.** The task stops when algod takes the payment into
  its pool; whether a block ever holds it, nobody looks.
* **Crash.** A reset forgets everything but what algod already has.
* **Numbers of JSON.** A missing one is 0, every other one goes through a
  double and a cast; two of them are then added on 64 bits.
* **Clocks that wrap.** All time stamps are 32-bit milliseconds; one of them
  also uses 0 for "never".
* **Two tasks on plain globals.** Clock and stamp are read in two steps, the
  mode is tested and then written, events queue up behind a state that changed.
* **Unchecked results.** Nobody looks at what `esp_wifi_connect` returns.
* **Fixed buffers.** The writers of the encoder do not check their scratch
  buffer; the client mixes `int` and `size_t` in `copy_len`.
* **Data that selects a path.** Five integer forms, one or two blocks of
  padding, carries that run through all digits of a scalar, a text that may be
  hexadecimal or base64.
* **Numbers in pieces.** Field elements and scalars are limbs that overlap and
  go negative between carries; a carry out of order is wrong for few values
  only, and a limb that outgrows its C type is undefined.

PROJECT.json lists these hazards line by line, each with the properties that
cover it, or with the reason why none does.

### What makes each component correct

| component | properties |
|---|---|
| algorand task and stages | it stops only on a payment that algod accepted; offers what the account cannot pay only for one of three known causes; signs fresh parameters; sends nothing when misconfigured; retries on time whatever the clock does; has a payment accepted in the end |
| algod client | the buffer is the beginning of this call's answer; no wrong or truncated document is accepted; none that fits is refused; failures leave the outputs alone |
| encoder | buffers suffice; a reader gets the arguments back; canonical order and form; addresses and secrets read back, other texts are refused |
| WiFi manager and LED | reconnects by itself; belief and link agree once events are handled; LED mode and pin show what the globals say |
| Ed25519 | the digest is that of the padded message; the multiplications compute the multiple; limbs keep their number and fit; keys that got the same scalars match; signatures verify |

## 2. The modules

| module | models | variables and what they are in the code |
|---|---|---|
| `AlgorandTask` | `main.cpp:15-41`, `algorand.cpp`, the JSON fields of `algod_client.cpp`, algod and the ledger | `stage` is the program counter between calls; `params`, `txId`, `lastAttemptMs` are the locals; `inflight` holds POSTed payments, live while the task still waits; `round`, `funds`, `pool`, `ledger` are algod's, `accepted` is all that the pool has ever taken; `stale` says that `funds` moved since the last balance answer |
| `PaymentPromise` | what the task promises its owner, without clocks, calls or parameters | `offered`, `accepted`, `paid`, `receipt` |
| `AlgodClient` | `algod_client.cpp` at the level of bytes | `buf`, `len` are `response_buf`, `response_len`; `rest` is what the server still sends; a byte knows the document it comes from |
| `PaymentCodec` | `algorand_codec.cpp:21-23, 36-196, 362-415` | `pos`, `signed` are the lengths; `txn` the fields written; `scratch` the most bytes any write put into a scratch buffer |
| `KeyText` | `algorand_codec.cpp:26-34, 201-348` | `text`, `at` are the argument and `i`; `buffer`, `bits` the base32 accumulator; `decoded` the bytes so far; `result` the return value |
| `WifiManager` | `wifi_manager.cpp`, `main.cpp:44-55` | the globals by their names; `pc` the next access of `main`; `handler` where `onWifiEvent` is; `ledOn` the pin; `link`, `dhcp`, `queue` the driver |
| `Sha512` | `sha512.c`: init, update, final | `buf`, `curlen`, `length` of the context; `input` what an update has not taken yet; `hashed` the blocks compressed so far |
| `ScalarMult` | `ge.c` over a small field | `digit`, `carry`, `index`, `point` are `e`, `carry`, `i`, `h` of `ge_scalarmult_base` |
| `DoubleMult` | `slide` and `ge_double_scalarmult_vartime` | `slid` are `aslide` and `bslide`, `place` and `offset` are `i` and `b`, `sum` is `r` |
| `FieldChains` | `fe_invert`, `fe_pow22523` | the registers, as exponents of the argument; exponents as sets of bits, at their real size |
| `FieldLimbs` | `fe.c` on ten limbs | `regF`, `regG` two elements with the number they stand for and their bound; `work` the limbs of the function that runs, `pending` its carries still to come |
| `ScalarLimbs` | `sc.c` on 24 and 12 limbs | `limb` are `s0` to `s23`; `program`, `pc` the straight-line code and where it is; `bits` how large each limb can be at 21 bits |
| `Ed25519Keys` | `sign.c`, `keypair.c`, `add_scalar.c`, and the secrets a user configures | the halves of the private key, the public key, sums of the scalars added to each |
| `ModLemmas` | lemmas for the proofs: remainders, induction over numbers, functions by iteration | |

**Granularity.** An action is what happens between two points where something
else can interfere. In `AlgorandTask` that is a whole handler between two HTTP
calls, since only one task touches the locals; a call is two steps (algod
decides, the task reads) and `HttpFails` may come instead of the second or
after the first. In `WifiManager` an action of `main` is a single access of a
shared variable, while a handler's assignments are one step, because nothing
preempts it. In `AlgodClient` it is one event of the HTTP client. In `Sha512`,
`ScalarMult`, `DoubleMult` and `KeyText` it is one iteration of a loop, in
`FieldLimbs` and `ScalarLimbs` one carry or one fold.

**Composition.** `AlgorandTask` contains the interface of the others as their
contracts: a call of `AlgodClient` either fails, leaving the outputs alone, or
delivers the answer to that very call; the encoder never fails on what the
client delivers (`BuffersSuffice`); `hasIp` comes and goes. The last is why the
task and the WiFi manager are not put into one module: the task lets `hasIp`
change at any time and calls fail at any time, so whatever `WifiManager` does
is among the behaviours checked. `AlgorandTask` refines `PaymentPromise`
through an `INSTANCE` that maps POSTed payments to offers and `txId` to the
receipt, once the task has stopped. `MCEd25519` puts the seven parts of the
signature library side by side, each checked on its own; `MCPaymentCodec` does
so with the encoder and the decoders of text.

The layers of the library meet in their results: `FieldLimbs` shows that limbs
compute mod the modulus, which `ScalarMult`, `DoubleMult` and `FieldChains`
take for granted; `ScalarLimbs` that `sc_reduce` and `sc_muladd` compute mod the
group order, which `Ed25519Keys` takes for granted, as it does the multiples of
`ScalarMult`.

**Taken as external.** algod and the ledger, the HTTP client, cJSON's numbers,
the WiFi driver, the access point and DHCP. They are modelled by what the code
relies on and nothing more. algod's pool takes a payment that is valid for the
next round, new, and covered by the confirmed balance; it may refuse or lose
anything, so also what pending payments leave no funds for. A payment of the
pool gets into a block while its rounds last, or is forgotten at any time.
Balances show what is in blocks, and only the device's payments move them.
cJSON rounds a number to the nearest double (`NearestDouble`); the cast back is
undefined at 2^64 and above, so `GetUint64Field` is the set of what may be read.
`mbedtls_base64_decode` is the decoding of padded texts; it skips line ends and
the blanks before them, and the secrets of the model have none
(`TextAssumption`). A call of `initWifiStack` that fails aborts, and the device
starts again from the initial state: no action of `WifiManager`.
SHA-512's compression is no part of `Sha512`, and `Ed25519Keys` takes SHA-512 to
be any function. The tables of `precomp_data.h` are taken to hold the multiples
that the code uses them for.

## 3. The runs

| run | what it shows |
|---|---|
| `AlgorandTask_money` | all interleavings of the pipeline, a failing network, a pool that forgets, a moving ledger, good and bad credentials and one reset: `StoppedMeansAccepted`, `UncoveredHasCause`, `FreshParams`, `MisconfiguredSendsNothing`, and `KeepsPromise`: the task implements `PaymentPromise` |
| `AlgorandTask_live` | on a clock that wraps: `ClockMeasuresAge`, `RetryTiming`, `RetryForever`, `EventuallyAccepted` |
| `AlgorandTask_once` | violation: a payment can be made twice |
| `WifiManager_safety` | both tasks and the pin, one access at a time: `LedFollowsState`, `AttemptStaysYoung`, `BeliefSettles`, `DisconnectedHasCause` with failing connects and stale addresses |
| `WifiManager_live` | `AutoReconnect` and `LedShowsConnection` (the pin stays lit) although connect calls may fail |
| `WifiManager_stuck` | violation: with a stale address as well, the station can stay offline for ever |
| `WifiManager_timeout` | violation: an attempt that has just begun counts as 20 s old |
| `AlgodClient_answers` | every cut of every answer over three calls: `BufferHoldsAnswer`, `OnlyOwnAnswer`, `FittingAnswerAccepted`, `FailureKeepsOutputs` |
| `PaymentCodec_encode` | `BuffersSuffice`, `ReadsBack`, `SortedAndShortest` around every limit; `AddressReadsBack`, `SecretReadsBack` for texts that are right, too short, too long, odd or of the wrong letters |
| `PaymentCodec_zero` | violation: a zero first round or fee is written |
| `Ed25519_parts` | `NothingLost`, `DigestOfMessage`; `PartialSums` of both multiplications, `GroupLaw`; `ChainsExact`; `NumberKept`, `CanonicalBytes` of the field's limbs; `Reduced`, `NoOverflow` of the scalars' limbs; `KeysAgree`, `SignaturesVerify` |
| `Ed25519_goal` | violation: a secret as goal exports it does not sign |

Each property also has a mutant: a plausible slip in the code (a dropped guard,
a missing reset, an off-by-one) under which TLC finds the property violated in
the same run.

### Bounds, and why they are enough

* **AlgorandTask.** One amount, up to three fees, rounds 0 and 1, funds for
  two payments, at most one reset. Integers are 4 bits wide in `money`, 3 of
  which a double holds. Uncovered payments occur there from each of the causes
  of `UncoveredHasCause`: a fee of 14 plus 2 wraps to 0; the balance 11 is read
  as 12, which passes for the cost of a fee of 10; and a payment of an earlier
  attempt is debited after the balance answer, at balances that are read
  exactly (7 and 3). A balance that rounds to 2^64, whose cast is not defined,
  is left to the proofs: with 15 to begin with the run takes too long.
  Two attempts that overlap, of which the
  first is still on its way, are what the safety properties are about, and
  they need two rounds (else the second payment equals the first) and money
  for two. `Validity = 1` lets a payment expire. The missing JSON field is
  `fee` in `money`; the others are covered by the theorems, which hold for
  every `OptionalFields`. The clock has two values in `money`, where time does
  not matter, and four in `live` with a retry interval of 2, so that it wraps
  between attempts and an attempt can begin at 0. `MaxElapsed` bounds the time
  until the next look at the clock; it must stay below the period of the clock
  for a difference to mean anything (49.7 days in the code).
* **WifiManager.** The intervals keep the order of the code's: lag below
  retry below attempt timeout below the period, with room for four lags between
  the retry and the timeout, as the proof of `AttemptStaysYoung` asks for. Losses
  are soft and hard in the safety run, hard in the liveness runs, where a soft
  one differs in the LED only. The time since a blink pattern began is not kept, it may be any. A queue of three events (two
  for the liveness runs) holds the loss, the new connection and the stale
  address at once.
* **AlgodClient.** A buffer of four bytes, documents of one to five, bodies of
  zero, one or five in front of them: shorter than the buffer, exactly its
  size less one, longer; three calls, so that two predecessors can leave
  something behind.
* **PaymentCodec.** Both sides of every limit of `writeUint64`, the largest
  values, genesis ids on both sides of 31, 63 and beyond 255. The capacities
  are the real ones.
* **KeyText.** Keys of two bytes, a decoding buffer of three, secrets of four,
  an accumulator of 16 bits instead of 32: it is wider than what is shifted in
  between two bytes, and is shifted out of within a text, as in the code.
  Texts of every length up to beyond the buffer.
* **Ed25519.** Blocks of six bytes with words of one: messages of up to 20
  bytes cover every length modulo the block over three blocks, with and
  without the extra block of padding. Scalars of two bytes, four digits, with
  nibbles around 7 and 8 and runs of carries; a curve of 56 points mod 61 on
  which the formulas are complete like on the real one (-1 is a square, D is
  not). `ge_double_scalarmult_vartime` gets the same widths, with a point of
  the order of the whole group and one of order 4. Chains at their real size.
  Keys mod 7.
* **Limbs.** `ScalarLimbs` has the 24 and 12 limbs of the code, two bits each,
  and a group order 4^12 + 1337 whose negated digits are signed like those of
  L; numbers around its multiples, of all-ones, alternating and single limbs.
  `bits` follows the sizes at the real 21 bits, for all operands at once.
  `FieldLimbs` has ten limbs of six and five bits in turn, a modulus 2^55 - 3 =
  5 * 1871 * 2207 * 2621 * 665789, so that congruence mod the five primes is
  congruence mod the modulus within TLC's integers, and any four calls before
  the result is written; the theorems are at the real width.

Where a run has `CHECK_DEADLOCK FALSE` the system does stop: the algorand task
after a payment (with rounds and clock at their bounds), the client after its
last call, the encoder at the end, the Ed25519 parts when each is done. The
WiFi runs check for deadlock.

### Fairness, and what justifies it

* `AlgorandTask`: the scheduler runs the task (`StartPolling`, looking at the
  clock, `Wake`), the timer ticks, and every pending call ends
  (`timeout_ms = 15000` in the client). That a call ends *well* is never
  assumed: `EventuallyAccepted` has a healthy network as its hypothesis, and
  `RetryForever` needs none.
* `WifiManager`: both tasks are scheduled and the timer ticks; an association
  attempt and a DHCP exchange come to an end, one way or the other.
  `AutoReconnect` has as its hypothesis that from some time on the link is not
  lost, attempts do not fail and connect calls do what they say.

All conditions are weak fairness: none of these actions is switched on and off
by the environment for ever in a behaviour the properties speak of.

### Findings

1. **A payment can be made more than once** (`AlgorandTask_once`,
   `main.cpp:33`). README and comment speak of one payment. A lost answer to an
   accepted POST is taken for a refusal; the retry has another first round,
   hence another id, and no lease. `PaymentPromise` states what does hold: none
   is made that was not offered, and offers end with a receipt.
2. **The station can stay offline for ever** (`WifiManager_stuck`,
   `wifi_manager.cpp:175`). An address that arrives after its link is lost sets
   `hasIp`; with the result of `esp_wifi_connect` ignored, a failed call in the
   handler of the loss is then never made up for.
3. **A new attempt can count as timed out** (`WifiManager_timeout`,
   `wifi_manager.cpp:90`). The clock is read before the stamp; a handler that
   stamps in between makes the unsigned difference almost 2^32.
4. **Zeros that are not canonical** (`PaymentCodec_zero`,
   `algorand_codec.cpp:146`). The comment at line 131 gives the reason for
   leaving out a zero amount; fee and first round are written all the same.
5. **goal's secrets do not sign** (`Ed25519_goal`, `sign.c:30`). They are seed
   and public key; the code uses the first half as a scalar without hashing it.
   Secrets of the script (scalar and public key), of which the README says that
   payments with them do not work yet, do give signatures that verify.

Noted without a run of its own: `fee + amount` is taken on 64 bits
(`algorand.cpp:121`), so a fee that no network asks for passes the balance check
with any balance. A balance above 2^53 microalgos, nine billion Algos, may
be read as up to one too high below 2^54 (`algod_client.cpp:53`), and a payment
be submitted that it does not cover. The task never looks again at a payment
that the pool took and later dropped. An attempt that begins when the clock reads 0 leaves
`lastAttemptMs == 0`, "no attempt yet", and is followed by another at once
(`RetryTiming` has that exception in it). algod's `fee` is per byte and
`min-fee` per transaction, while the code takes the larger as the whole fee;
which fee suffices is the network's decision. The comments of `fe_add` and
`fe_sub` ask for operands within 1.1 * 2^25 (`fe.c:74`, `1308`), while `ge_madd`
and `ge_p2_dbl` pass them sums of two elements, about twice that; nothing
overflows, and what is promised to the next product still holds (`FieldLimbs`
limits the sum, not the operands). The comment at `ge.c:60` lets the
factors of `ge_double_scalarmult_vartime` be any 32 bytes; `slide` loses a carry
beyond bit 255 when the top bit is set, 2^256 - 1 becomes -1. `DoubleMult` has
factors below 2^255, as `ge_scalarmult_base` states for its own; nothing in
`src/` calls the function. The 20 s after which a connection attempt counts as
failed are never reached but by the race of finding 3: the loop starts a new
attempt every 10 s (`AttemptStaysYoung`, `DisconnectedHasCause`).

## 4. The proofs

What a run shows for the values of its `.cfg`, the theorems below establish for
every value of the constants, but for three about limbs, which are at the real
width. Each invariant and each action property that a passing run checks, and the
refinement, is the subject of one.

| module | proves about |
|---|---|
| `AlgorandTask_proofs` | `AlgorandTask`, `PaymentPromise` |
| `WifiManager_proofs`, `AlgodClient_proofs` | the modules they are named after |
| `PaymentCodec_proofs` | `PaymentCodec`, `KeyText` and both side by side, as `MCPaymentCodec` runs them |
| `Limbs_proofs` | `ScalarLimbs` and `FieldLimbs` |
| `Curve_proofs` | `ScalarMult` and `DoubleMult` |
| `Signing_proofs` | `Sha512`, `Ed25519Keys`, `FieldChains`, and all of the library as `MCEd25519` runs it |
| `ModLemmas` | what the others share |

Every step is checked by `tlapm` down to the last leaf.

| theorem | says, for all constants | inductive invariant |
|---|---|---|
| `TypeOKAlways` (task) | every variable keeps its type | `TypeInv` |
| `TypeCorrect` (task) | in addition a pending reply fits the stage that reads it, names an accepted payment when it answers a POST, and one POST at most is waited for | `TypeInv` |
| `StoppedMeansAcceptedAlways`, `UncoveredHasCauseAlways`, `FreshParamsAlways` | the task stops only with an accepted payment, offers one that the account cannot pay only for one of the causes, signs fresh parameters | `TypeInv`, `PaymentInv` |
| `ClockMeasuresAgeAlways`, `RetryTimingAlways` | the unsigned difference of two clock readings is the age of the attempt, wrap or no wrap; no attempt before its time | `ClockMeasuresAge` |
| `MisconfiguredAlways` | unusable credentials send nothing | `NothingSent` |
| `ImplementsPromise` | the task implements `PaymentPromise` | `TypeInv`, `PoolAccepted` |
| `TypeCorrect` (WiFi) | the globals, the pin, the locals and the driver keep their types | `TypeInv` |
| `BeliefSettlesAlways` | with no event left `hasIp` and the link agree, but for a stale address | `QueueTellsLink` |
| `AttemptStaysYoungAlways` | offline, the stamp of the attempt never gets 20 s old | `YoungInv` |
| `LedFollowsStateAlways`, `DisconnectedHasCauseAlways` | after an undisturbed refresh mode and pin are what the globals call for; the disconnected pattern has a cause | `RefreshInv`, `YoungInv` |
| `TypeCorrect` (client), `BufferHoldsAnswerAlways`, `OnlyOwnAnswerAlways` | the buffer is the beginning of this call's answer, no other document is ever accepted | `ClientInv` |
| `FittingAnswerAcceptedAlways`, `FailureKeepsOutputsAlways` | what fits is not refused; a failure writes no output | `ClientInv` |
| `Uint64Correct` | `writeUint64` and a MessagePack reader are inverse on all 2^64 values | none needed |
| `TypeCorrect` (encoder), `BuffersSufficeAlways` | no genesis id, note or amount overflows a buffer of the encoder | `CodecInv` |
| `ReadsBackAlways`, `SortedAndShortestAlways` | a reader of any encoded payment gets the arguments back; keys ascend, integers are shortest | `CodecInv`, `TxnInv` |
| `TextTypeCorrect`, `TypesOKAlways` (encoder and decoders) | the index stays in the text, what is decoded in its buffer, lengths in theirs | `TextInv`, `CodecInv` |
| `AddressReadsBackAlways` | the decoder takes exactly the texts with enough base32 digits, and the key is their first bits | `AddressInv` |
| `SecretReadsBackAlways` | every text of a secret is read as that secret, nothing is taken for what it does not say | `SecretInv` |
| `ShaTypeCorrect`, `NothingLostAlways`, `DigestOfMessageAlways` | what is compressed is the padded message, for every block and word size | `ShaInv` |
| `ScalarTypeCorrect`, `CongruentAlways` | no fold or carry of `sc.c` changes the number mod the order, for every radix and order | `Congruent` |
| `NoOverflowAlways`, `LimbsFitInt64` | 62 bits and a sign are enough for every limb of `sc.c`, in the bounds that `bits` follows and for all operands at the real width | `BitsInv`, `LimbsInBits` |
| `ReducedAlways` | at the real width `sc_reduce` and `sc_muladd` store the one residue below the order | `RestInv` |
| `FieldTypeCorrect` | `FieldLimbs` keeps its types at every width | `WorkIsElement` |
| `LimbsFitAlways` | at the real width no limb of `fe.c` leaves `int32_t` and no sum of products `int64_t` | `LimbInv` |
| `ProductIsProduct`, `SquareIsSquare` | `fe_mul` and `fe_sq` compute the product and the square mod 2^255 - 19 | none needed |
| `NumberKeptAlways` | at the real width the limbs stand for the number the calls promise | `LimbInv`, `NumberKept` |
| `CanonicalBytesAlways` | at the real width `fe_tobytes` writes the one number below 2^255 - 19 | `LimbInv`, `NumberKept`, `WriteInv` |
| `MultTypeCorrect`, `PartialSumAlways` | the digits fit their tables and `ge_scalarmult_base` computes a B, for every number of bytes and every curve | `RecodeInv`, `DigitsKeepValue`, `PointInv` |
| `GroupLawAlways` | the formulas of `ge.c` are complete; points come back from their bytes, others are refused | `PartialSum` |
| `DoubleTypeCorrect`, `DoubleSumAlways` | the digits of `slide` fit their tables and keep the factor; `ge_double_scalarmult_vartime` computes a A + b B | `SlideInv`, `KeptValue`, `SumInv` |
| `ChainsExactAlways` | the addition chains have the exponents 2^255 - 21 and 2^252 - 3 | `ChainInv` |
| `KeysTypeCorrect`, `KeysAgreeAlways`, `SignaturesVerifyAlways` | keys that got the same scalars match, and what they sign verifies | `KeysInv` |
| `TypesOKAlways`, `PartialSumsAlways` (library) | types and both multiplications in the composition that the runs check | those of the parts |

**Induction.** `ModLemmas` does induction over numbers with sets: a set that
holds 0 and is closed under successor holds every number (`Induction`, from the
well-foundedness of the order), with variants up to a bound and downwards.
`RecursionExists` gives the function that a recursive definition asks for, by
induction on its domain; a `CHOOSE` of it is then known to satisfy its equation.
Every statement below about a recursive function (the value of digits, the
multiples of a point, the bits of a text, the limbs of a number) is proved for
arguments of every size this way.

**The task.** The type of `reply` depends on `stage`: `ReplyMatches` says so,
and without it a step could read a field the record does not have.
`LiveAtSubmit` adds that only a task at its submission waits for a POST.
`UncoveredHasCause` needs to know that the answer which the check reads names the
balance (or lacks it) until the account is debited (`Covered`), that a number
below 2^53 is read as it is written (`ReadExactly`, where the smallest of the
spacings that fit is 1), and that the sum is the true one unless it wraps
(`TotalCostExact`). `FreshParams` speaks of the moment of submission and is not inductive; what
is preserved is `ParamsFresh`, from the arrival of the parameters to their use,
together with the fact that rounds only grow. `ClockMeasuresAge` rests on one
lemma, `ElapsedTick`: a tick makes the unsigned difference one larger as long
as the real age is below the width of the clock. `ImplementsPromise` is a
refinement proof by cases on the actions (`RefinementStep`). Assumed:
`ClockAssumption` (the retry interval, and the longest wait the model lets pass
since an attempt, are below the clock's width),
`MoneyAssumption` (amount, fees and funds are 64-bit numbers, any),
`DoubleAssumption` (the spacings are powers of two and reach 2^64) and
`AlgodAssumption` (which fields algod may leave out; rounds stay below 2^53).

**The WiFi manager.** `BeliefSettles` speaks of an empty queue; what is preserved
is `QueueTellsLink`: the last event of the queue that speaks of the connection
says what the link is, whatever the handler has done of it so far.
`AttemptStaysYoung` needs to know where `main` is: `PlaceOK` and `YoungInv` bound
the age of the stamps at each of its accesses by how long ago it last looked at
the retry timer, which gives ReconnectMs + 4 MaxLag; fewer lags are not enough
for the induction. `RefreshInv` says, access by access, what an
undisturbed refresh has read and will write. Assumed: `WifiAssumption`, the
order of the intervals, of which the code's (10 s, 20 s, 2^32 ms) satisfy every
part as long as the loop is never 2.5 s late.

**The client.** `Transfer` says that during a call what came and what is still
to come belong to this call, and that no result is there yet. With
`BufferHoldsAnswer` (the buffer is the beginning of what came, ended by a zero)
a document parses exactly when it was sent whole and fits (`ParsesIffSent`), so
an accepted one is this call's. The action properties are about the one step
that returns, from states where `ClientInv` holds. Assumed: `CapAssumption` (a
buffer of at least one byte) and `ServerAssumption` (documents are not empty).

**The encoder.** The strengthening is `Budget(n)`, an upper bound of the bytes
written before field `n`: the bounds add up to 242 of 256. The round trip is
proved per width: each `div`/`mod` by a power of 256 is a leaf, and no property
of `^` is used. `TxnInv` says that before field `n` the transaction holds
exactly those of the earlier fields that are not omitted, each as its argument
reads; order and form follow from it at the end.

**The decoders.** `ReadsSoFar` says that the bytes decoded and the bits still in
the shift register are, bit by bit, the digits read so far, although the register
has only as many bits as `Wrap` and drops the rest; that works because the bits
dropped are decoded by then. `SecretInv` keeps what is known of the form:
a hexadecimal text is read pair by pair, a base64 text at once. That the two
forms never overlap on a secret is where padding comes in: a base64 text of
`SecretSize` bytes ends in `=`, which is no digit, since 3 does not divide the
size (64 in the code). Texts of base64 may carry any bits in the places that
their padding leaves unused; the library ignores them, and so does the claim.
Assumed: `TextAssumption`, the sizes, with that fact, and a register of at least
the twelve bits that a digit and the rest of a byte can take (32 in the code).

**SHA-512.** `NothingLost` says that what is hashed, the buffer and what is not
taken yet are the message. `DigestOfMessage` needs in addition that the number
of zero bytes is the only one that fills a block (`ModFill`); it holds for
every block that has room for the length and the end mark, at the real sizes
128 and 16 too. The bytes of `STORE64H` are an arbitrary tuple of weights.

**Limbs of the scalars.** Each step of `sc_reduce` and `sc_muladd` is a fold (a
limb from the 13th up, times the six digits that Radix^12 is mod the order) or a
carry, rounded or not, and each keeps `Residue` whatever the radix. `BitsInv` is
the table of sizes that hold from each place of the program on; every step takes
one row to the next, so the program is proved place by place and no operand is
looked at. `LimbsInBits` says that the limbs are within these sizes. That the
number stored is the one below the order, and not merely in its class, is an
argument about the end of the program (`RestInv`): once limb 12 is folded in, the
number is less than 2^252 away from 0; folded in once more, after the carries have
cut the limbs below, it is in 0..L-1. Assumed: `ScalarAssumption` (up to 29 bits in
the last limb of 64 bytes; the multiplier is Radix^12 mod the order) and, for the
real width, `RealScalars`, the numbers of the code.

**Limbs of the field.** `RealField` gives the constants the values of the code:
limbs of 26 and 25 bits, 19, 121666, the shifts and loads of `fe_frombytes`.
`LimbInv` has, for each chain of carries, a limit of every limb for every number
of carries still to come, so that after the last one the postcondition, 1.01 *
2^25, holds again and no product is too large before the first; `LimbsFit` is
what C needs of it. `ProductIsProduct` and `SquareIsSquare` take the limbs apart
into the products of one limb with the other factor (`Row`) and show each
congruent, 2^255 being 19. `NumberKept` is inductive given `LimbInv`: a carry
moves what it takes, with 19 for what leaves the last limb (`CarryKeeps`). `RealFactors` lets the factors be any numbers the
modulus is a multiple of, so 2^255 - 19 itself. For `CanonicalBytes`,
`QuotientExact` is the claim and the argument of the comment above `fe_tobytes`
(`fe.c:1365-1383`), and `WriteInv` says that while bytes are written the limbs
are the element plus 19 for each modulus in it, of which only the last carry
takes 2^255s away; as what is left is in digits that fill their places, it
takes exactly as many as the quotient says. Types hold at any width; what has
to be added for them is that `work` is one record whose limbs, number and bound
belong together (`WorkIsElement`). Large bounds are written out, as
the prover's front end computes products of numerals in machine integers.

**Multiplication by a scalar.** `DigitsKeepValue` is the value of the digits plus
the pending carry; a carry moves 16 of one place to one of the next
(`ValueMoves`). `RecodeInv` has the ranges: below the index -8..7, above 0..15,
and 0..7 at the top, so that the last carry stays in the range of the table. That
is where the precondition `a[31] <= 127` is needed. `PointInv` says which digits
the point has: the odd ones so far, over 16; all odd ones, while it is doubled
four times; those and the even ones so far.

**The group.** The formulas of `ge.c` are proved to compute `Plus`, the affine
law, in every case: equal points, opposite ones and the neutral element, for
coordinates with any Z. The field part is proved from `CurveAssumption`: the power
that `fe_invert` raises to gives the inverse (Fermat), D is not a square, P leaves
5 mod 8 and SqrtM1 squared is -1, the base point lies on the curve, and `Order`
times it is neutral. That denominators do not vanish, that sums stay on the curve
and that addition is associative is `GroupAssumption`; that 8 Order takes every
point to the neutral one is `GroupOrderAssumption`. These are
theorems of number theory about the real curve and about any other of its kind;
TLC evaluates them on the curve of the runs. The root that
`ge_frombytes_negate_vartime` takes is shown to exist exactly for the y of points.

**The double multiplication.** While `slide` works at a place, there are bits above
and finished digits, zero or odd, below. As long as it has looked at most three
places ahead the digit is positive and below the next power of two, and the places
it has passed are empty (`DigitGrows`): so a bit up to three places ahead is always
absorbed, one four places ahead always borrowed for, and one still further ends the
search. `TopHasRoom` says that a carry can have reached the highest place only when
no other bit is left to cause one; here the precondition on the top bit is needed.
`KeptValue` says that the digits keep the value of the bytes, whose bits they are
to begin with (`BitsKeepValue`); `SumInv` that the sum is what the digits so far
stand for.

**The addition chains.** An exponent is the set of its bits. `InvertReached` and
`Pow22523Reached` list, line by line, the exponent in the register that the line
has written; joining two runs of ones never carries (`Product`).

**Keys.** `ed25519_add_scalar` adds to a private scalar and to a public point,
possibly in two calls on two machines. `Balanced` is what each call preserves:
low scalar plus what the public key got, equals public key plus what the
private one got, modulo the group order. Agreement and valid signatures are the
case where both got the same. goal's secrets are excepted: they do not even
begin balanced, which is finding 5. `HashAssumption` says only that a hash is a
number of 64 bytes; `OrderAssumption` that the group order is positive and below
the bit that `ed25519_create_keypair` sets, itself a multiple of the cofactor 8.

**Side by side.** `MCEd25519` and `MCPaymentCodec` let one part run and the others
stand still. A step of the composition is a step of one part, or one in which
that part's variables stay; with one such lemma per part (`StepOfAPart`), the
composition implies the specification of each (`SpecParts`) and the theorems about
the parts carry over.

## 5. Only model-checked, and not modelled

Only model-checked:

* liveness, and everything with `ENABLED` (`RetryForever`, `EventuallyAccepted`,
  `AutoReconnect`, `LedShowsConnection`): out of the prover's reach;
* that the assumptions about the curve (`CurveAssumption`, `GroupAssumption`,
  `GroupOrderAssumption`) hold: TLC evaluates them for the constants of the runs.
  For the real curve they are published mathematics, not something the code
  computes;
* the round trip through the limbs at the small width of the run: `NumberKept`,
  `CanonicalBytes` and `Reduced` are proved at the real width, where the sizes that
  the argument needs are known, and checked at the width of the run.

Not modelled:

* the compression function of SHA-512, a published standard without control
  flow that depends on data, for which any known digest is a test; and
  `sha512_256`, the same buffer with another initial state, which nothing in
  `src/` calls;
* the tables of precomputed points: constants, and comparing them takes 255-bit
  arithmetic;
* TLS, HTTP, JSON syntax, the driver, `mbedtls_base64_decode`: libraries, taken
  by their contracts; numbers of JSON that are negative or no integers, which
  algod's API does not have; what others pay from the same account or into it;
* the host scripts, build and board configuration, pins and texts of the
  configuration headers.

## 6. Plan

Done, in this order: `AlgorandTask` with `PaymentPromise` and the refinement,
`AlgodClient`, `WifiManager`, `PaymentCodec`, the Ed25519 parts; then the LED's
pin, `KeyText`, `ScalarLimbs`, `FieldLimbs` and `DoubleMult`; the theorems of
section 4.

What would come next:

1. One specification for `Ed25519Keys` on top of `ScalarMult` and `ScalarLimbs`,
   so that what it takes for granted of them becomes a refinement.
2. The redirect that the client follows (`algod_client.cpp:23`), of which
   `AlgodClient` has the bodies but not the second request.
3. `LimbsFit` for the callers: that `ge.c` calls `fe.c` within its preconditions.
