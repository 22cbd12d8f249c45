# TLA+ model of the BitBox02 Bitcoin transaction-signing session

This directory models `src/src/rust/bitbox02-rust/src/hww/api/bitcoin/signtx.rs`.
That file is the firmware's streaming, two-pass BTC signing flow, driven by an
untrusted host. The natural-language description is `spec.md`.

## 1. Inventory

### Components

| Component | Code | State it keeps | Operations |
|---|---|---|---|
| Protocol framer | `NextResponse`, `get_request`, `get_tx_input`, `get_prevtx_init`, `get_prevtx_input`, `get_prevtx_output`, `get_tx_output`, `get_antiklepto_host_nonce` (l. 39-190) | `next` (type, index, prev_index, has_signature, signature, anti_klepto_signer_commitment), `wrap` | stage a hint, send it and await the request (the only suspension point), reset the transient fields, set the envelope, check the request variant |
| PrevTx verifier | `handle_prevtx` (l. 192-257) | the SHA256 hasher, `prevtx_init`, the loop index | stream init/inputs/outputs, reject empty prevtx, check the value at `prev_out_index`, check txid = `prev_out_hash` |
| Orchestrator | `_process` (l. 259-413) | loop indices, the progress and empty UI components, `next_response` | pass 1 (input + prevtx), outputs, pass 2 (sign), Done |
| Anti-klepto driver | `_process` l. 386-403 | the staged signer commitment | stage the commitment, HostNonce round trip, `sign_antiklepto` |
| Progress driver | l. 212-236, 319-323, 339, 405-408 | the value of the progress bar | compute fractions |
| Cleanup wrapper | `process` (l. 415-422) | none | `sign_reset`, cancel toast on `UserAbort` |
| PrevTx serialization | `handle_prevtx` hasher updates (l. 207-250), `serialize_varint` | none (pure) | the legacy byte layout of the txid preimage |
| Unit tests | `mod tests` (l. 424-1348) | the fixture, mock responders, UI mocks | nine tests, 44 cases, each run against the session |
| Native `app_btc`, keystore, UI | not in this snapshot | native signing accumulators, screens | `sign_init`, `sign_input_pass1/2`, `sign_output` (recipient, total and fee dialogs), `sign_antiklepto`, `sign_reset` |

### How they interact

The host and device alternate strictly. Every device step starts when a request
arrives and ends when the next `BtcSignNextResponse` hint is sent. The hint
carries data from the previous step: the signature of the previous input, or the
signer commitment. `wrap` chooses the envelope; it depends on the variant of the
request just answered. The native helpers hold the signing state between the two
passes. This file only sequences calls to them and reacts to their
`Result`.

### What is hard

- **Adversarial ordering.** The host may send any variant at any point. It may
  send different data in pass 2 than in pass 1, and it may disconnect.
- **Stale shared state.** `NextResponse` lives across all round trips, so the
  transient fields must go out exactly once.
- **Delayed delivery.** A signature leaves the device one round trip after it
  was produced. A failure after that leaves the host holding it.
- **Numeric edges.** `prev_out_index` can point past the prevtx outputs. The
  u32 prevtx counts are host-chosen.
- **No timeouts.** Progress depends on the host answering.

### Properties that make it correct

- Framer: the signature and commitment fields are delivered once, with the
  right response.
- Verifier: only inputs whose prevtx hashes to `prev_out_hash` are signed, and
  only with the checked value.
- Orchestrator: no signature before every output is accepted (user consent).
  Signatures are in input order. An honest session ends with Done and N
  signatures.
- Anti-klepto: an armed input is released only with the anti-klepto signature,
  after its commitment was sent.
- Progress: values lie in [0, 1].

## 2. Modules

| Module | Models |
|---|---|
| `SignTx.tla` | The whole session: framer, verifier, orchestrator, anti-klepto, progress, cleanup, and the host (adversarial, or the tests' honest `make_host_request`). |
| `SignTxAbstract.tla` | What a session promises: inputs verified in order against genuine prevtxs (`Verify`), outputs confirmed (`Confirm`, `Consent`), signatures released in input order (`Release`, `Complete`), `Fail` at any point. `SignTx` maps onto it: `phase` from `pc`/`result`, `accepted` = `verified`, `confirmed` = `outputsDone`, `released` = inputs of the delivered signatures. |
| `MCSignTx.tla` | TLC instantiation: two prevtxs the host can claim by txid (`TxA` with one output, `TxB` with two), a bogus txid, and the u32 boundary counts. |
| `PrevTxSerialization.tla` | The bytes `handle_prevtx` feeds the hasher (l. 207-250): `LE` (`to_le_bytes`), `Varint` (`serialize_varint`, CompactSize), `InputBytes`, `OutputBytes` and `TxBytes` in the code's field order. `HostSplits(b)` reads a byte string back in every way a host could have streamed it, with `prev_out_hash` of any length (l. 221 hashes it with no length prefix or check), keeping the splits the device accepts (at least one input and one output). |
| `MCPrevTxSerialization.tla` | TLC instantiation: every well-formed prevtx with one input and one or two outputs, one-byte hashes, scripts of length 0 or 1 over bytes {0, 1}. |
| `MCSignTxTests.tla` | The unit tests of `signtx.rs` as an environment of `SignTx`. The variable `test` picks one test per behaviour. The fixture is `Transaction::new` (`TestTx`, `TestOutputs`), altered as `test_invalid_input` alters it (`Altered`). It is served by `mock_host_responder` (`TestHost`), or by the fixed responder of `test_invalid_state` (`Responder`). The native verdicts the tests arrange (keystore locked, sign_init rejecting, a helper rejecting an altered record, a declined dialog) are injected at the step where the code meets them (`Rejection`, `Injected`). |

### State and actions (`SignTx`)

`pc` names the accessor the device awaits (`Input1`, `PrevtxInit`,
`PrevtxInput`, `PrevtxOutput`, `Output`, `Input2`, `HostNonce`), or `Start` or
`Returned`. `inIdx` and `idx` are the loop indices. `txInput`, `prevtxInit` and
`hasher` are the locals of `handle_prevtx`. `next` and `wrap` are
`NextResponse`. `screen` and `progress` are UI state. `signing` is the native
state that `sign_reset` clears. `req` is the request in flight.

Each entry of `log` holds the response as `NextResponse::to_protobuf` builds it
(`ToProtobuf`): either a bare `BtcSignNext`, or the `next` response wrapped in a
`Btc` response. The host takes the hint back out of either envelope, as
`make_host_request` does (`UnwrapNext`, `Hint`).

The history variables `log`, `verified`, `outputsDone` and `armed` record:
- what the host received;
- what `handle_prevtx` accepted;
- how many outputs `sign_output` accepted;
- which pass-2 inputs carried a commitment.

Only the properties read them.

There is one device action per handler outcome:
- `ProcessStart` and `ProcessStartRejected`;
- `SignInputPass1`;
- `PrevTxInit` and `PrevTxInitEmpty`;
- `PrevTxInput`;
- `PrevTxOutput`, `PrevTxOutputValueMismatch`, `PrevTxHashMismatch` and
  `PrevTxVerified`;
- `SignOutput` and `SignLastOutput`;
- `SignInputPass2`, `SignInputPass2Antiklepto` and `AntikleptoHostNonce`;
- the error paths `WrongVariant`, `TransportFails` and `NativeRejects`.

Each action includes the whole code path up to the next `get_request`, including
`Send`, which is `get_request`. `Finish` is `process`: it calls `sign_reset` and
drops the UI components. `StartFails(res)` and `NativeFails(res)` are the two
failure points outside this file (keystore or `sign_init`, and the native helpers
or the user). `ProcessStartRejected` and `NativeRejects` let them fail
nondeterministically; the test module triggers them where a test does.

`wrap'` is `SetsWrap[pc]`: the literal each typed accessor assigns after its
await (l. 101, 115, 136, 157, 171, 183). It is not derived from the request
that arrived. That is what makes the envelope property a check, not a
restatement.

The host:
- `HostRequest` and `HostDisconnects` are the adversarial or honest host.
- `MakeHostRequest(tx, h)` is the tests' `make_host_request`. It ignores the
  envelope and answers nothing to `HostNonce`.
- `AppHostRequest` is the honest host of the honest run: `make_host_request`,
  plus the host side of anti-klepto.

Abstractions:
- Protobuf bytes, scripts and keypaths are left out.
- The native helpers return a nondeterministic accept or reject. `sign_output`
  may also return `UserAbort`. Their decisions depend on data that is
  abstracted away.
- SHA256d is an injective function of the streamed prevtx fields, i.e. it is
  assumed collision-free and the field split is taken as unique, which l. 221
  does not guarantee (finding 4); the MC prevtxs have a single input shape, so
  the re-split cannot occur in `SignTx`'s runs. Version and locktime are fixed because they only
  change the digest.
- Progress is an exact fraction `[num, den]`. `den = 0` stands for the f32
  NaN or infinity.
- u32 arithmetic is `% 2^WordBits`. TLC integers are 32-bit signed, so the
  runs use `WordBits = 16`. The wrap at `2^WordBits` has the same shape as at
  `2^32`.
- The release build is modelled: the sum wraps. A build with overflow checks
  panics at the same point instead.

## 3. Runs

| Run | cfg | Expect | Checks |
|---|---|---|---|
| adversarial | `SignTx_adversarial.cfg` | pass | `TypeOK`, `SignatureRequiresVerifiedPrevTx`, `ConsentBeforeSignature`, `SignaturesInOrderOnce`, `AntikleptoHonoured`, `CommitmentOnlyWithHostNonce`; action property `EnvelopeMatchesRequest` |
| refinement | `SignTx_refinement.cfg` | pass | `ImplementsAbstract` (`Abs!Spec`, same bounds as adversarial) |
| honest | `SignTx_honest.cfg` | pass | `HonestSessionSignsAll` (liveness) |
| tests | `SignTx_tests.cfg` | pass | `TestsPass` (liveness: every unit-test scenario ends with the result its test asserts) |
| serialization | `PrevTxSerialization.cfg` | violation | `PreimageDeterminesOutputs` (every stream the device accepts with the txid of a real prevtx has that prevtx's outputs) |
| prevout_index | `SignTx_prevout_index.cfg` | violation | `PrevOutputExists` (spec.md 8.3) |
| partial_failure | `SignTx_partial_failure.cfg` | violation | `NoSignatureFromFailedSession` (spec.md 7, 8.6) |
| progress_overflow | `SignTx_progress_overflow.cfg` | violation | `ProgressInRange` (spec.md 4.5) |

**Bounds of the adversarial run.** 2 inputs and 2 outputs. Prevtx counts
{0, 1, 2}, values {1, 2} and `prev_out_index` {0, 1}. Three claimable txids.
The host may send any of the six request variants with any payload, or
disconnect, at every step.

The bounds are chosen to reach the interesting cases:
- Two inputs let a signature be staged and then delivered with the next
  input's request. A plain input can be followed by an anti-klepto input, which
  is where a missing reset shows.
- Two outputs separate the first output (screen switch) from the last one
  (total and fee).
- Counts of 0 reach the empty-prevtx rejection. Counts of 2 exercise the
  streaming loops.
- Index 1 against a one-output prevtx reaches the out-of-range case.

The run covers about 193k distinct states. Every action fires.

**Declared counts.** The hasher of `handle_prevtx` takes the `num_inputs` and
`num_outputs` that `PrevTxInit` declared (l. 210, 228), not the numbers of items
streamed. `hasher` holds them as `numIns` and `numOuts`, and `Sha256d` is
taken over them. `Txid(tx)` is the txid of a well-formed prevtx, the
`prev_out_hash` literals of the fixture. As a result, a prevtx loop that streams
one item too many never matches a real txid. Against the adversarial host the
safety properties still hold. The honest host indexes past its prevtx, as
`make_host_request` would panic.

**Serialization run.** `SignTx` treats the txid as a function of the
streamed fields that determines them (`Sha256d`). That needs the preimage to be
an unambiguous encoding, given a collision-resistant SHA256. `handle_prevtx`
hashes `prev_out_hash` (l. 221) as it comes, with no length prefix and no check
that it has 32 bytes (spec.md: `prev_hash[32]`). `PreimageDeterminesOutputs`
asks whether every accepted stream with the same hashed bytes as a real prevtx
has the real outputs. TLC refutes it in an initial state. Real prevtx: one
input with hash `<<0>>`, outputs `o1 = [0, <<1>>]` and `o2 = [0, <<>>]`. Host
stream: one input whose 11-byte `prev_out_hash` absorbs the real input, the
output count and `o1` but its last byte, index 0, an empty script, then a
sequence and an output count of 1, then `o2`. Same bytes, same txid, but the
host's output 0 is the real output 1, so the value check at l. 240 compares
against the wrong output (finding 4). The 1-byte hash and 2-byte alphabet only
shrink the real 32-byte field; any hash length admits the same re-split.
`LEValue` reads fields of more than 4 bytes as -1 when a high byte is nonzero,
since TLC integers are 32-bit; such a split never has the real values anyway.

**Honest run.** 3 inputs, so that the `num_inputs > 2` signing progress bar is
created. The host chooses freely whether to send a host nonce commitment for
each pass-2 input.

**Envelope.** `EnvelopeMatchesRequest` is the contract of `get_request`
(l. 65-68). The response to a `BtcRequest` (prevtx parts, anti-klepto nonce)
is a wrapped `BTCResponse`. The response to `BtcSignInit`, `BtcSignInput` and
`BtcSignOutput` is bare. This covers the final Done response, whose envelope
the last pass-2 input decides. The tests' `make_host_request` accepts either
envelope, so no unit test can see an envelope bug.

**Tests run.** 44 scenarios, every test of `mod tests` with every case:
- `test_process`, `test_script_type_p2wpkh_p2sh`, `test_mixed_inputs` and
  `test_p2tr_output`;
- `test_invalid_state`;
- the keystore-locked block and the nine invalid-init blocks of
  `test_sign_init_fail` (`InitInvalidCases`);
- the 14 cases of `test_invalid_input`. Four are checked by this file:
  `WrongInputValue`, `WrongPrevoutHash`, `PrevTxNoInputs` and
  `PrevTxNoOutputs`. The ten others are rejected by a native helper.
  `RejectedAt` says where: at input 0 in pass 1 for the input cases, or at
  output 0 or 4 for the output cases;
- the six confirmations of `test_user_aborts`;
- the nine rows of `test_locktime` (`LocktimeConfirm`). The declined locktime
  dialog aborts at the last output.

`Rejection` gives, per test, the step where the native verdict a test
arranges is injected. Everything else runs through `SignTx` unchanged. The
run covers 932 distinct states. It validates the model against the test
suite: the asserted results, the bare Done response with a signature, and
the responder called exactly twice in `test_invalid_state`. The init
blocks include `num_inputs = 0` and `num_outputs = 0`, which `sign_init`
rejects. This justifies the `ASSUME` that both counts are positive.
Signature bytes, dialog texts and `LOCKTIME_CONFIRMED` belong to the native
side and are not modelled.

### Fairness

`Spec` has weak fairness on the device steps only. The code is one task that
runs whenever it holds a request. `FairSpec` adds weak fairness on
`HostRequest`. The code cannot guarantee that: no timeout exists. So liveness is
claimed only for the honest, responsive host. In the tests run, `block_on`
drives the session and the mock answers at once, so `TestSpec` has weak
fairness on both the device and the mock responder.

### Mutants

Each property of a passing run is shown to be violated by a plausible fault of
the helper it depends on:

| Property | Mutant | Fault |
|---|---|---|
| `TypeOK` | `MoreInputsOffByOne` | pass-1 loop runs to `num_inputs` inclusive |
| `SignatureRequiresVerifiedPrevTx` | `HashIgnored` | txid not compared |
| `ConsentBeforeSignature` | `MoreOutputsStopsEarly` | outputs loop stops one output early |
| `SignaturesInOrderOnce` | `ResetNextKeepSig` | `get_request` reset forgets the signature |
| `AntikleptoHonoured` | `AntikleptoIgnored` | commitment not looked at |
| `CommitmentOnlyWithHostNonce` | `ResetNextKeepCommitment` | reset forgets the commitment |
| `ImplementsAbstract` | `ValueCheckOffByOne` | value compared at the wrong prevtx output |
| `HonestSessionSignsAll` | `MoreInputsStopsEarly` | input loops stop one input early |
| `EnvelopeMatchesRequest` | `SendStaleWrap` (of `Send`) | envelope chosen before the await, so a response goes out in the previous request's envelope |
| `TestsPass` | `ValueCheckOffByOne` | value compared at the wrong prevtx output (`WrongInputValue` then returns Ok) |

### Findings

1. **`prev_out_index` out of range (l. 240).** The value check fires only when
   some prevtx output index equals `prev_out_index`. An input that names output
   1 of a one-output prevtx is accepted with an arbitrary `prev_out_value`.
   spec.md 8.3 requires `InvalidInput`. The trace: one input, prevtx `TxA`,
   index 1.
2. **Signatures survive a failed session (l. 401).** The signature of input i
   is delivered with the request for input i+1. A wrong variant, a native
   rejection or a disconnect on input i+1 then ends the session with an error
   after the host already has signature i. spec.md 7 ("no signatures produced
   up to that point are delivered") and 8.6 say otherwise.
3. **u32 overflow in progress (l. 216).** `num_inputs + num_outputs` of a
   host-declared prevtx is computed in u32. With the sum equal to 2^32 it wraps
   to 0, and the first `progress_set` gets 0/0 (or the build panics). This
   happens right after `PrevTxInit`, before any further data is requested.
4. **`prev_out_hash` of any length (l. 221).** The prevtx input hash is hashed
   without a length prefix or a 32-byte check. A host can stream other fields
   with the bytes, and so the txid, of a real prevtx, and have the value of a
   different output checked at `prev_out_index` (serialization run). In
   `SignTx` the txid is abstracted as determining the fields, so "genuine"
   there (`GenuineInput`) means hash equality, which this finding shows is
   weaker than field equality.

## 4. Not modelled

- The native helpers: the sighash, the keypath and script-config validation,
  and the dialogs inside `sign_output`. Only their accept or reject outcome is
  modelled. Their code is not in this snapshot. The pass-2 inputs may differ
  from pass 1. Whether that is harmless is decided by the native sighash.
- The keystore, and f32 rounding.
- The protobuf wire format and the text of the UI dialogs. Signature bytes
  asserted by the tests are native output.
- Multiple sessions. Everything this file keeps is local to `_process`:
  `next_response`, the loop indices and the UI components, which are dropped on
  return. The only state that outlives a session is native, and `sign_reset`
  clears it. A second session therefore starts from `Init`, and a model of
  repeated sessions would only repeat this one.
- Liveness against an adversarial host. The code has no timeouts, so a host
  that stops answering stops the session. Liveness is claimed for the honest,
  responsive host only (`HonestSessionSignsAll`, `TestsPass`). The abstract
  spec has no fairness of its own. Its `Verify` picks any genuine data, which
  TLC cannot enumerate for `ENABLED`.

## 5. Plan

1. First sitting: `SignTx` with the full session, the adversarial and honest
   runs, and three violation runs; `SignTxAbstract` and the refinement run.
2. Second sitting: the envelope contract as the action property
   `EnvelopeMatchesRequest`, with `wrap` following each accessor's literal.
   First unit tests in `MCSignTxTests`.
3. Third sitting: the prevtx serialization as pure operators in
   `PrevTxSerialization`. Also `ToProtobuf`, the response the host receives.
4. Fourth sitting: every test of `mod tests`, with all 44 cases. The hasher
   now holds the declared prevtx counts (`Txid`).
5. Fifth sitting: the serialization run re-reads the preimage as a host could
   split it, and finds that the txid does not fix the outputs (finding 4).
6. Left open: an anti-klepto clause in `SignTxAbstract`. Today
   `AntikleptoHonoured` states it on `SignTx` only.
