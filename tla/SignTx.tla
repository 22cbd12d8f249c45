------------------------------- MODULE SignTx -------------------------------
(***************************************************************************)
(* The BitBox02 Bitcoin signing session of                                 *)
(* src/rust/bitbox02-rust/src/hww/api/bitcoin/signtx.rs (process and       *)
(* _process), driven by an untrusted host over a strict request/response   *)
(* channel.                                                                *)
(*                                                                         *)
(* Granularity: the code is a single async task whose only suspension      *)
(* point is crate::hww::next_request inside get_request.  A device action  *)
(* therefore runs from the receipt of one host request up to the sending   *)
(* of the next SignNext hint (or the return of process); a host action     *)
(* puts one request on the channel.                                        *)
(*                                                                         *)
(* Data abstraction: protobuf bytes, scripts and keypaths are left out.    *)
(* The native helpers (sign_init, sign_input_pass1/2, sign_output,         *)
(* sign_antiklepto) are opaque: their accept/reject outcome depends on     *)
(* data abstracted away, so it is a nondeterministic choice unless the     *)
(* environment is Honest.  SHA256d over the legacy serialization is an     *)
(* injective function of the streamed fields (see Sha256d for the caveat).*)
(***************************************************************************)
EXTENDS Integers, Sequences, FiniteSets, TLC

CONSTANTS
  NumInputs,       \* BtcSignInitRequest.num_inputs
  NumOutputs,      \* BtcSignInitRequest.num_outputs
  Values,          \* satoshi amounts the host may send (u64 values)
  PrevOutIndexes,  \* prev_out_index values the host may send
  PrevTxCounts,    \* num_inputs / num_outputs a host may declare for a prevtx
  PrevTxInputs,    \* contents of a streamed prevtx input (model values)
  Txids,           \* prev_out_hash values the host may claim for an input
  WordBits,        \* width of the u32 arithmetic in the progress computation
  Honest,          \* TRUE: the host answers every hint faithfully from
                   \* HonestTx, the native checks accept and the user confirms
  HonestTx,        \* input index -> [input, prevtx] the honest host sends
  NoReq,           \* model value: no request in flight
  TransportError,  \* model value: next_request failed
  NoSig,           \* model value: the empty signature field
  NoCommitment,    \* model value: anti_klepto_signer_commitment None
  NoInput          \* model value: no tx_input received yet

ASSUME NumInputs \in Nat \ {0} /\ NumOutputs \in Nat \ {0}
ASSUME WordBits \in 1..30   \* TLC integers are 32-bit signed

VARIABLES
  pc,          \* which accessor the device awaits, or "Start" / "Returned"
  inIdx,       \* input_index of the current pass-1 / pass-2 loop
  idx,         \* prevtx_input_index, prevtx_output_index or output_index
  txInput,     \* tx_input of pass 1, used by handle_prevtx
  prevtxInit,  \* prevtx_init of handle_prevtx
  hasher,      \* the fields fed to the Sha256 hasher so far
  next,        \* NextResponse.next
  wrap,        \* NextResponse.wrap
  screen,      \* the UI screen stack pushed by this session
  progress,    \* last value given to progress_set, as [num, den]
  signing,     \* native app_btc signing state: "idle" or "active"
  req,         \* host request in flight to the device, or NoReq
  result,      \* what process returned: "None", "Ok" or an Error kind
  \* History variables, read only by properties.
  log,         \* every response the host received, in order
  verified,    \* input index -> [input, tx] accepted by handle_prevtx
  outputsDone, \* number of outputs sign_output accepted
  armed        \* inputs whose pass-2 request carried a host nonce commitment

device  == <<pc, inIdx, idx, txInput, prevtxInit, hasher, next, wrap,
             screen, progress, signing>>
history == <<log, verified, outputsDone, armed>>
vars    == <<device, req, result, history>>

-----------------------------------------------------------------------------
(* Messages.                                                               *)

None == -1

\* Request kinds; the last four arrive wrapped in a BtcRequest.
WrappedKinds == {"PrevtxInit", "PrevtxInput", "PrevtxOutput", "AntikleptoSignature"}
ReqKinds == {"SignInput", "SignOutput"} \cup WrappedKinds

InputRecords == [prevOutHash : Txids, prevOutIndex : PrevOutIndexes,
                 prevOutValue : Values, hostNonce : BOOLEAN]

AnyRequest ==
       {[kind |-> "SignInput", body |-> b] : b \in InputRecords}
  \cup {[kind |-> "PrevtxInit", body |-> b] :
          b \in [numInputs : PrevTxCounts, numOutputs : PrevTxCounts]}
  \cup {[kind |-> "PrevtxInput", body |-> b] : b \in PrevTxInputs}
  \cup {[kind |-> "PrevtxOutput", body |-> v] : v \in Values}
  \cup {[kind |-> "SignOutput", body |-> "output"],
        [kind |-> "AntikleptoSignature", body |-> "host_nonce"]}

\* Txid of the legacy serialization of the fields h fed to the hasher:
\* version, varint(num_inputs), inputs, varint(num_outputs), outputs,
\* locktime, double SHA256.  The counts are the ones PrevTxInit declared.
\* Version and locktime only change the digest, so they are fixed here.
\* This treats the split of the preimage into fields as unique, which l. 221
\* does not guarantee (prev_out_hash has no length); MCSignTx streams one
\* prevtx input shape so the ambiguity cannot arise there; the serialization
\* run shows it on the byte level.  GenuineInput is hash equality only.
Sha256d(h) == <<"sha256d", h.numIns, h.ins, h.numOuts, h.outs>>

\* The txid of a well-formed prevtx [ins, outs], as the host computes it.
Txid(tx) == Sha256d([numIns |-> Len(tx.ins), ins |-> tx.ins,
                     numOuts |-> Len(tx.outs), outs |-> tx.outs])

\* Default BtcSignNextResponse (r#type 0 is NextType::Input).
DefaultNext == [type |-> "Input", index |-> 0, prevIndex |-> 0,
                hasSig |-> FALSE, sig |-> NoSig, commitment |-> NoCommitment]

\* NextResponse::to_protobuf: the response the host receives, next as a
\* bare Response::BtcSignNext, or wrapped in a BTCResponse when w is set.
ToProtobuf(n, w) ==
  IF w THEN [variant |-> "Btc", btc |-> [variant |-> "SignNext", signNext |-> n]]
       ELSE [variant |-> "BtcSignNext", signNext |-> n]

-----------------------------------------------------------------------------
(* Helpers translated from the code.                                       *)

(* Plausible faults of the helpers below, for mutation analysis of the    *)
(* properties: each replaces one helper's body in a mutated model.        *)
ResetNextKeepSig(n) ==         \* reset forgets has_signature / signature
  [DefaultNext EXCEPT !.hasSig = n.hasSig, !.sig = n.sig]
ResetNextKeepCommitment(n) ==  \* reset forgets the signer commitment
  [DefaultNext EXCEPT !.commitment = n.commitment]
MoreInputsOffByOne(i) == i + 1 <= NumInputs    \* 0..=num_inputs
MoreInputsStopsEarly(i) == i + 2 < NumInputs   \* 0..num_inputs - 1
MoreOutputsStopsEarly(j) == j + 2 < NumOutputs \* 0..num_outputs - 1
HashIgnored(tx, inp) == TRUE                   \* txid not compared
AntikleptoIgnored(inp) == FALSE                \* commitment not looked at
ValueCheckOffByOne(k, inp, v) ==               \* compares the next output
  k = inp.prevOutIndex + 1 /\ inp.prevOutValue # v
SendStaleWrap(n, type, i, pi, reply) ==        \* envelope set before awaiting
  LET sent == [n EXCEPT !.type = type, !.index = i,
                        !.prevIndex = IF pi = None THEN n.prevIndex ELSE pi]
  IN  /\ next' = sent
      /\ log' = Append(log, [response |-> ToProtobuf(sent, wrap), reply |-> reply])
      /\ req' = NoReq

\* get_request: the response is reset to defaults after the exchange so
\* that the signature and the signer commitment are sent at most once.
ResetNext(n) == DefaultNext

\* response.wrap as each typed accessor sets it after its get_request
\* returned, i.e. for the response to the request that accessor received.
SetsWrap == [Input1 |-> FALSE, PrevtxInit |-> TRUE, PrevtxInput |-> TRUE,
             PrevtxOutput |-> TRUE, Output |-> FALSE, Input2 |-> FALSE,
             HostNonce |-> TRUE]

\* The request each awaiting state demands.
Expected == [Input1 |-> "SignInput", PrevtxInit |-> "PrevtxInit",
             PrevtxInput |-> "PrevtxInput", PrevtxOutput |-> "PrevtxOutput",
             Output |-> "SignOutput", Input2 |-> "SignInput",
             HostNonce |-> "AntikleptoSignature"]
Awaiting == DOMAIN Expected

\* for input_index in 0..num_inputs / output_index in 0..num_outputs
MoreInputs(i) == i + 1 < NumInputs
MoreOutputs(j) == j + 1 < NumOutputs

\* handle_prevtx: the value check at the referenced prevtx output.
ValueMismatch(k, inp, v) == k = inp.prevOutIndex /\ inp.prevOutValue # v

\* handle_prevtx: the recomputed txid against input.prev_out_hash.
HashMatches(tx, inp) == Sha256d(tx) = inp.prevOutHash

\* u32 addition as the firmware's release build computes it.
U32Add(a, b) == (a + b) % (2 ^ WordBits)

\* The progress_set values of _process and handle_prevtx, as fractions.
LoadProgress(i) == [num |-> i, den |-> NumInputs]
PrevInProgress(i, k, init) ==
  LET s == U32Add(init.numInputs, init.numOutputs)
  IN  [num |-> i * s + k, den |-> NumInputs * s]
PrevOutProgress(i, k, init) ==
  LET s == U32Add(init.numInputs, init.numOutputs)
  IN  [num |-> i * s + U32Add(init.numInputs, k), den |-> NumInputs * s]
SignProgress(i) == [num |-> i + 1, den |-> NumInputs]

\* get_request: stage type, index and prev_index on the response n and
\* send it to the host, in the envelope wrap' (the single suspension
\* point).  pi = None (-1) stands for prev_index None.  reply is the kind of
\* request the response answers (history only).
Send(n, type, i, pi, reply) ==
  LET sent == [n EXCEPT !.type = type, !.index = i,
                        !.prevIndex = IF pi = None THEN n.prevIndex ELSE pi]
  IN  /\ next' = sent
      /\ log' = Append(log, [response |-> ToProtobuf(sent, wrap'), reply |-> reply])
      /\ req' = NoReq

\* process: _process has returned res; sign_reset() purges the native
\* signing state, the UI components are dropped, and on UserAbort the
\* "Transaction canceled" status is shown (transient, not modelled).
Finish(res) ==
  /\ pc' = "Returned"
  /\ result' = res
  /\ signing' = "idle"
  /\ screen' = <<>>
  /\ req' = NoReq

\* The device holds a request of the kind its accessor demands.
Got(kind) == req \notin {NoReq, TransportError} /\ req.kind = kind

-----------------------------------------------------------------------------
(* Device actions.                                                         *)

\* _process entry: the keystore is locked (InvalidState), or sign_init
\* rejects the init request (InvalidInput); process returns res.
StartFails(res) ==
  /\ pc = "Start"
  /\ Finish(res)
  /\ UNCHANGED <<inIdx, idx, txInput, prevtxInit, hasher, next, wrap,
                 progress, history>>

ProcessStartRejected ==
  /\ ~Honest
  /\ \E res \in {"InvalidState", "InvalidInput"} : StartFails(res)

\* _process entry: sign_init accepted; push the loading progress bar and
\* ask for input 0 (pass 1).
ProcessStart ==
  /\ pc = "Start"
  /\ signing' = "active"
  /\ screen' = <<"Loading transaction...">>
  /\ progress' = LoadProgress(0)
  /\ pc' = "Input1"
  /\ inIdx' = 0
  /\ wrap' = wrap
  /\ Send(next, "Input", 0, None, "BtcSignInit")
  /\ UNCHANGED <<idx, txInput, prevtxInit, hasher, result,
                 verified, outputsDone, armed>>

\* A request of another variant than the awaited one: InvalidState.
WrongVariant ==
  /\ pc \in Awaiting
  /\ req \notin {NoReq, TransportError}
  /\ req.kind # Expected[pc]
  /\ next' = ResetNext(next)
  /\ wrap' = SetsWrap[pc]
  /\ Finish("InvalidState")
  /\ UNCHANGED <<inIdx, idx, txInput, prevtxInit, hasher, progress, history>>

\* next_request fails: the error is propagated before the reset.
TransportFails ==
  /\ pc \in Awaiting
  /\ req = TransportError
  /\ Finish("Transport")
  /\ UNCHANGED <<inIdx, idx, txInput, prevtxInit, hasher, next, wrap,
                 progress, history>>

\* One of the native helpers rejects the data it is given, or the user
\* cancels a confirmation inside sign_output.
NativeFails(res) ==
  /\ pc \in {"Input1", "Output", "Input2", "HostNonce"}
  /\ Got(Expected[pc])
  /\ next' = ResetNext(next)
  /\ wrap' = SetsWrap[pc]
  /\ Finish(res)
  /\ UNCHANGED <<inIdx, idx, txInput, prevtxInit, hasher, progress, history>>

NativeRejects ==
  /\ ~Honest
  /\ \E res \in IF pc = "Output" THEN {"InvalidInput", "UserAbort"}
                                  ELSE {"InvalidInput"} : NativeFails(res)

\* get_tx_input in pass 1 and sign_input_pass1 accepting it; handle_prevtx
\* starts by asking for the prevtx init.
SignInputPass1 ==
  /\ pc = "Input1" /\ Got("SignInput")
  /\ wrap' = SetsWrap[pc]
  /\ txInput' = req.body
  /\ pc' = "PrevtxInit"
  /\ Send(ResetNext(next), "PrevtxInit", inIdx, None, req.kind)
  /\ UNCHANGED <<inIdx, idx, prevtxInit, hasher, screen, progress, signing,
                 result, verified, outputsDone, armed>>

\* handle_prevtx: a prevtx without inputs or outputs is rejected.
PrevTxInitEmpty ==
  /\ pc = "PrevtxInit" /\ Got("PrevtxInit")
  /\ req.body.numInputs < 1 \/ req.body.numOutputs < 1
  /\ next' = ResetNext(next)
  /\ wrap' = SetsWrap[pc]
  /\ Finish("InvalidInput")
  /\ UNCHANGED <<inIdx, idx, txInput, prevtxInit, hasher, progress, history>>

\* handle_prevtx: hash version and varint(num_inputs), ask for prevtx
\* input 0 after setting the progress.
PrevTxInit ==
  /\ pc = "PrevtxInit" /\ Got("PrevtxInit")
  /\ req.body.numInputs >= 1 /\ req.body.numOutputs >= 1
  /\ wrap' = SetsWrap[pc]
  /\ prevtxInit' = req.body
  /\ hasher' = [numIns |-> req.body.numInputs, ins |-> <<>>, numOuts |-> 0,
                 outs |-> <<>>]
  /\ idx' = 0
  /\ progress' = PrevInProgress(inIdx, 0, req.body)
  /\ pc' = "PrevtxInput"
  /\ Send(ResetNext(next), "PrevtxInput", inIdx, 0, req.kind)
  /\ UNCHANGED <<inIdx, txInput, screen, signing, result,
                 verified, outputsDone, armed>>

\* handle_prevtx: hash prevtx input idx; ask for the next prevtx input,
\* or, after the last one, hash varint(num_outputs) and ask for output 0.
PrevTxInput ==
  /\ pc = "PrevtxInput" /\ Got("PrevtxInput")
  /\ LET more == idx + 1 < prevtxInit.numInputs
         k    == IF more THEN idx + 1 ELSE 0
     IN  /\ wrap' = SetsWrap[pc]
         /\ hasher' = [hasher EXCEPT !.ins = Append(@, req.body),
                        !.numOuts = IF more THEN @ ELSE prevtxInit.numOutputs]
         /\ idx' = k
         /\ progress' = IF more THEN PrevInProgress(inIdx, k, prevtxInit)
                                ELSE PrevOutProgress(inIdx, k, prevtxInit)
         /\ pc' = IF more THEN "PrevtxInput" ELSE "PrevtxOutput"
         /\ Send(ResetNext(next), pc', inIdx, k, req.kind)
  /\ UNCHANGED <<inIdx, txInput, prevtxInit, screen, signing, result,
                 verified, outputsDone, armed>>

\* handle_prevtx: the output at input.prev_out_index carries another value
\* than input.prev_out_value.
PrevTxOutputValueMismatch ==
  /\ pc = "PrevtxOutput" /\ Got("PrevtxOutput")
  /\ ValueMismatch(idx, txInput, req.body)
  /\ next' = ResetNext(next)
  /\ wrap' = SetsWrap[pc]
  /\ Finish("InvalidInput")
  /\ UNCHANGED <<inIdx, idx, txInput, prevtxInit, hasher, progress, history>>

\* handle_prevtx: hash prevtx output idx and ask for the next one.
PrevTxOutput ==
  /\ pc = "PrevtxOutput" /\ Got("PrevtxOutput")
  /\ ~ValueMismatch(idx, txInput, req.body)
  /\ idx + 1 < prevtxInit.numOutputs
  /\ wrap' = SetsWrap[pc]
  /\ hasher' = [hasher EXCEPT !.outs = Append(@, req.body)]
  /\ idx' = idx + 1
  /\ progress' = PrevOutProgress(inIdx, idx + 1, prevtxInit)
  /\ Send(ResetNext(next), "PrevtxOutput", inIdx, idx + 1, req.kind)
  /\ UNCHANGED <<pc, inIdx, txInput, prevtxInit, screen, signing, result,
                 verified, outputsDone, armed>>

\* The last prevtx output has been hashed (locktime too): the txid the
\* hasher yields for the streamed prevtx.
StreamedTx == [hasher EXCEPT !.outs = Append(@, req.body)]

\* handle_prevtx: the recomputed txid differs from input.prev_out_hash.
PrevTxHashMismatch ==
  /\ pc = "PrevtxOutput" /\ Got("PrevtxOutput")
  /\ ~ValueMismatch(idx, txInput, req.body)
  /\ ~(idx + 1 < prevtxInit.numOutputs)
  /\ ~HashMatches(StreamedTx, txInput)
  /\ next' = ResetNext(next)
  /\ wrap' = SetsWrap[pc]
  /\ Finish("InvalidInput")
  /\ UNCHANGED <<inIdx, idx, txInput, prevtxInit, hasher, progress, history>>

\* handle_prevtx returns Ok; _process asks for the next input of pass 1,
\* or, after the last input, sets the progress to 1 and asks for output 0.
PrevTxVerified ==
  /\ pc = "PrevtxOutput" /\ Got("PrevtxOutput")
  /\ ~ValueMismatch(idx, txInput, req.body)
  /\ ~(idx + 1 < prevtxInit.numOutputs)
  /\ HashMatches(StreamedTx, txInput)
  /\ LET more == MoreInputs(inIdx)
     IN  /\ wrap' = SetsWrap[pc]
         /\ hasher' = StreamedTx
         /\ verified' = verified @@ (inIdx :> [input |-> txInput, tx |-> StreamedTx])
         /\ inIdx' = IF more THEN inIdx + 1 ELSE inIdx
         /\ idx' = 0
         /\ progress' = IF more THEN LoadProgress(inIdx + 1) ELSE [num |-> 1, den |-> 1]
         /\ pc' = IF more THEN "Input1" ELSE "Output"
         /\ Send(ResetNext(next), IF more THEN "Input" ELSE "Output",
                 IF more THEN inIdx + 1 ELSE 0, None, req.kind)
  /\ UNCHANGED <<txInput, prevtxInit, screen, signing, result,
                 outputsDone, armed>>

\* get_tx_output and sign_output accepting output idx (the native side
\* shows the recipient); the first output replaces the loading progress
\* bar by the empty placeholder screen.  Ask for the next output.
SignOutput ==
  /\ pc = "Output" /\ Got("SignOutput")
  /\ MoreOutputs(idx)
  /\ wrap' = SetsWrap[pc]
  /\ screen' = IF idx = 0 THEN <<"Empty">> ELSE screen
  /\ outputsDone' = outputsDone + 1
  /\ idx' = idx + 1
  /\ Send(ResetNext(next), "Output", idx + 1, None, req.kind)
  /\ UNCHANGED <<pc, inIdx, txInput, prevtxInit, hasher, progress, signing,
                 result, verified, armed>>

\* sign_output accepting the last output (total, fee, locktime and RBF
\* confirmed); "Transaction confirmed" is shown, the placeholder dropped,
\* a signing progress bar pushed if num_inputs > 2, and pass 2 asks for
\* input 0.
SignLastOutput ==
  /\ pc = "Output" /\ Got("SignOutput")
  /\ ~MoreOutputs(idx)
  /\ wrap' = SetsWrap[pc]
  /\ screen' = IF NumInputs > 2 THEN <<"Signing transaction...">> ELSE <<>>
  /\ outputsDone' = outputsDone + 1
  /\ pc' = "Input2"
  /\ inIdx' = 0
  /\ Send(ResetNext(next), "Input", 0, None, req.kind)
  /\ UNCHANGED <<idx, txInput, prevtxInit, hasher, progress, signing,
                 result, verified, armed>>

\* Pass 2 after input inIdx produced the staged response n: update the
\* signing progress, then ask for the next input, or return Done (the
\* final response carries the last signature) and sign_reset.
AdvancePass2(n) ==
  /\ progress' = IF NumInputs > 2 THEN SignProgress(inIdx) ELSE progress
  /\ IF MoreInputs(inIdx)
     THEN /\ pc' = "Input2"
          /\ inIdx' = inIdx + 1
          /\ Send(n, "Input", inIdx + 1, None, req.kind)
          /\ UNCHANGED <<screen, signing, result>>
     ELSE /\ next' = [n EXCEPT !.type = "Done"]
          /\ log' = Append(log, [response |-> ToProtobuf(next', wrap'), reply |-> req.kind])
          /\ Finish("Ok")
          /\ UNCHANGED inIdx

\* The staged signature of input i, of the given kind.
Signature(i, kind) == [input |-> i, kind |-> kind]

\* Anti-klepto is engaged when the input carries a host nonce commitment.
AntikleptoRequested(inp) == inp.hostNonce

\* get_tx_input in pass 2 and sign_input_pass2 signing it, without
\* anti-klepto: the signature is staged for the next response.
SignInputPass2 ==
  /\ pc = "Input2" /\ Got("SignInput")
  /\ ~AntikleptoRequested(req.body)
  /\ wrap' = SetsWrap[pc]
  /\ armed' = IF req.body.hostNonce THEN armed \cup {inIdx} ELSE armed
  /\ AdvancePass2([ResetNext(next) EXCEPT !.hasSig = TRUE,
                                          !.sig = Signature(inIdx, "plain")])
  /\ UNCHANGED <<idx, txInput, prevtxInit, hasher, verified, outputsDone>>

\* sign_input_pass2 with a host nonce commitment: the signer commitment is
\* staged and sent with the HostNonce request.
SignInputPass2Antiklepto ==
  /\ pc = "Input2" /\ Got("SignInput")
  /\ AntikleptoRequested(req.body)
  /\ wrap' = SetsWrap[pc]
  /\ armed' = IF req.body.hostNonce THEN armed \cup {inIdx} ELSE armed
  /\ pc' = "HostNonce"
  /\ Send([ResetNext(next) EXCEPT !.commitment = [input |-> inIdx]],
           "HostNonce", inIdx, None, req.kind)
  /\ UNCHANGED <<inIdx, idx, txInput, prevtxInit, hasher, screen, progress,
                 signing, result, verified, outputsDone>>

\* get_antiklepto_host_nonce and sign_antiklepto: the anti-klepto
\* signature is staged for the next response.
AntikleptoHostNonce ==
  /\ pc = "HostNonce" /\ Got("AntikleptoSignature")
  /\ wrap' = SetsWrap[pc]
  /\ AdvancePass2([ResetNext(next) EXCEPT !.hasSig = TRUE,
                                          !.sig = Signature(inIdx, "antiklepto")])
  /\ UNCHANGED <<idx, txInput, prevtxInit, hasher, verified, outputsDone, armed>>

-----------------------------------------------------------------------------
(* The host.                                                               *)

\* make_host_request takes the BtcSignNextResponse out of either envelope
\* (any other response panics: no CASE arm).
UnwrapNext(resp) ==
  CASE resp.variant = "BtcSignNext" -> resp.signNext
    [] resp.variant = "Btc" /\ resp.btc.variant = "SignNext" -> resp.btc.signNext

\* The hint of the k-th response the host received.
Hint(k) == UnwrapNext(log[k].response)

\* tests::Transaction::make_host_request: the part of the transaction tx
\* (input index -> [input, prevtx]) that the hint h asks for.  It panics, answering nothing, on a
\* HostNonce or Done hint.
MakeHostRequest(tx, h) ==
  CASE h.type = "Input" -> {[kind |-> "SignInput", body |-> tx[h.index].input]}
    [] h.type = "Output" -> {[kind |-> "SignOutput", body |-> "output"]}
    [] h.type = "PrevtxInit" ->
         {[kind |-> "PrevtxInit",
           body |-> [numInputs |-> Len(tx[h.index].prevtx.ins),
                     numOutputs |-> Len(tx[h.index].prevtx.outs)]]}
    [] h.type = "PrevtxInput" ->
         {[kind |-> "PrevtxInput", body |-> tx[h.index].prevtx.ins[h.prevIndex + 1]]}
    [] h.type = "PrevtxOutput" ->
         {[kind |-> "PrevtxOutput", body |-> tx[h.index].prevtx.outs[h.prevIndex + 1]]}
    [] OTHER -> {}

\* The honest host of the honest run: make_host_request over HonestTx, and
\* the host side of anti-klepto: it may attach a host nonce commitment to
\* any input it sends, and answers HostNonce with its nonce.
AppHostRequest(h) ==
  IF h.type = "HostNonce"
  THEN {[kind |-> "AntikleptoSignature", body |-> "host_nonce"]}
  ELSE {[r EXCEPT !.body = IF r.kind = "SignInput" THEN [@ EXCEPT !.hostNonce = b]
                                                   ELSE @] :
          r \in MakeHostRequest(HonestTx, h), b \in BOOLEAN}

\* The host answers the last response with a request of its choice.
HostRequest ==
  /\ pc \in Awaiting /\ req = NoReq
  /\ \E r \in IF Honest THEN AppHostRequest(Hint(Len(log))) ELSE AnyRequest :
       req' = r
  /\ UNCHANGED <<device, result, history>>

\* The host disconnects: next_request fails.
HostDisconnects ==
  /\ ~Honest
  /\ pc \in Awaiting /\ req = NoReq
  /\ req' = TransportError
  /\ UNCHANGED <<device, result, history>>

-----------------------------------------------------------------------------

Init ==
  /\ pc = "Start"
  /\ inIdx = 0
  /\ idx = 0
  /\ txInput = NoInput
  /\ prevtxInit = [numInputs |-> 0, numOutputs |-> 0]
  /\ hasher = [numIns |-> 0, ins |-> <<>>, numOuts |-> 0, outs |-> <<>>]
  /\ next = DefaultNext
  /\ wrap = FALSE
  /\ screen = <<>>
  /\ progress = [num |-> 0, den |-> 1]
  /\ signing = "idle"
  /\ req = NoReq
  /\ result = "None"
  /\ log = <<>>
  /\ verified = <<>>
  /\ outputsDone = 0
  /\ armed = {}

\* process has returned; the session is over.
Returned == pc = "Returned" /\ UNCHANGED vars

DeviceStep ==
  \/ ProcessStart \/ ProcessStartRejected
  \/ WrongVariant \/ TransportFails \/ NativeRejects
  \/ SignInputPass1
  \/ PrevTxInitEmpty \/ PrevTxInit \/ PrevTxInput
  \/ PrevTxOutputValueMismatch \/ PrevTxOutput
  \/ PrevTxHashMismatch \/ PrevTxVerified
  \/ SignOutput \/ SignLastOutput
  \/ SignInputPass2 \/ SignInputPass2Antiklepto \/ AntikleptoHostNonce

HostStep == HostRequest \/ HostDisconnects

Next == DeviceStep \/ HostStep \/ Returned

\* The device task runs whenever it holds a request; the host is only
\* assumed to answer in the honest configuration (no timeouts exist).
Spec == Init /\ [][Next]_vars /\ WF_vars(DeviceStep)
FairSpec == Spec /\ WF_vars(HostRequest)

-----------------------------------------------------------------------------
(* Properties.                                                             *)

Sigs == {Signature(i, k) : i \in 0..NumInputs - 1, k \in {"plain", "antiklepto"}}
NextResponses ==
  [type : {"Input", "Output", "PrevtxInit", "PrevtxInput", "PrevtxOutput",
           "HostNonce", "Done"},
   index : Nat, prevIndex : Nat, hasSig : BOOLEAN, sig : Sigs \cup {NoSig},
   commitment : {[input |-> i] : i \in 0..NumInputs - 1} \cup {NoCommitment}]

TypeOK ==
  /\ pc \in Awaiting \cup {"Start", "Returned"}
  /\ inIdx \in 0..NumInputs - 1
  /\ idx \in Nat
  /\ txInput \in InputRecords \cup {NoInput}
  /\ next \in NextResponses
  /\ wrap \in BOOLEAN
  /\ signing \in {"idle", "active"}
  /\ req \in AnyRequest \cup {NoReq, TransportError}
       \/ Honest
  /\ result \in {"None", "Ok", "InvalidState", "InvalidInput", "UserAbort",
                 "Transport"}
  /\ \A k \in 1..Len(log) : Hint(k) \in NextResponses
  /\ DOMAIN verified \subseteq 0..NumInputs - 1
  /\ outputsDone \in 0..NumOutputs
  /\ armed \subseteq 0..NumInputs - 1

\* The signatures the host has received, in order.
Delivered ==
  LET withSig == SelectSeq(log, LAMBDA e : UnwrapNext(e.response).hasSig)
  IN  [k \in 1..Len(withSig) |-> UnwrapNext(withSig[k].response).sig]

\* Every signature the host receives is for an input whose previous
\* transaction handle_prevtx streamed in pass 1 and which really hashes to
\* the input's prev_out_hash, with the claimed value at prev_out_index
\* when that output exists (signtx.rs handle_prevtx, the two checks).
SignatureRequiresVerifiedPrevTx ==
  \A k \in 1..Len(Delivered) :
    LET i == Delivered[k].input
        v == verified[i]
    IN  /\ i \in DOMAIN verified
        /\ Sha256d(v.tx) = v.input.prevOutHash
        /\ v.input.prevOutIndex < Len(v.tx.outs)
             => v.tx.outs[v.input.prevOutIndex + 1] = v.input.prevOutValue

\* No signature leaves the device before sign_output has accepted every
\* output, i.e. before the user confirmed all recipients and, at the last
\* output, the total and fee (_process: outputs loop before pass 2).
ConsentBeforeSignature ==
  Len(Delivered) > 0 => outputsDone = NumOutputs

\* The host receives the signatures in input order, each exactly once:
\* the k-th signature delivered is the one of input k-1 (get_request
\* resets has_signature/signature after each exchange).
SignaturesInOrderOnce ==
  \A k \in 1..Len(Delivered) : Delivered[k].input = k - 1

\* An input whose pass-2 request carries a host nonce commitment is only
\* ever signed with the anti-klepto signature, after its signer commitment
\* was sent with the HostNonce request; other inputs get the plain one.
AntikleptoHonoured ==
  \A k \in 1..Len(log) :
    LET e == Hint(k)
    IN  e.hasSig =>
          IF e.sig.input \in armed
          THEN /\ e.sig.kind = "antiklepto"
               /\ \E j \in 1..k - 1 :
                    /\ Hint(j).type = "HostNonce"
                    /\ Hint(j).commitment = [input |-> e.sig.input]
          ELSE e.sig.kind = "plain"

\* The signer commitment is sent only with the HostNonce request of its own
\* input, never again with a later response.
CommitmentOnlyWithHostNonce ==
  \A k \in 1..Len(log) :
    Hint(k).commitment # NoCommitment =>
      /\ Hint(k).type = "HostNonce"
      /\ Hint(k).commitment.input = Hint(k).index

\* get_request's contract (l. 65-68): the response to a request arrives in
\* the envelope the request came in, a bare Response after BtcSignInit,
\* BtcSignInput and BtcSignOutput, a BTCResponse after a BtcRequest.  The
\* typed accessors set wrap after their await, for the following send; this
\* includes the final Done response, whose envelope the last pass-2 input
\* (plain or anti-klepto) decides.
EnvelopeMatchesRequest ==
  [][Len(log') > Len(log) =>
       (log'[Len(log')].response.variant = "Btc") = (req \notin {NoReq, TransportError}
                                /\ req.kind \in WrappedKinds)]_vars

\* With a host that answers every hint honestly and a user who confirms,
\* the session ends with Done and one signature for every input.
HonestSessionSignsAll ==
  <>(/\ result = "Ok"
     /\ Len(Delivered) = NumInputs
     /\ Hint(Len(log)).type = "Done")

\* spec.md 8.3: for every input, prevtx.outputs[prev_out_index].value equals
\* prev_out_value, otherwise the session fails with InvalidInput; so every
\* input handle_prevtx accepts names an existing output of its prevtx.
PrevOutputExists ==
  \A i \in DOMAIN verified :
    LET v == verified[i]
    IN  /\ v.input.prevOutIndex < Len(v.tx.outs)
        /\ v.tx.outs[v.input.prevOutIndex + 1] = v.input.prevOutValue

\* spec.md 7 and 8.6: a session that fails (InvalidState, InvalidInput,
\* UserAbort, transport error) has delivered no signature to the host.
NoSignatureFromFailedSession ==
  result \notin {"None", "Ok"} => Len(Delivered) = 0

\* spec.md 4.5: every value handle_prevtx and _process give progress_set is
\* a fraction in [0, 1] (a zero denominator is the f32 NaN or infinity).
ProgressInRange ==
  /\ progress.den > 0
  /\ 0 <= progress.num /\ progress.num <= progress.den

-----------------------------------------------------------------------------
(* Refinement of SignTxAbstract.                                           *)

\* A pass-1 input whose streamed prevtx really hashes to prev_out_hash and
\* carries prev_out_value at prev_out_index when that output exists.
GenuineInput(v) ==
  /\ Sha256d(v.tx) = v.input.prevOutHash
  /\ v.input.prevOutIndex < Len(v.tx.outs)
       => v.tx.outs[v.input.prevOutIndex + 1] = v.input.prevOutValue

AbstractPhase ==
  CASE pc \in {"Input2", "HostNonce"} -> "signing"
    [] pc = "Returned" /\ result = "Ok" -> "done"
    [] pc = "Returned" -> "failed"
    [] OTHER -> "loading"

Abs == INSTANCE SignTxAbstract WITH
         phase <- AbstractPhase,
         accepted <- verified,
         confirmed <- outputsDone,
         released <- [k \in 1..Len(Delivered) |-> Delivered[k].input],
         Genuine <- GenuineInput

\* Every behaviour of the session, against any host, is one the abstract
\* session allows: genuine inputs verified in order, all outputs confirmed,
\* then signatures released in input order, the last with Done.
ImplementsAbstract == Abs!Spec
=============================================================================
