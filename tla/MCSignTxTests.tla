---------------------------- MODULE MCSignTxTests ----------------------------
(***************************************************************************)
(* The unit tests of signtx.rs (mod tests) as an environment of SignTx.    *)
(* Each behaviour runs one test: the fixture transaction of                *)
(* Transaction::new, possibly altered as the test alters it, served by the *)
(* test's mock responder, with the test's UI mock answering the            *)
(* confirmations.  The native helpers accept (Honest), except where a test *)
(* makes them fail, at the step where the record it altered reaches      *)
(* them.  Each behaviour must end in the outcome the test asserts.         *)
(***************************************************************************)
EXTENDS SignTx

CONSTANTS p74,  \* the prevtx input with prev_out_hash 0x74.., index 3
          p75   \* the prevtx input with prev_out_hash 0x75.., index 23

VARIABLE test   \* the test (and test case) this behaviour runs

testVars == <<vars, test>>

\* Transaction::new: two inputs with their previous transactions and six
\* outputs.  Scripts, keypaths, versions and locktimes only reach the
\* native helpers or the digest, so they are left out; the prev_out_hash of
\* each input is the txid of its prevtx, as the fixture's literal is.
Prev0 == [ins |-> <<p74, p75>>, outs |-> <<101000000, 1010000000>>]
Prev1 == [ins |-> <<p74>>, outs |-> <<1020000000>>]
TestTx ==
  (0 :> [input |-> [prevOutHash |-> Txid(Prev0), prevOutIndex |-> 1,
                    prevOutValue |-> 1010000000, hostNonce |-> FALSE],
         prevtx |-> Prev0])
  @@ (1 :> [input |-> [prevOutHash |-> Txid(Prev1), prevOutIndex |-> 0,
                       prevOutValue |-> 1020000000, hostNonce |-> FALSE],
            prevtx |-> Prev1])
TestOutputs == <<100000000, 1234567890, 6000, 7000, 690000000, 100>>

\* init_request: num_inputs and num_outputs are the fixture's lengths.
TestNumInputs == Cardinality(DOMAIN TestTx)
TestNumOutputs == Len(TestOutputs)

\* test_invalid_input: the cases that alter what this file checks, each
\* applied to input 0 of the fixture.
InvalidInputCases ==
  {"WrongInputValue", "WrongPrevoutHash", "PrevTxNoInputs", "PrevTxNoOutputs"}
Altered(tx, case) ==
  CASE case = "WrongInputValue" -> [tx EXCEPT ![0].input.prevOutValue = @ + 1]
    [] case = "WrongPrevoutHash" -> [tx EXCEPT ![0].input.prevOutHash = <<"byte0+1", @>>]
    [] case = "PrevTxNoInputs" -> [tx EXCEPT ![0].prevtx.ins = <<>>]
    [] case = "PrevTxNoOutputs" -> [tx EXCEPT ![0].prevtx.outs = <<>>]
    [] OTHER -> tx

\* test_process / test_user_aborts: confirmation c (UI_COUNTER) is shown
\* while sign_output handles output AbortOutput[c]: the recipients of
\* outputs 0-3, then the change warning and the total at the last output
\* (outputs 4 and 5 are change).
AbortOutput == <<0, 1, 2, 3, 5, 5>>

\* test_sign_init_fail: the blocks after the keystore one, each an init
\* request that the native sign_init rejects.
InitInvalidCases ==
  {"version", "locktime", "num_inputs", "num_outputs", "coin", "keypath",
   "no_script_configs", "mixed_accounts", "mixed_multisig"}

\* test_invalid_input, the other cases: the record each one alters and so
\* the native helper that rejects it, sign_input_pass1 at input 0 or
\* sign_output at output 0 or 4 (the first change output).
RejectedAt ==
  [c \in {"WrongCoinInput", "WrongAccountInput", "InvalidInputScriptConfigIndex",
          "WrongSequenceNumber"} |-> [at |-> "Input1", index |-> 0]]
  @@ [c \in {"WrongCoinChange", "WrongAccountChange", "WrongBip44Change0",
             "WrongBip44Change2", "InvalidChangeScriptConfigIndex"} |->
        [at |-> "Output", index |-> 4]]
  @@ ("WrongOutputValue" :> [at |-> "Output", index |-> 0])

\* test_locktime: the confirm column of its table; the locktime / RBF
\* dialog is shown by sign_output at the last output.
LocktimeConfirm ==
  <<"none", "none", "none", "accept", "decline", "accept", "accept",
    "accept", "accept">>

Tests ==
       {[name |-> n, case |-> "none", counter |-> 0] :
          n \in {"process", "locked", "invalid_state", "p2wpkh_p2sh",
                 "mixed_inputs", "p2tr_output"}}
  \cup {[name |-> "init_invalid", case |-> c, counter |-> 0] : c \in InitInvalidCases}
  \cup {[name |-> "invalid_input", case |-> c, counter |-> 0] :
          c \in InvalidInputCases \cup DOMAIN RejectedAt}
  \cup {[name |-> "user_aborts", case |-> "none", counter |-> c] :
          c \in 1..Len(AbortOutput)}
  \cup {[name |-> "locktime", case |-> "none", counter |-> c] :
          c \in 1..Len(LocktimeConfirm)}

-----------------------------------------------------------------------------

\* The mock responder: mock_host_responder answers every hint with
\* make_host_request over the (altered) fixture; test_invalid_state's
\* responder answers every hint with input 0.
Responder(h) ==
  IF test.name = "invalid_state"
  THEN {[kind |-> "SignInput", body |-> TestTx[0].input]}
  ELSE MakeHostRequest(Altered(TestTx, test.case), h)

TestHost ==
  /\ pc \in Awaiting /\ req = NoReq
  /\ \E r \in Responder(Hint(Len(log))) : req' = r
  /\ UNCHANGED <<device, result, history, test>>

\* Where a test makes the session fail outside this file, as [at, index,
\* res]: the keystore is locked (test_sign_init_fail, first block), sign_init
\* rejects the init request (its other blocks), a native helper rejects
\* the record a test_invalid_input case altered, or the UI mock declines
\* a confirmation (test_user_aborts, the declined locktime of
\* test_locktime).  Tests without one reach no rejection.
Rejection ==
  CASE test.name = "locked" -> [at |-> "Start", index |-> 0, res |-> "InvalidState"]
    [] test.name = "init_invalid" -> [at |-> "Start", index |-> 0, res |-> "InvalidInput"]
    [] test.name = "invalid_input" /\ test.case \in DOMAIN RejectedAt ->
         RejectedAt[test.case] @@ [res |-> "InvalidInput"]
    [] test.name = "user_aborts" ->
         [at |-> "Output", index |-> AbortOutput[test.counter], res |-> "UserAbort"]
    [] test.name = "locktime" /\ LocktimeConfirm[test.counter] = "decline" ->
         [at |-> "Output", index |-> TestNumOutputs - 1, res |-> "UserAbort"]
    [] OTHER -> [at |-> "none", index |-> 0, res |-> "None"]

\* The device is where the rejection happens: output idx, or input inIdx.
Overridden ==
  /\ pc = Rejection.at
  /\ Rejection.index = IF pc = "Output" THEN idx ELSE inIdx

Injected ==
  IF pc = "Start" THEN StartFails(Rejection.res) ELSE NativeFails(Rejection.res)

TestDevice ==
  /\ \/ Overridden /\ Injected
     \/ ~Overridden /\ DeviceStep
  /\ UNCHANGED test

TestInit == Init /\ test \in Tests

TestNext == TestDevice \/ TestHost \/ (Returned /\ UNCHANGED test)

\* block_on drives the session to completion and the mock answers every
\* hint at once, so both the device and the responder are fair.
TestSpec == TestInit /\ [][TestNext]_testVars
              /\ WF_testVars(TestDevice) /\ WF_testVars(TestHost)

-----------------------------------------------------------------------------
(* What each test asserts of process().                                    *)

\* test_process: Ok, a bare BtcSignNext response carrying a signature.
ProcessAsserted ==
  /\ result = "Ok"
  /\ log[Len(log)].response.variant = "BtcSignNext"
  /\ Hint(Len(log)).hasSig

\* test_invalid_state: InvalidState after the responder was called twice.
InvalidStateAsserted == result = "InvalidState" /\ Len(log) = 2

\* test_script_type_p2wpkh_p2sh and test_p2tr_output: as test_process; the
\* P2TR test also sees at least one recipient dialog (UI_COUNTER >= 1).
ScriptTypeAsserted == ProcessAsserted
P2trAsserted == ProcessAsserted /\ outputsDone >= 1

\* test_mixed_inputs: process is Ok.
MixedInputsAsserted == result = "Ok"

\* test_locktime: UserAbort where the locktime dialog is declined, else Ok.
LocktimeAsserted ==
  result = IF LocktimeConfirm[test.counter] = "decline" THEN "UserAbort" ELSE "Ok"

TestAsserted ==
  CASE test.name = "process" -> ProcessAsserted
    [] test.name = "invalid_state" -> InvalidStateAsserted
    [] test.name = "locked" -> result = "InvalidState"
    [] test.name \in {"init_invalid", "invalid_input"} -> result = "InvalidInput"
    [] test.name = "user_aborts" -> result = "UserAbort"
    [] test.name = "p2wpkh_p2sh" -> ScriptTypeAsserted
    [] test.name = "p2tr_output" -> P2trAsserted
    [] test.name = "mixed_inputs" -> MixedInputsAsserted
    [] test.name = "locktime" -> LocktimeAsserted

\* Every test of mod tests that drives this file's flow ends, and process
\* returns what the test asserts: the model reproduces the test suite
\* (the prevtx checks of handle_prevtx, the variant checks of the typed
\* accessors, the envelope of the Done response, the abort paths).
TestsPass == <>(pc = "Returned" /\ TestAsserted)
=============================================================================
