------------------------------ MODULE MCSignTx ------------------------------
(* Instantiation of SignTx for TLC: two previous transactions the host may *)
(* claim, one bogus txid, one-input prevtxs of one or two outputs.         *)
EXTENDS SignTx

CONSTANTS pin,      \* the content of a streamed prevtx input
          bogusTxid \* a prev_out_hash no streamable prevtx has

\* The previous transactions of the honest host, and those the adversarial
\* host may claim by txid.
TxA == [ins |-> <<pin>>, outs |-> <<1>>]
TxB == [ins |-> <<pin>>, outs |-> <<2, 1>>]

MCPrevTxInputs == {pin}
MCTxids == {Txid(TxA), Txid(TxB), bogusTxid}
MCHonestTx == [i \in 0..NumInputs - 1 |->
                 LET tx == IF i % 2 = 0 THEN TxA ELSE TxB
                     k  == i % 2
                 IN  [input |-> [prevOutHash |-> Txid(tx), prevOutIndex |-> k,
                                 prevOutValue |-> tx.outs[k + 1], hostNonce |-> FALSE],
                      prevtx |-> tx]]

\* Prevtx counts at the u32 boundary: num_inputs + num_outputs wraps to 0.
MCBoundaryCounts == {1, 2 ^ WordBits - 1}
=============================================================================
