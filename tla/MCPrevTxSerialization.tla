------------------------ MODULE MCPrevTxSerialization ------------------------
(* The prevtx preimage over bounded well-formed prevtxs: fields and       *)
(* scripts over a small byte alphabet, input hashes of HashLen bytes, up   *)
(* to MaxIns inputs and MaxOuts outputs.  HostSplits re-reads the hashed   *)
(* bytes with prev_out_hash of any length, as handle_prevtx accepts it.    *)
EXTENDS PrevTxSerialization, FiniteSets
LOCAL INSTANCE SequencesExt

CONSTANTS HashLen,    \* length of prev_out_hash in a real prevtx (32)
          Bytes,      \* byte values used for hashes, scripts and fields
          MaxScript,  \* longest script
          MaxIns,     \* most inputs of a prevtx
          MaxOuts     \* most outputs of a prevtx

VARIABLE tx   \* a well-formed prevtx, whose txid the host claims

Inputs == [prevOutHash : [1..HashLen -> Bytes], prevOutIndex : Bytes,
           signatureScript : SeqOf(Bytes, MaxScript), sequence : Bytes]
Outputs == [value : Bytes, pubkeyScript : SeqOf(Bytes, MaxScript)]
PrevTxs == [version : {1}, ins : SeqOf(Inputs, MaxIns) \ {<<>>},
            outs : SeqOf(Outputs, MaxOuts) \ {<<>>}, locktime : {0}]

\* Every prevtx is an initial state and no step changes it: the property
\* is about each one alone.
Init == tx \in PrevTxs
Next == UNCHANGED tx
Spec == Init /\ [][Next]_tx

\* The txid commits to the outputs handle_prevtx checks: every prevtx a
\* host can stream so that the hashed bytes, and so the txid, are those of
\* tx has tx's outputs, whose value at prev_out_index is compared at l. 240.
\* spec.md gives prev_hash[32], a fixed width that would make the split
\* unique.
PreimageDeterminesOutputs ==
  \A t \in HostSplits(TxBytes(tx)) : t.outs = tx.outs
=============================================================================
