CONSTANTS
  pin = pin
  NoInput = NoInput
  NoCommitment = NoCommitment
  NoSig = NoSig
  TransportError = TransportError
  NoReq = NoReq
  bogusTxid = bogusTxid
  NumInputs = 1
  NumOutputs = 1
  Values = {1, 2}
  PrevOutIndexes = {0, 1}
  PrevTxCounts <- MCBoundaryCounts
  PrevTxInputs <- MCPrevTxInputs
  Txids <- MCTxids
  WordBits = 16
  Honest = FALSE
  HonestTx <- MCHonestTx
SPECIFICATION Spec
INVARIANTS
  ProgressInRange
