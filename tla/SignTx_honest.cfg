CONSTANTS
  pin = pin
  NoInput = NoInput
  NoCommitment = NoCommitment
  NoSig = NoSig
  TransportError = TransportError
  NoReq = NoReq
  bogusTxid = bogusTxid
  NumInputs = 3
  NumOutputs = 2
  Values = {1, 2}
  PrevOutIndexes = {0, 1}
  PrevTxCounts = {0, 1, 2}
  PrevTxInputs <- MCPrevTxInputs
  Txids <- MCTxids
  WordBits = 16
  Honest = TRUE
  HonestTx <- MCHonestTx
SPECIFICATION FairSpec
PROPERTIES
  HonestSessionSignsAll
