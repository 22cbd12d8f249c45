CONSTANTS
  pin = pin
  NoInput = NoInput
  NoCommitment = NoCommitment
  NoSig = NoSig
  TransportError = TransportError
  NoReq = NoReq
  bogusTxid = bogusTxid
  NumInputs = 2
  NumOutputs = 2
  Values = {1, 2}
  PrevOutIndexes = {0, 1}
  PrevTxCounts = {0, 1, 2}
  PrevTxInputs <- MCPrevTxInputs
  Txids <- MCTxids
  WordBits = 16
  Honest = FALSE
  HonestTx <- MCHonestTx
SPECIFICATION Spec
PROPERTIES
  ImplementsAbstract
