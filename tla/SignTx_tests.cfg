CONSTANTS
  p74 = p74
  p75 = p75
  NoInput = NoInput
  NoCommitment = NoCommitment
  NoSig = NoSig
  TransportError = TransportError
  NoReq = NoReq
  NumInputs <- TestNumInputs
  NumOutputs <- TestNumOutputs
  Values = {}
  PrevOutIndexes = {}
  PrevTxCounts = {}
  PrevTxInputs = {}
  Txids = {}
  WordBits = 16
  Honest = TRUE
  HonestTx <- TestTx
SPECIFICATION TestSpec
PROPERTIES
  TestsPass
