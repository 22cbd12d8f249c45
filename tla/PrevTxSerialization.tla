------------------------- MODULE PrevTxSerialization -------------------------
(***************************************************************************)
(* The bytes handle_prevtx feeds the Sha256 hasher for a previous          *)
(* transaction (signtx.rs l. 207-250): the legacy serialization whose      *)
(* double SHA256 is the txid.  SignTx abstracts the txid as an injective   *)
(* function of the streamed fields; that is sound only if no two streams   *)
(* the device accepts hash the same bytes.  prev_out_hash (l. 221) is      *)
(* hashed without a length prefix and its length is never checked, so      *)
(* HostSplits reads a byte string back in every way a host could have     *)
(* streamed it.                                                            *)
(***************************************************************************)
EXTENDS Integers, Sequences
LOCAL INSTANCE SequencesExt

\* n.to_le_bytes() for a k-byte unsigned integer.
RECURSIVE LE(_, _)
LE(n, k) == IF k = 0 THEN <<>> ELSE <<n % 256>> \o LE(n \div 256, k - 1)

\* script::serialize_varint: Bitcoin CompactSize, 1, 3, 5 or 9 bytes.
Varint(n) ==
  CASE n < 253                 -> <<n>>
    [] n < 65536               -> <<253>> \o LE(n, 2)
    [] n \div 65536 < 65536    -> <<254>> \o LE(n, 4)
    [] OTHER                   -> <<255>> \o LE(n, 8)

\* One prevtx input: prev_out_hash, prev_out_index, varint(len), script,
\* sequence.
InputBytes(in) ==
  in.prevOutHash \o LE(in.prevOutIndex, 4)
    \o Varint(Len(in.signatureScript)) \o in.signatureScript
    \o LE(in.sequence, 4)

\* One prevtx output: value, varint(len), pubkey script.
OutputBytes(out) ==
  LE(out.value, 8) \o Varint(Len(out.pubkeyScript)) \o out.pubkeyScript

\* The whole preimage: version, varint(num_inputs), the inputs,
\* varint(num_outputs), the outputs, locktime.
TxBytes(tx) ==
  LE(tx.version, 4)
    \o Varint(Len(tx.ins)) \o FlattenSeq([k \in 1..Len(tx.ins) |-> InputBytes(tx.ins[k])])
    \o Varint(Len(tx.outs)) \o FlattenSeq([k \in 1..Len(tx.outs) |-> OutputBytes(tx.outs[k])])
    \o LE(tx.locktime, 4)

-----------------------------------------------------------------------------
(* Reading the bytes back.  The readers are total: bytes past the end     *)
(* read as nothing; HostSplits keeps only readings that re-encode to the  *)
(* same bytes.                                                             *)

FirstBytes(s, k) == SubSeq(s, 1, IF k < Len(s) THEN k ELSE Len(s))
AfterBytes(s, k) == SubSeq(s, k + 1, Len(s))

RECURSIVE LESum(_)
LESum(s) == IF s = <<>> THEN 0 ELSE Head(s) + 256 * LESum(Tail(s))

\* The little-endian integer s holds.  TLC integers are 32-bit: a u64 with
\* a nonzero byte above its fourth is read as -1, which re-encodes to other
\* bytes, so readings that need such a value are not found (bytes are
\* below 128 in the models, so four bytes fit).
LEValue(s) ==
  IF \E k \in DOMAIN s : k > 4 /\ s[k] # 0 THEN -1 ELSE LESum(FirstBytes(s, 4))

\* [value, rest] of a CompactSize at the head of s.
ReadVarint(s) ==
  LET w == IF s = <<>> THEN 0
           ELSE CASE s[1] < 253 -> 0 [] s[1] = 253 -> 2 [] s[1] = 254 -> 4
                  [] OTHER -> 8
  IN  IF s = <<>> THEN [value |-> 0, rest |-> <<>>]
      ELSE IF w = 0 THEN [value |-> s[1], rest |-> Tail(s)]
      ELSE [value |-> LEValue(FirstBytes(Tail(s), w)), rest |-> AfterBytes(Tail(s), w)]

\* [value, rest] of a length-prefixed byte string at the head of s.
ReadScript(s) ==
  LET n == ReadVarint(s)
  IN  [value |-> FirstBytes(n.rest, n.value), rest |-> AfterBytes(n.rest, n.value)]

\* A prevtx input at the head of s whose prev_out_hash is h bytes long.
ReadInput(s, h) ==
  LET sc == ReadScript(AfterBytes(s, h + 4))
  IN  [value |-> [prevOutHash |-> FirstBytes(s, h),
                  prevOutIndex |-> LEValue(FirstBytes(AfterBytes(s, h), 4)),
                  signatureScript |-> sc.value,
                  sequence |-> LEValue(FirstBytes(sc.rest, 4))],
       rest |-> AfterBytes(sc.rest, 4)]

\* Every reading of k inputs at the head of s, one per choice of the
\* hash lengths.
RECURSIVE ReadInputs(_, _)
ReadInputs(k, s) ==
  IF k = 0 THEN {[value |-> <<>>, rest |-> s]}
  ELSE UNION {{[value |-> <<one.value>> \o more.value, rest |-> more.rest] :
                 more \in ReadInputs(k - 1, one.rest)} :
               one \in {ReadInput(s, h) : h \in 0..Len(s)}}

ReadOutput(s) ==
  LET sc == ReadScript(AfterBytes(s, 8))
  IN  [value |-> [value |-> LEValue(FirstBytes(s, 8)), pubkeyScript |-> sc.value],
       rest |-> sc.rest]

RECURSIVE ReadOutputs(_, _)
ReadOutputs(k, s) ==
  IF k = 0 \/ s = <<>> THEN [value |-> <<>>, rest |-> s]
  ELSE LET one == ReadOutput(s)  more == ReadOutputs(k - 1, one.rest)
       IN  [value |-> <<one.value>> \o more.value, rest |-> more.rest]

\* Every prevtx a host can stream to make handle_prevtx hash exactly b;
\* one without inputs or outputs is rejected before hashing (l. 203).
HostSplits(b) ==
  LET nin == ReadVarint(AfterBytes(b, 4))
      tx(ins) ==
        LET nout == ReadVarint(ins.rest)
            outs == ReadOutputs(nout.value, nout.rest)
        IN  [version |-> LEValue(FirstBytes(b, 4)), ins |-> ins.value,
             outs |-> outs.value, locktime |-> LEValue(FirstBytes(outs.rest, 4))]
  IN  {t \in {tx(ins) : ins \in ReadInputs(nin.value, nin.rest)} :
         Len(t.ins) >= 1 /\ Len(t.outs) >= 1 /\ TxBytes(t) = b}
=============================================================================
