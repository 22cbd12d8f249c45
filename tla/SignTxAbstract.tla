--------------------------- MODULE SignTxAbstract ---------------------------
(***************************************************************************)
(* What a BTC signing session promises the user (spec.md 3, 5): inputs     *)
(* are verified one by one against genuine previous transactions, then    *)
(* every output is confirmed, then signatures are released in input       *)
(* order, the last one together with Done.  The session may fail at any   *)
(* point; signatures already released stay released.                      *)
(***************************************************************************)
EXTENDS Naturals, Sequences, FiniteSets

CONSTANTS
  NumInputs,    \* inputs of the transaction
  NumOutputs,   \* outputs of the transaction
  Genuine(_)    \* a pass-1 input with its streamed prevtx is authentic

VARIABLES
  phase,        \* "loading", "signing", "done" or "failed"
  accepted,     \* input index -> what was verified for it
  confirmed,    \* number of outputs the user confirmed
  released      \* input indices whose signature the host holds, in order

vars == <<phase, accepted, confirmed, released>>

Init ==
  /\ phase = "loading"
  /\ accepted = <<>>
  /\ confirmed = 0
  /\ released = <<>>

\* The next input, in order, is accepted with genuine data.
Verify ==
  /\ phase = "loading"
  /\ confirmed = 0
  /\ Cardinality(DOMAIN accepted) < NumInputs
  /\ LET i == Cardinality(DOMAIN accepted)
     IN  /\ DOMAIN accepted' = DOMAIN accepted \cup {i}
         /\ \A j \in DOMAIN accepted : accepted'[j] = accepted[j]
         /\ Genuine(accepted'[i])
  /\ UNCHANGED <<phase, confirmed, released>>

\* The user confirms an output other than the last.
Confirm ==
  /\ phase = "loading"
  /\ Cardinality(DOMAIN accepted) = NumInputs
  /\ confirmed + 1 < NumOutputs
  /\ confirmed' = confirmed + 1
  /\ UNCHANGED <<phase, accepted, released>>

\* The user confirms the last output (total and fee): signing may begin.
Consent ==
  /\ phase = "loading"
  /\ Cardinality(DOMAIN accepted) = NumInputs
  /\ confirmed + 1 = NumOutputs
  /\ confirmed' = NumOutputs
  /\ phase' = "signing"
  /\ UNCHANGED <<accepted, released>>

\* The signature of the next input, not the last, reaches the host.
Release ==
  /\ phase = "signing"
  /\ Len(released) + 1 < NumInputs
  /\ released' = Append(released, Len(released))
  /\ UNCHANGED <<phase, accepted, confirmed>>

\* The last signature reaches the host with Done.
Complete ==
  /\ phase = "signing"
  /\ Len(released) + 1 = NumInputs
  /\ released' = Append(released, Len(released))
  /\ phase' = "done"
  /\ UNCHANGED <<accepted, confirmed>>

Fail ==
  /\ phase \in {"loading", "signing"}
  /\ phase' = "failed"
  /\ UNCHANGED <<accepted, confirmed, released>>

Next == Verify \/ Confirm \/ Consent \/ Release \/ Complete \/ Fail

Spec == Init /\ [][Next]_vars
=============================================================================
