------------------------------ MODULE GuestSim ------------------------------
(***************************************************************************)
(* The toy guest (replay-mockhv/src/guest.rs): a state register that every *)
(* folded event changes, a hash chain that takes the register in at every  *)
(* epoch boundary, and an icount.                                          *)
(*                                                                         *)
(* A hash is kept as what was hashed: the register is the sequence of the  *)
(* byte strings folded into it, the chain the sequence of registers it     *)
(* took in.  FNV-1a and BLAKE3 are so taken to be free of collisions.      *)
(***************************************************************************)
EXTENDS Integers, Sequences

CONSTANT EpochIcounts   \* MOCK_EPOCH_ICOUNTS

ASSUME EpochIcountsAssumption == EpochIcounts \in Nat \ {0}

NewGuest == [reg |-> <<>>, chain |-> <<>>, icount |-> 0, panicked |-> FALSE]

\* Epoch boundaries b with from < b <= target.
BoundariesPassed(from, target) == target \div EpochIcounts - from \div EpochIcounts

\* Every boundary crossed or landed on folds the register into the chain.
\* Stepping backwards is the assertion that fails.
StepTo(guest, target) ==
  [guest EXCEPT
     !.chain = @ \o [b \in 1..BoundariesPassed(guest.icount, target) |-> guest.reg],
     !.icount = target,
     !.panicked = @ \/ target < guest.icount]

FoldBytes(guest, bytes) == [guest EXCEPT !.reg = Append(@, bytes)]

\* The state hash at the guest's icount.
ChainValue(guest) == <<guest.chain, guest.reg, guest.icount>>
=============================================================================
