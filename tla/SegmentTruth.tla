---------------------------- MODULE SegmentTruth ----------------------------
(***************************************************************************)
(* What a replay of a recorded segment finds, for the modules that search  *)
(* for the divergence.  Chain hashes are abstracted to whether the         *)
(* replayed chain differs from the recorded one.  The guest's register     *)
(* fold is a bijection of the register for fixed bytes, so once the two    *)
(* sides differ they differ for good: a defect folded at icount D makes    *)
(* every chain value at an icount >= D differ, and every epoch chain       *)
(* recorded at an icount > D (the fold ranks after the EPOCH_HASH record   *)
(* of its own icount).  Resimulation checks this against the folds.        *)
(***************************************************************************)
EXTENDS Integers, Sequences

(***************************************************************************)
(* A structurally valid segment and the defect injected into it:           *)
(*   end       end_icount                                                  *)
(*   at        icounts of the EPOCH_HASH records with a 40-byte payload    *)
(*   short     how many of those precede the first EPOCH_HASH record whose *)
(*             payload is not 40 bytes; Len(at) + 1 if there is none (AUX  *)
(*             payloads are opaque to R4/R5)                               *)
(*   tampered  the records of at whose hash is not the recorded chain's    *)
(*   badEnd    the header's end_state_hash is not the recorded chain's     *)
(*   flag      flags.EPOCH_HASHES                                          *)
(*   kind      "Skew": InjectedDefect::RecordedSkew, "Flake": ReplayNondet *)
(*   defect    its at_icount; past the end it never takes effect           *)
(*   period    flake_period, at least 1                                    *)
(***************************************************************************)
IsSegment(s) ==
  /\ s.end \in Nat
  /\ s.at \in Seq(Nat)
  /\ \A i \in 1..Len(s.at) : s.at[i] <= s.end
  /\ \A i, j \in 1..Len(s.at) : i <= j => s.at[i] <= s.at[j]
  /\ s.short \in 0..(Len(s.at) + 1)
  /\ s.tampered \subseteq 1..Len(s.at)
  /\ s.badEnd \in BOOLEAN
  /\ s.flag \in BOOLEAN
  /\ s.kind \in {"Skew", "Flake"}
  /\ s.defect \in Nat
  /\ s.period \in Nat \ {0}

\* The replayed and the recorded chain value differ at icount m.
ChainDiffers(s, m) == s.defect <= m

\* The replayed epoch chain differs from what EPOCH_HASH record k holds.
EpochDiffers(s, k) == k \in s.tampered \/ s.defect < s.at[k]

\* The recording is the honest output of the writer: its hashes are those of
\* the recorded side, which is what the oracle reproduces.
Genuine(s) == s.tampered = {} /\ ~s.badEnd

\* The honest replay: it stops at the first EPOCH_HASH record that is short
\* or differs, and compares the end hash only if there is none.
HonestVerdict(s) ==
  LET bad == {k \in 1..Len(s.at) : EpochDiffers(s, k)}
  IN  IF s.short <= Len(s.at) /\ \A k \in bad : k > s.short
      THEN "UnappliableRecord"
      ELSE IF bad # {} \/ ChainDiffers(s, s.end) \/ s.badEnd
           THEN "Diverged"
           ELSE "Verified"
=============================================================================
