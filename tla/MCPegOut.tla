------------------------------ MODULE MCPegOut ------------------------------
(***************************************************************************)
(* Instances of PegOut for TLC: two exports, so that one export can be     *)
(* recorded while the consumer works on the other.                         *)
(***************************************************************************)
EXTENDS PegOut, TLC

CONSTANTS e1, e2

MCExport == {e1, e2}

\* Every ledger answer, the ambiguous ones included.
MCOutcomeAll == AllOutcomes

\* A ledger that always applies the peg-out and always answers.
MCOutcomeApplied == {"applied"}

\* A ledger that answers truthfully, whatever it does.
MCOutcomeTruthful == {"applied", "badSeq", "failed"}

MCSymmetry == Permutations(MCExport)
=============================================================================
