--------------------------- MODULE MCCandidateRef ---------------------------
\* CandidateRef on small sets, for TLC.
EXTENDS CandidateRef, TLC

PromoterSymmetry == Permutations(Promoter)
=============================================================================
