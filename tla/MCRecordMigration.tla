-------------------------- MODULE MCRecordMigration --------------------------
EXTENDS RecordMigration, TLC
Symmetry == Permutations(Issuances) \cup Permutations(Asyncs) \cup Permutations(Ids)
=============================================================================
