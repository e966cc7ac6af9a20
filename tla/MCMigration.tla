---------------------------- MODULE MCMigration ----------------------------
EXTENDS Migration, TLC
CONSTANTS a0, a1, a2
Sym == Permutations({a1, a2})
=============================================================================
