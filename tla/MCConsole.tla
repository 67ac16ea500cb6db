----------------------------- MODULE MCConsole -----------------------------
EXTENDS Console, TLC
MCPersons == Permutations(Persons)
============================================================================
