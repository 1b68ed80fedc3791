-------------------------- MODULE MCDownloadSystem --------------------------
EXTENDS DownloadSystem, TLC
Symmetry == Permutations(Task) \cup Permutations(Worker) \cup Permutations(Client)
=============================================================================
