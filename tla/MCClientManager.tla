--------------------------- MODULE MCClientManager ---------------------------
(* Instances of ClientManager for TLC. *)
EXTENDS ClientManager, TLC

CONSTANTS m1, m2, g1, g2, t1, t2

MCMac1 == {m1}
MCMacs2 == {m1, m2}
MCGroups2 == {g1, g2}
MCThread1 == {t1}
MCThreads2 == {t1, t2}

\* nothing tells two MACs, two groups or two threads apart
MCSymmetry ==
    Permutations(Macs) \cup Permutations(Groups) \cup Permutations(Threads)
==============================================================================
