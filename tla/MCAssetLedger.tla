---------------------------- MODULE MCAssetLedger ----------------------------
EXTENDS AssetLedger, TLC

CONSTANTS t1, t2, a, b, web

Web == [stem |-> web, capital |-> TRUE]
web_ == [stem |-> web, capital |-> FALSE]

\* A container, a unit of the same name but for case, and its listening process.
MCPrograms ==
    {[source |-> "docker", name |-> web_, system |-> FALSE],
     [source |-> "systemd", name |-> Web, system |-> TRUE],
     [source |-> "listeners", name |-> web_, system |-> FALSE]}

Symmetry == Permutations(Threads) \cup Permutations(Targets)
=============================================================================
