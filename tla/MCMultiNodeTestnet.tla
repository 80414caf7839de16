------------------------- MODULE MCMultiNodeTestnet -------------------------
(* Instances of MultiNodeTestnet for TLC.  Amounts are consensus powers:   *)
(* accounts have 500, the default stake is 100.                            *)
EXTENDS MultiNodeTestnet, FiniteSetsExt

CONSTANTS malformed

MCCounts == {-1, 0, 1, 2, 3}
MCStakes == {<<malformed, 200>>, <<501>>, <<-1>>}
MCPorts == {<<>>, <<47222>>}

(* The directories of some nodes stay or go as a whole; in one of the      *)
(* others a single file is left behind, or one of these is missing.        *)
Files(d) == {<<d, kind, d>> : kind \in {"id", "keyring", "seed", "app", "genesis",
                                          "config", "orphan"}}
            \cup {<<d, "gentx", k>> : k \in Nodes}

MCRemainders ==
    {SymDiff(UNION {Files(d) : d \in whole}, one) :
        whole \in SUBSET Nodes, one \in {{}} \cup {{f} : f \in UNION {Files(d) : d \in Nodes}}}

MCNothing == {{}}

(* For the runs that look for one disagreement.                            *)
MCTwo == {2}
MCOneStake == {<<malformed, 200>>}
MCNoPorts == {<<>>}
=============================================================================
