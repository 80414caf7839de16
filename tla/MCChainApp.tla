----------------------------- MODULE MCChainApp -----------------------------
(* ChainApp with two values of the parameters, four spellings of an        *)
(* authority, and blocks of one and two batches.                           *)
EXTENDS ChainApp, TLC

CONSTANTS p0, p1, gov, elsewhere

MCParamValues == {p0, p1}

(* Two spellings of the governance account, one of another, and no address *)
MCAddresses ==
    "gov" :> gov @@ "GOV" :> gov @@ "user" :> elsewhere @@ "bad" :> NoAddress

Update(a, p) == [authority |-> a, params |-> p]

(* A refused batch after an accepted one, alone, and before one.           *)
MCBlocks ==
    {<<<<Update("gov", p1)>>, <<Update("user", p0)>>>>,
     <<<<Update("gov", p1), Update("bad", p0)>>>>,
     <<<<Update("user", p1)>>, <<Update("gov", p1), Update("GOV", p0)>>>>}
=============================================================================
