------------------------- MODULE MCZeroHeightExport -------------------------
(***************************************************************************)
(* Instances of ZeroHeightExport for TLC.  The three kinds of stores are   *)
(* independent at the start; MCInit varies one of them at a time, as far   *)
(* as the bounds go, and leaves the others at a state of their own.        *)
(***************************************************************************)
EXTENDS ZeroHeightExport

CONSTANTS stranger, badAddr

MCOne == <<1>>
MCThree == <<1, 2, 1>>

MCLists == {{}, {1}, {2, 3}, {1, 2, 3}, {stranger}, {2, badAddr}}
MCGoodLists == {{}, {1}, {1, 2}}

MCBooks(amounts, pools) ==
    {[outstanding |-> <<x, y, 0>>, commission |-> <<c, d, 0>>,
      current |-> <<m, n, 0>>, pool |-> pool,
      balance |-> (x + y + pool) \div Unit, unsent |-> 0] :
        x, y, c, d, m, n \in amounts, pool \in pools}

MCManyBooks == MCBooks(0 .. MaxAmount, 0 .. MaxAmount)
MCFewBooks == MCBooks({0, Unit}, {0})
MCNoBooks == MCBooks({0}, {0})

MCOneRecord ==
    /\ records.period = <<2, 1, 1>>
    /\ \A v \in Vals : records.slashes[v] = {}
    /\ \A d \in Dels : records.height[d] = 0

MCSteady ==
    /\ allow = {}
    /\ jailed = [v \in Vals |-> FALSE]
    /\ status \in [Vals -> {"bonded", "unbonded"}]

MCVaryBooks ==
    /\ MCOneRecord /\ MCSteady
    /\ books \in MCManyBooks
    /\ power \in [Vals -> Powers] /\ power[3] = 1

MCVaryRecords ==
    /\ MCSteady
    /\ books \in MCFewBooks
    /\ power = [v \in Vals |-> 1]

MCVaryStaking ==
    /\ MCOneRecord
    /\ status \in {s \in [Vals -> {"bonded", "unbonding", "unbonded"}] :
                      s[1] # "unbonding" /\ s[3] # "unbonded"}
    /\ books \in MCNoBooks

MCInit ==
    /\ InitControl /\ InitRecords
    /\ MCVaryBooks \/ MCVaryRecords \/ MCVaryStaking
    /\ InitBooks /\ InitStaking

MCSpec == MCInit /\ [][Next]_vars /\ WF_vars(Step)
=============================================================================
