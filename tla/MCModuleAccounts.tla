-------------------------- MODULE MCModuleAccounts --------------------------
(* Instances of ModuleAccounts for TLC.                                    *)
EXTENDS ModuleAccounts

MCLeftOuts == {{m} : m \in {"bank", "distribution", "staking", "slashing", "gov", "mint"}}
=============================================================================
