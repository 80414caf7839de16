CONSTANTS
    NVals = 2
    NDels = 1
    ValOf <- MCOneDelegation
    Unit = 1
    PeriodCap = 2
    Keys = {11, 12, 13}
    KeyOf <- MCKeyOf
    Powers = {1, 2}
    NewPower = 9
    Accounts = {alice, bob}
    alice = alice
    bob = bob
    empty = empty
    EmptyString = empty
    AccountLists <- MCLists
    MaxRuns = 1
SPECIFICATION Spec
INVARIANT StartsWithoutAccounts
