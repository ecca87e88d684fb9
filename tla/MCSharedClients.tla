--------------------------- MODULE MCSharedClients ---------------------------
(* Instances of SharedClients for TLC: objects that differ in the region or  *)
(* in the account.                                                           *)
EXTENDS SharedClients

CONSTANTS here, there, mine, yours, a, b, c

MCConfigs == {a, b, c}
MCHome ==
    [x \in MCConfigs |-> [region  |-> IF x = b THEN there ELSE here,
                          account |-> IF x = c THEN yours ELSE mine]]

TwoRegions == {a, b}
TwoAccounts == {a, c}
HomeOf(S) == [x \in S |-> MCHome[x]]
RegionHomes == HomeOf(TwoRegions)
AccountHomes == HomeOf(TwoAccounts)

=============================================================================
