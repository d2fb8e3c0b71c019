------------------------- MODULE MCSmallModelQuota -------------------------
(* Quota settings for TLC: a daily call quota, a total token quota.        *)
EXTENDS SmallModelQuota, TLC

MCConfigs == {[limit |-> 2, unit |-> "call",  window |-> "day"],
              [limit |-> 2, unit |-> "token", window |-> "total"]}

MCWindows == {[limit |-> 1, unit |-> "call",  window |-> "day"],
              [limit |-> 1, unit |-> "call",  window |-> "month"]}
\* Workers are alike.
MCSymmetry == Permutations(Workers)
=============================================================================
