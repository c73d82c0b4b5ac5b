--------------------------- MODULE IPAccountWindow ---------------------------
(***************************************************************************)
(* internal/routing/ip_window.go: which accounts were active on an egress  *)
(* IP within a rolling window.  The value of one IP's map is a function    *)
(* from the accounts recorded to the time each was last seen.  Every       *)
(* operator is one method body, which runs under the window's mutex, so    *)
(* using it once in an action is atomic.  The viaFallback flag and the     *)
(* blocked/fallback totals are reported by the API only and left out.      *)
(***************************************************************************)
EXTENDS Integers, FiniteSets, ConcurrentMap

CONSTANTS
    MaxAccountsPerIP,    \* platform.max_accounts_per_ip; 0 disables the quota
    IPAccountWindowNs    \* platform.ip_account_window

ASSUME QuotaAssumption == /\ MaxAccountsPerIP \in Nat
                          /\ IPAccountWindowNs \in Nat \ {0}

IPQuotaEnabled == MaxAccountsPerIP > 0

\* countLocked drops the entries at or before the cutoff ...
Pruned(m, now) ==
    MapKeep(m, {a \in DOMAIN m : m[a] > now - IPAccountWindowNs})

\* ... and counts what is left.
CountRecent(m, now) == Cardinality(DOMAIN Pruned(m, now))

Touch(m, a, now) == MapPut(m, a, now)

\* The admission all three reservation methods share: an account already
\* counted is always admitted, a new one only below the limit.
Admits(m, a, now, limit) ==
    \/ a \in DOMAIN Pruned(m, now)
    \/ CountRecent(m, now) < limit

\* Each method with its limit, and the map it leaves: pruned in any case,
\* with the account recorded when it was admitted.
ReserveIfEligible(m, a, now) == Admits(m, a, now, MaxAccountsPerIP)

RefreshOnHit(m, a, now) ==
    ~IPQuotaEnabled \/ Admits(m, a, now, MaxAccountsPerIP + 1)

ReserveForcedFallback(m, a, now) == Admits(m, a, now, MaxAccountsPerIP + 1)

Reserved(m, a, now) == Touch(Pruned(m, now), a, now)
=============================================================================
