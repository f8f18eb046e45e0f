-------------------------------- MODULE Expiry --------------------------------
(***************************************************************************)
(* The lists of `lk expire`.  Times are unsigned and wrap at WIDTH, as     *)
(* u64 does in a release build.                                            *)
(***************************************************************************)
EXTENDS Naturals

CONSTANTS WIDTH, DAY            \* 2^64 and 86400

ASSUME WidthAssumption == {WIDTH, DAY} \subseteq Nat \ {0}

Time == 0 .. WIDTH - 1

Expires(vault) == {n \in DOMAIN vault : vault[n].expires \in Time}

expired_credentials(vault, now) ==
    {n \in Expires(vault) : vault[n].expires <= now}

(* Mutant of expiring_soon: leaves out what ends with the warned time.     *)
expiring_soonBefore(vault, now, warn_secs) ==
    LET deadline == (now + warn_secs) % WIDTH
    IN  {n \in Expires(vault) : vault[n].expires > now /\ vault[n].expires < deadline}

expiring_soon(vault, now, warn_secs) ==
    LET deadline == (now + warn_secs) % WIDTH
    IN  {n \in Expires(vault) : vault[n].expires > now /\ vault[n].expires <= deadline}

handle_expire(vault, now, warn_days) ==
    [expired |-> expired_credentials(vault, now),
     expiring |-> expiring_soon(vault, now, (warn_days * DAY) % WIDTH)]
=============================================================================
