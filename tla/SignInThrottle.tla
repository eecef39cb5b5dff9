--------------------------- MODULE SignInThrottle ---------------------------
(***************************************************************************)
(* The counters of login_rate_limiter.rs, as operators on the maps the     *)
(* limiter holds in memory.  A map gives a count to every key, 0 where the *)
(* code has no entry.  An entry whose window is over is dropped by every   *)
(* operation before it looks, so the passing of a window is the entry      *)
(* going back to 0.                                                        *)
(*                                                                         *)
(* The sign-in map is keyed by client address and account, the map of      *)
(* password checks by account, the maps of requests by address.  The       *)
(* address is the one client_ip reads and limit_key folds: whoever shares  *)
(* it counts as one.                                                       *)
(***************************************************************************)
EXTENDS Integers, FiniteSets, Functions

CONSTANTS
  Addresses,                \* client addresses, as limit_key folds them
  MAX_ATTEMPTS,             \* failures per address and account
  MAX_ATTEMPTS_PER_ADDRESS, \* failures per address
  MAX_REQUESTS_PER_ADDRESS  \* reset links, or subscriptions, per address

ASSUME ThrottleAssumption ==
  /\ IsFiniteSet(Addresses)
  /\ MAX_ATTEMPTS \in Nat \ {0}
  /\ MAX_ATTEMPTS_PER_ADDRESS \in Nat \ {0}
  /\ MAX_REQUESTS_PER_ADDRESS \in Nat

\* address_failures: the failures of an address, all accounts together.
AddressFailures(attempts, ip) ==
  SumFunction(attempts[ip])

\* Mutant: the last attempt allowed is not counted as one.
IsBlockedLate(attempts, ip, u) ==
  \/ attempts[ip][u] > MAX_ATTEMPTS
  \/ AddressFailures(attempts, ip) > MAX_ATTEMPTS_PER_ADDRESS

\* is_blocked: whether this address may not try this account.
IsBlocked(attempts, ip, u) ==
  \/ attempts[ip][u] >= MAX_ATTEMPTS
  \/ AddressFailures(attempts, ip) >= MAX_ATTEMPTS_PER_ADDRESS

\* record_failure, without what it answers.
RecordFailure(attempts, ip, u) == [attempts EXCEPT ![ip][u] = @ + 1]

\* clear, after a sign-in.
Clear(attempts, ip, u) == [attempts EXCEPT ![ip][u] = 0]

\* The window of an entry of the sign-in map is over.
Forget(attempts, ip, u) == Clear(attempts, ip, u)

\* is_password_check_blocked and record_password_check_failure.
IsCheckBlocked(checks, u) == checks[u] >= MAX_ATTEMPTS
RecordCheckFailure(checks, u) == [checks EXCEPT ![u] = @ + 1]

\* count_request: the first request past the ceiling is counted too, so that
\* it alone is journaled; the ones after it are not.
CountRequest(requests, ip) ==
  IF requests[ip] > MAX_REQUESTS_PER_ADDRESS
  THEN requests
  ELSE [requests EXCEPT ![ip] = @ + 1]

RequestAllowed(requests, ip) == requests[ip] + 1 <= MAX_REQUESTS_PER_ADDRESS

=============================================================================
