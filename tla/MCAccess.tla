------------------------------ MODULE MCAccess ------------------------------
(***************************************************************************)
(* Accounts in two parts: two accounts and no links, and one account that  *)
(* may be sent two of them. A behaviour is about one of the parts.         *)
(***************************************************************************)
EXTENDS Accounts, TLC

CONSTANT Second  \* the account that takes no part where there are links

\* Requests and session ids are interchangeable.
AccountsSymmetry == Permutations(Requests) \cup Permutations(Sessions)

VARIABLE part  \* "accounts" or "links"

allVars == <<part, vars>>

NoLinkIsAsked == UNCHANGED <<links, resets>>

SecondIsNobody ==
  /\ role'[Second] = "none"
  /\ \A r \in Requests : request'[r].user # Second
  /\ \A a \in Addresses : attempts'[a][Second] = 0

MCInit == part \in {"accounts", "links"} /\ Init

MCNext ==
  /\ Next /\ UNCHANGED part
  /\ part = "accounts" => NoLinkIsAsked
  /\ part = "links" => SecondIsNobody

MCSpec == MCInit /\ [][MCNext]_allVars

=============================================================================
