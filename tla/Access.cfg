\* Two accounts and two requests without links; one account, two requests and
\* two links.
SPECIFICATION MCSpec
CONSTANTS
  Users = {ann, bob}
  Second = bob
  Nobody = Nobody
  Sessions = {s1, s2}
  Requests = {r1, r2}
  Addresses = {a1}
  GivenRoles = {"reader", "admin"}
  Mistyped = {bob}
  MAX_ATTEMPTS = 1
  MAX_ATTEMPTS_PER_ADDRESS = 2
  MAX_REQUESTS_PER_ADDRESS = 2
  LINKS_PER_HOUR = 2
  MaxLinks = 2
  MaxPasswords = 3
SYMMETRY AccountsSymmetry
INVARIANTS AlwaysAnAdmin OneFounder LetInByItsPassword GuessesBounded EveryResetCostsALink
CHECK_DEADLOCK FALSE
