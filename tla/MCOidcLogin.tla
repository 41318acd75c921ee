----------------------------- MODULE MCOidcLogin -----------------------------
EXTENDS OidcLogin, TLC
CONSTANTS i1, i2

\* One login against everything that can disturb it; two logins that meet.
Alone(k) == [i \in Logins |-> IF i = i1 THEN k ELSE "absent"]
Together(k) == [i \in Logins |-> IF i = i1 THEN "plain" ELSE k]
Scenario(k, events) == [kind |-> k, calls |-> events]
AllScenarios ==
  {Scenario(Alone("matched"), {"fail", "again"}),
   Scenario(Alone("plain"), {"abort", "expire"}),
   Scenario(Together("plain"), {"logout"}),
   Scenario([i \in Logins |-> "matched"], {"logout"}),
   Scenario(Together("unmatched"), {"expire"})}
Symmetry == Permutations(Workers) \cup Permutations(Tokens) \cup Permutations(Requests)
=============================================================================
