--------------------------- MODULE MCInstanceReload ---------------------------
EXTENDS InstanceReload, TLC

\* The provider, on quiet nights, with edits and restarts, and with failures;
\* the lists and the settings.
Scenario(t, e, d) == [topic |-> t, events |-> e, days |-> d]
AllScenarios ==
  {Scenario("oidc", {}, 9),
   Scenario("oidc", {"edit", "slow"}, 3),
   Scenario("oidc", {"restart"}, 3),
   Scenario("oidc", {"edit", "due"}, 3),
   Scenario("oidc", {"fail"}, 3),
   Scenario("list", {"edit"}, 0),
   Scenario("setting", {"edit"}, 0),
   Scenario("list", {"edit", "overlap", "restart"}, 0)}
DueScenario == {Scenario("oidc", {"due"}, 3)}
SlowScenario == {Scenario("setting", {"edit", "slow"}, 0)}
=============================================================================
