------------------------- MODULE MCPresentationFlow -------------------------
EXTENDS PresentationFlow

Ends == {"request", "verified", "respond", "submit", "cancel"}

\* The events that can meet, in groups that leave the others out: the end of a
\* flow against the clock and the caches' time to live, against the retrieval
\* event and a subscriber, and against the notification of the responder.
AgainstTheClock == Ends \cup {"expire", "forget"}
Watched == Ends \cup {"retrieved", "resolve"}
Notified == {"cancel", "notify", "bounce", "update"}
AllScenarios == {AgainstTheClock, Watched, Notified}
OnlyTheClock == {AgainstTheClock}
OnlyWatched == {Watched}
=============================================================================
