--------------------------- MODULE MCAdminSessions ---------------------------
(* Instances of AdminSessions for TLC: every tab belongs to one browser.    *)
EXTENDS AdminSessionsProperties

CONSTANT browser

OneBrowser == [t \in Tabs |-> browser]

=============================================================================
