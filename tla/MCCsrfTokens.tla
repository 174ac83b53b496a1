----------------------------- MODULE MCCsrfTokens -----------------------------
(* Instances of CsrfTokens for TLC: every tab belongs to one browser.        *)
EXTENDS CsrfTokensProperties

CONSTANT browser

OneBrowser == [t \in Tabs |-> browser]

=============================================================================
