----------------------------- MODULE MCShareLinks -----------------------------
(* Instances of ShareLinks for TLC.                                        *)
EXTENDS ShareLinksProperties

=============================================================================
