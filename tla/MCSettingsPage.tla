--------------------------- MODULE MCSettingsPage ---------------------------
(* Two reads at a time: an older one and the newer one that overtakes it.   *)
EXTENDS SettingsPage
=============================================================================
