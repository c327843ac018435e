--------------------------- MODULE MCSettingsStore ---------------------------
(* Bounded instances of SettingsStore.                                      *)
EXTENDS SettingsStore

CONSTANTS t1, t2
=============================================================================
