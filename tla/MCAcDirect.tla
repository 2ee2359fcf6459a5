---------------------------- MODULE MCAcDirect -----------------------------
(* Instances of AcDirect for TLC.                                          *)
EXTENDS AcDirect
All == KnownCommands
Thermostat == {"direct_on", "direct_off"}
=============================================================================
