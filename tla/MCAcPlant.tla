----------------------------- MODULE MCAcPlant -----------------------------
(* Instances of AcPlant for TLC.                                           *)
EXTENDS AcPlant, TLC

CONSTANTS u, f, p, q

NoObjects == {}
OneMode == {"cool"}
BothModes == {"cool", "heat"}
AllCommands == {"start", "force", "revoke", "pumps", "fans", "enable", "clear",
                "restart"}
PrimedCommands == {"start", "force", "revoke", "pumps", "clear", "mode", "restart"}
ModeCommands == {"start", "mode"}
SharedPump == [x \in {u, f} |-> p]
UnitPump == [x \in {u} |-> p]
UnitOrder == <<p, u>>
SharedOrder == <<f, p, u>>
PrimedOrder == <<q, p, u>>
NoPrimer == [x \in {} |-> p]
PrimerOfP == [x \in {p} |-> q]
=============================================================================
