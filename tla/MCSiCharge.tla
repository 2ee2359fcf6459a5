----------------------------- MODULE MCSiCharge -----------------------------
(* Instances of SiCharge for TLC.                                          *)
EXTENDS SiCharge

AllFlags == KnownFlags

Backup == {"gen_enabled", "Grid", "cccv"}
GenOnly == {"gen_enabled", "ignore_gnrn", "Gen"}
Feeder == {"Grid", "feeding", "cccv", "cv_feed", "ce_feed"}
FeedsAlways == {"gen_enabled", "Gen", "Grid", "feeding", "charge_feed", "dyngrid"}
Follower == {"gen_enabled", "Grid", "sync", "grid_feed", "have_battery_temp"}

Wiring == {"lost", "offline", "restart"}
Outages == {"offline", "restart"}
Mishaps == {"late", "panel", "frost"}
Assigned == {"assign", "restart"}

Case(s, f) == [settings |-> s, faults |-> f]
AllCases ==
  {Case(s, f) : s \in {Backup, GenOnly}, f \in {{}, Wiring}}
  \cup {Case(Feeder, f) : f \in {{}, Outages}}
  \cup {Case(FeedsAlways, f) : f \in {Outages, Wiring}}
  \cup {Case(Follower, f) : f \in {{}, Mishaps}}
  \cup {Case(Backup, {"late", "panel"}), Case(Backup, Assigned), Case(Feeder, Assigned)}
=============================================================================
