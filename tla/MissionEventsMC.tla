--------------------------- MODULE MissionEventsMC ---------------------------
EXTENDS MissionEvents

NoPurpose == {}
=============================================================================
