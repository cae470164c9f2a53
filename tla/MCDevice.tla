------------------------------ MODULE MCDevice ------------------------------
(* Device with the three networks of the firmware. *)
EXTENDS Device

MCProfiles == {"meshstar", "meshcore", "meshtastic"}
MCSaved == {"scan", "meshtastic"}
=============================================================================
