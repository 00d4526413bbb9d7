---------------------------- MODULE MCDevicePanels -----------------------------
(* DevicePanels for TLC: three disks, two interfaces, two GPUs. *)
EXTENDS DevicePanels
=============================================================================
