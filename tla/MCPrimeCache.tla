---------------------------- MODULE MCPrimeCache ----------------------------
(***************************************************************************)
(* The instance of PrimeCache for TLC: two units, and devices that are of    *)
(* one vendor in some behaviours and of two in others.  Two devices suffice  *)
(* to race; with three, a unit is shared while a device is alone in the      *)
(* other, and the cache is refilled by a device that is neither the one whose *)
(* upload failed nor the one the cache still names.                          *)
(***************************************************************************)
EXTENDS PrimeCache

CONSTANTS d1, d2, d3, amd, nvidia
=============================================================================
