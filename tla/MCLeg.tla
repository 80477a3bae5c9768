------------------------------- MODULE MCLeg -------------------------------
(***************************************************************************)
(* Instances of Leg for TLC: a machine with a small AMD device and two      *)
(* NVIDIA devices, three slabs, and command lines that bring up every       *)
(* device choice.                                                           *)
(***************************************************************************)
EXTENDS Leg, TLC

CONSTANTS a, n1, n2

Machine == <<a, n1, n2>>
Vendors == (a :> "amd") @@ (n1 :> "nvidia") @@ (n2 :> "nvidia")
Backings == (a :> 1) @@ (n1 :> 2) @@ (n2 :> 1)

Default == [only |-> None, disable |-> None, tier |-> None, dump |-> FALSE,
            gpuSearch |-> TRUE, residency |-> TRUE, searchDevice |-> None,
            sieveDevice |-> None]

CommandLines ==
  {Default,
   [Default EXCEPT !.gpuSearch = FALSE],
   [Default EXCEPT !.dump = TRUE],
   [Default EXCEPT !.residency = FALSE],
   [Default EXCEPT !.sieveDevice = 1],
   [Default EXCEPT !.sieveDevice = 2, !.searchDevice = 3],
   [Default EXCEPT !.searchDevice = 1],
   [Default EXCEPT !.only = "amd"],
   [Default EXCEPT !.only = "amd", !.tier = 1],
   [Default EXCEPT !.disable = "amd", !.tier = 0]}
=============================================================================
