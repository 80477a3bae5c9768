--------------------------- MODULE MCDeviceLayer ---------------------------
(***************************************************************************)
(* Machines of DeviceLayer for TLC: runtimes that see different cards, the  *)
(* same cards in another order, and one that sees some of the other's; one  *)
(* more card than MaxDevices.                                               *)
(***************************************************************************)
EXTENDS DeviceLayer

Machine(amd, nvidia) == [b \in Backends |-> IF b = "amd" THEN amd ELSE nvidia]

Apart == Machine(<<"01", "02">>, <<"03">>)
Shared == Machine(<<"01", "02">>, <<"02", "01">>)
Crowded == Machine(<<"01", "02", "03">>, <<"03", "01">>)
TheMachines == {Apart, Shared, Crowded}
=============================================================================
