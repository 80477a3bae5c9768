----------------------------- MODULE MCSlabPlan -----------------------------
(***************************************************************************)
(* An instance of SlabPlan for TLC: four arguments at most, among them     *)
(* every option a plan reads, on machines of one to three devices.  Three   *)
(* leg sizes have maps of 8, 22 and 86 bytes, so that a leg fits one        *)
(* device, needs several, needs the host tier, or does not fit.             *)
(***************************************************************************)
EXTENDS SlabPlan, TLC

Arg(name, value) == [name |-> name, value |-> value]

MCTokens ==
  {Arg("", v) : v \in {"57", "101", "201"}}
    \union {Arg(n, "") : n \in {"--list-devices", "--no-host-tier", "--no-gpu",
                                "--dump-map", "--vram-fraction", "--bogus"}}
    \union {Arg("--slab-size", v) : v \in {"8", "4", "3"}}
    \union {Arg("--host-tier-cap", v) : v \in {"auto", "40"}}
    \union {Arg("--vram-budget", v) : v \in {"40", "0"}}
    \union {Arg("--vram-fraction", "0.5"), Arg("--device-vram-fraction", "nvidia=1"),
            Arg("--device-vram-fraction", "0=1.5"), Arg("--scratch", "4"),
            Arg("--pull-weights", "amd=3"), Arg("--devices", "amd"),
            Arg("--disable-vendor", "amd"), Arg("--sieve-device", "1")}

MCFiles == {<< >>, ("amd" :> 1) @@ ("nvidia" :> 3), "amd" :> 0}

MCSize == ("0" :> 0) @@ ("3" :> 3) @@ ("4" :> 4) @@ ("8" :> 8) @@ ("40" :> 40)
            @@ ("57" :> 57) @@ ("101" :> 101) @@ ("201" :> 201)
MCNumber == ("0" :> 0) @@ ("1" :> 1) @@ ("57" :> 57) @@ ("101" :> 101) @@ ("201" :> 201)
MCFraction ==
  ("0.5" :> 50) @@ ("57" :> 5700) @@ ("101" :> 10100) @@ ("201" :> 20100)
MCFractionSpec == ("nvidia=1" :> ("nvidia" :> 100)) @@ ("0=1.5" :> ("0" :> 150))
MCWeightSpec == "amd=3" :> ("amd" :> 3)

Device(vendor, free) == [vendor |-> vendor, free |-> free]

MCMachines ==
  {<<Device("amd", 60), Device("nvidia", 120)>>,
   <<Device("amd", 44), Device("nvidia", 60), Device("nvidia", 44)>>,
   <<Device("amd", 44), Device("amd", 120), Device("nvidia", 70)>>,
   <<Device("amd", 100), Device("nvidia", 120)>>,
   <<Device("nvidia", 30)>>}
=============================================================================
