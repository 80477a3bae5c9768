------------------------------ MODULE SlabPlan ------------------------------
(***************************************************************************)
(* From the command line to the slabs of a leg: runLeg up to the sieve      *)
(* (source/main.cpp:221-483) with computeBudget (source/budget.cpp),        *)
(* computeLegGeometry (source/geometry.cpp) and the beginning of            *)
(* runPullScheduler.  CommandLine parses the arguments, Assignment places   *)
(* the slabs.  A device is [vendor, free]; memory is counted in bytes, with *)
(* the constants of budget.cpp scaled down, fractions are percentages and   *)
(* weights whole numbers.  No residency handoff is planned.                 *)
(***************************************************************************)
EXTENDS Integers, Sequences, FiniteSets

CONSTANTS
  Tokens, MaxArgs, Files, Size, Fraction, Number, FractionSpec, WeightSpec,
  HostAuto,
  Machines,     \* the devices an enumeration can return
  SlabDefault, Granularity, Headroom, ScratchCap

ASSUME TablesAssumption ==
  /\ \A text \in DOMAIN Size : Size[text] \in Nat
  /\ \A text \in DOMAIN Fraction : Fraction[text] \in Nat
  /\ \A text \in DOMAIN Number : Number[text] \in Nat
ASSUME SpecAssumption ==
  /\ \A text \in DOMAIN WeightSpec :
       \A v \in DOMAIN WeightSpec[text] : WeightSpec[text][v] \in Nat \ {0}
  /\ \A text \in DOMAIN FractionSpec :
       \A v \in DOMAIN FractionSpec[text] : FractionSpec[text][v] \in Nat
  /\ \A file \in Files : \A v \in DOMAIN file : file[v] \in Int
ASSUME MemoryAssumption ==
  /\ MaxArgs \in Nat /\ HostAuto \in Nat /\ Headroom \in Nat /\ ScratchCap \in Nat
  /\ SlabDefault \in Nat \ {0} /\ Granularity \in Nat \ {0}
ASSUME MachinesAssumption ==
  Machines \subseteq Seq([vendor : {"amd", "nvidia"}, free : Nat])

VARIABLES
  \* CommandLine; from "leg" the stages go on: "budgets", "narrow", "gate",
  \* "schedule", then "sieve", or "exit" when the leg is refused
  stage, cfg, positionals, given,
  devs,         \* the devices of the leg
  budgets,      \* aligned with devs
  aggregate,    \* aggregateBacking, of the devices there were then
  \* Assignment
  numSlabs, slab, backing, weight, phase, home, cap, ownerOf

lineVars == <<stage, cfg, positionals, given>>
planVars == <<numSlabs, slab, backing, weight, phase, home, cap, ownerOf>>
vars == <<lineVars, devs, budgets, aggregate, planVars>>

Line == INSTANCE CommandLine
Plan == INSTANCE Assignment

NotGiven == Line!NotGiven

Init ==
  /\ stage = "load" /\ cfg = Line!Config(SlabDefault)
  /\ positionals = << >> /\ given = 0
  /\ devs = << >> /\ budgets = << >> /\ aggregate = 0
  /\ Plan!Init

-----------------------------------------------------------------------------
(* The size of the leg *)

Lesser(a, b) == IF a < b THEN a ELSE b
Greater(a, b) == IF a > b THEN a ELSE b
Odd(n) == IF n % 2 = 0 THEN n + 1 ELSE n

\* strtoull: a text that is no number counts as 0.
Numeral(text) == IF text \in DOMAIN Number THEN Number[text] ELSE 0

SumStart == IF Len(positionals) > 1 THEN Odd(Numeral(positionals[1])) ELSE 5
SumLimit == Numeral(positionals[IF Len(positionals) > 1 THEN 2 ELSE 1])

\* The bytes of the internal map of a leg, of 30 values each; the canonical map
\* it stands for has 16 values to a byte.
InternalMapBytes(start, limit) ==
  LET last == Greater(limit, Greater(5, Odd(start)))
      maxGeneratedPrime == (last + 1) \div 2
      primeLimit == (maxGeneratedPrime * maxGeneratedPrime) \div 4 + 2
      mapBytes == (primeLimit + 15) \div 16
  IN (16 * mapBytes + 29) \div 30

MapBytes == InternalMapBytes(SumStart, SumLimit)

-----------------------------------------------------------------------------
(* The devices of the leg *)

Wanted(d) ==
  /\ cfg.only \in {"", d.vendor}
  /\ cfg.disable # d.vendor

\* The devices that are wanted, in the order of the machine.
Filtered(machine) ==
  LET kept == {i \in DOMAIN machine : Wanted(machine[i])}
  IN [k \in 1 .. Cardinality(kept) |->
        machine[CHOOSE i \in kept : Cardinality({j \in kept : j < i}) = k - 1]]

\* A leg with no device left is refused.
FilterDevices ==
  /\ stage = "leg"
  /\ \E machine \in Machines : devs' = Filtered(machine)
  /\ stage' = IF devs' = << >> THEN "exit" ELSE "budgets"
  /\ UNCHANGED <<cfg, positionals, given, budgets, aggregate, planVars>>

\* A device is named in --device-vram-fraction by its vendor, or by its index
\* among the devices of the leg.
IndexText == <<"0", "1", "2", "3", "4", "5", "6", "7">>
FractionFor(i) ==
  LET named == cfg.fractions
  IN CASE devs[i].vendor \in DOMAIN named -> named[devs[i].vendor]
       [] devs[i].vendor \notin DOMAIN named /\ IndexText[i] \in DOMAIN named ->
            named[IndexText[i]]
       [] OTHER -> cfg.fraction

\* The headroom and the scratch are set aside whatever is left for slabs.
MutBacking(budget, scratch) ==
  LET left == Greater(0, budget - scratch) IN left - (left % Granularity)
Backing(budget, scratch) ==
  LET left == Greater(0, budget - scratch - Headroom) IN left - (left % Granularity)

ComputeBudget(i) ==
  LET freeUsed == (FractionFor(i) * devs[i].free) \div 100
      budget == IF cfg.budgetCap = NotGiven THEN freeUsed
                ELSE Lesser(freeUsed, cfg.budgetCap)
      scratch == IF cfg.scratch = NotGiven
                 THEN Lesser((15 * budget) \div 100, ScratchCap) ELSE cfg.scratch
  IN [scratch |-> scratch, backing |-> Backing(budget, scratch)]

\* A device that has no room for one slab refuses the leg.
Budgets ==
  /\ stage = "budgets"
  /\ LET all == [i \in DOMAIN devs |-> ComputeBudget(i)]
     IN IF \E i \in DOMAIN devs : cfg.slab > all[i].backing
        THEN stage' = "exit" /\ UNCHANGED <<budgets, aggregate>>
        ELSE /\ stage' = "narrow" /\ budgets' = all
             /\ aggregate' = Plan!Total([i \in DOMAIN devs |-> all[i].backing])
  /\ UNCHANGED <<cfg, positionals, given, devs, planVars>>

\* --sieve-device keeps one device; what was added up stays as it is.
NarrowSieve ==
  /\ stage = "narrow"
  /\ LET keep == cfg.sieveDevice + 1
     IN CASE cfg.sieveDevice = NotGiven ->
               stage' = "gate" /\ UNCHANGED <<devs, budgets>>
          [] keep \in DOMAIN devs ->
               stage' = "gate" /\ devs' = <<devs[keep]>> /\ budgets' = <<budgets[keep]>>
          [] OTHER -> stage' = "exit" /\ UNCHANGED <<devs, budgets>>
  /\ UNCHANGED <<cfg, positionals, given, aggregate, planVars>>

\* The map has to fit the devices and the host tier, which is turned on for a
\* leg that needs it unless the command line says something of it.
ExplicitTierChoice == cfg.hasTierCap \/ cfg.noHostTier
MutAggregateGate ==
  /\ stage = "gate"
  /\ stage' = IF \/ aggregate + cfg.tierCap >= MapBytes
                 \/ aggregate + HostAuto >= MapBytes
              THEN "schedule" ELSE "exit"
  /\ UNCHANGED <<cfg, positionals, given, devs, budgets, aggregate, planVars>>
AggregateGate ==
  /\ stage = "gate"
  /\ stage' = IF \/ aggregate + cfg.tierCap >= MapBytes
                 \/ ~ExplicitTierChoice /\ aggregate + HostAuto >= MapBytes
              THEN "schedule" ELSE "exit"
  /\ UNCHANGED <<cfg, positionals, given, devs, budgets, aggregate, planVars>>

WeightFor(d) == IF d.vendor \in DOMAIN cfg.weights THEN cfg.weights[d.vendor] ELSE 1

\* The scheduler takes slabs of whole groups of eight bytes only.
Schedule ==
  /\ stage = "schedule"
  /\ IF cfg.slab % 8 # 0
     THEN stage' = "exit" /\ UNCHANGED planVars
     ELSE /\ stage' = "sieve"
          /\ Plan!Call(MapBytes, cfg.slab,
                       [i \in DOMAIN devs |-> budgets[i].backing],
                       [i \in DOMAIN devs |-> WeightFor(devs[i])])
  /\ UNCHANGED <<cfg, positionals, given, devs, budgets, aggregate>>

RunLeg ==
  \/ FilterDevices \/ Budgets \/ NarrowSieve \/ AggregateGate \/ Schedule

Assign == Plan!Next /\ UNCHANGED <<lineVars, devs, budgets, aggregate>>

Stop == (stage = "exit" \/ phase = "done") /\ UNCHANGED vars

Next ==
  \/ Line!Next /\ UNCHANGED <<devs, budgets, aggregate, planVars>>
  \/ RunLeg
  \/ Assign
  \/ Stop

Spec == Init /\ [][Next]_vars

\* The main thread runs on; nothing is waited for.
FairSpec == Spec /\ WF_vars(RunLeg) /\ WF_vars(Assign)

-----------------------------------------------------------------------------
(* Properties *)

\* What a device is given fits the memory the user allowed: its slabs at home,
\* the staging slab it pulls into when it may pull any, the scratch and the
\* headroom together are within the fraction of its free memory that was asked
\* for, and within the cap on the budget (budget.cpp:15-42,
\* pull_scheduler.cpp:82-127).  The chain is: fraction, cap, scratch, headroom,
\* granularity, the slab that must fit, the share, and the one slab held back.
Footprint(i) ==
  (home[i] + (IF cap[i] > 0 THEN 1 ELSE 0)) * slab + budgets[i].scratch + Headroom
FractionsAsked(i) ==
  IF devs[i].vendor \in DOMAIN cfg.fractions THEN {cfg.fractions[devs[i].vendor]}
  ELSE IF cfg.fractions = << >> THEN {cfg.fraction} ELSE {}
BudgetKept ==
  phase = "done" =>
    \A i \in DOMAIN devs :
      /\ \A f \in FractionsAsked(i) : Footprint(i) <= (f * devs[i].free) \div 100
      /\ cfg.budgetCap # NotGiven => Footprint(i) <= cfg.budgetCap

\* No sequence of options brings about a plan the scheduler was not written for,
\* or one the user excluded.  It is called with at least one slab, a positive
\* weight and room for a slab on every device, whole groups of eight bytes, on
\* devices the filters leave; and unless --sieve-device narrowed them the map
\* fits them and the host memory that was permitted, which is none after
\* --no-host-tier (config.cpp:361-470, main.cpp:412-483).
HostPermitted ==
  IF cfg.noHostTier THEN 0 ELSE IF cfg.hasTierCap THEN cfg.tierCap ELSE HostAuto
PlanIsLegal ==
  phase # "idle" =>
    /\ numSlabs >= 1 /\ slab % 8 = 0 /\ ~cfg.noGpu
    /\ \A i \in DOMAIN devs :
         /\ weight[i] > 0 /\ backing[i] >= slab
         /\ FractionFor(i) \in 10 .. 100
         /\ devs[i].vendor # cfg.disable /\ cfg.only \in {"", devs[i].vendor}
    /\ \/ cfg.sieveDevice # NotGiven
       \/ Plan!Total(backing) + HostPermitted >= MapBytes

\* The caps hand out exactly the slabs there are, each its device's exact share
\* rounded up or down (pull_scheduler.h:64-68, pull_scheduler.cpp:129-157), for
\* every leg the command line can ask for.
CapsFollowWeights == Plan!CapsFollowWeights

\* region[s - homeBase] is the buffer of every slab a device owns: its slabs
\* are home[d] consecutive ones from its base (pull_scheduler.cpp:169-182).
RegionsLineUp == Plan!RegionsLineUp

\* Every leg that is not refused gets its slabs placed: the loops that hand out
\* what the floors leave come to an end (pull_scheduler.cpp:104-124, 144-157).
Terminates == (phase = "home") ~> (phase = "done")
=============================================================================
