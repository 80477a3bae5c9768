---------------------------- MODULE CommandLine ----------------------------
(***************************************************************************)
(* The command line (source/config.cpp and main, source/main.cpp:1019): the *)
(* pull weights of the benchmark file, the arguments one after the other,   *)
(* the validation, and what is then run.  Fractions are percentages.  What  *)
(* a text stands for as a size, a fraction, a number or a specification is  *)
(* a table of the instance; a text that is not in it does not parse.        *)
(***************************************************************************)
EXTENDS Integers, Sequences, FiniteSets

CONSTANTS
  Tokens,       \* the arguments considered: [name, value], "" when it has none
  MaxArgs,      \* bound on argc - 1
  Files,        \* pull weights a config/m0-benchmarks.json can give, by vendor
  Size, Fraction, Number, FractionSpec, WeightSpec,
  HostAuto      \* what "auto" resolves to: host memory less a reserve

VARIABLES
  stage,        \* "load", "parse", "validate", "dispatch", then "leg" or "exit"
  cfg,          \* Config, without the fields the plan of a leg does not read
  positionals,
  given         \* arguments consumed

NotGiven == -1

ValueOptions ==
  {"--threads", "--pull-weights", "--disable-vendor", "--vram-fraction",
   "--device-vram-fraction", "--vram-budget", "--scratch", "--slab-size",
   "--host-tier-cap", "--devices", "--dump-map", "--gpu-search-device",
   "--sieve-device"}
Switches == {"--list-devices", "--no-host-tier", "--no-gpu", "--gpu-search"}

Config(slabDefault) ==
  [fraction |-> 90, fractions |-> << >>, budgetCap |-> NotGiven,
   scratch |-> NotGiven, slab |-> slabDefault, hasTierCap |-> FALSE,
   tierAuto |-> FALSE, tierCap |-> 0, noHostTier |-> FALSE, list |-> FALSE,
   only |-> "", disable |-> "", weights |-> << >>, noGpu |-> FALSE,
   sieveDevice |-> NotGiven]

\* The weights are loaded before the arguments are parsed.
LoadPullWeights ==
  /\ stage = "load"
  /\ \E file \in Files :
       /\ cfg' = [cfg EXCEPT !.weights = file]
       /\ stage' = IF \A v \in DOMAIN file : file[v] > 0 THEN "parse" ELSE "exit"
  /\ UNCHANGED <<positionals, given>>

-----------------------------------------------------------------------------
(* parseArgs *)

Text(token) == IF token.name = "" THEN token.value ELSE token.name

Positional ==
  /\ stage = "parse" /\ given < MaxArgs
  /\ \E t \in Tokens : t.name = "" /\ positionals' = Append(positionals, t.value)
  /\ given' = given + 1
  /\ UNCHANGED <<stage, cfg>>

WithSwitch(name) ==
  CASE name = "--list-devices" -> [cfg EXCEPT !.list = TRUE]
    [] name = "--no-host-tier" -> [cfg EXCEPT !.noHostTier = TRUE]
    [] name = "--no-gpu" -> [cfg EXCEPT !.noGpu = TRUE]
    [] name = "--gpu-search" -> cfg

Switch ==
  /\ stage = "parse" /\ given < MaxArgs
  /\ \E t \in Tokens : t.name \in Switches /\ cfg' = WithSwitch(t.name)
  /\ given' = given + 1
  /\ UNCHANGED <<stage, positionals>>

Accepts(name, text) ==
  \/ name = "--vram-fraction" /\ text \in DOMAIN Fraction
  \/ name = "--device-vram-fraction" /\ text \in DOMAIN FractionSpec
  \/ name = "--pull-weights" /\ text \in DOMAIN WeightSpec
  \/ name \in {"--vram-budget", "--scratch", "--slab-size"} /\ text \in DOMAIN Size
  \/ name = "--host-tier-cap" /\ text \in DOMAIN Size \union {"auto"}
  \/ name = "--devices" /\ text \in {"amd", "nvidia"}
  \/ name = "--disable-vendor" /\ text = "amd"
  \/ name \in {"--threads", "--gpu-search-device", "--sieve-device"}
       /\ text \in DOMAIN Number
  \/ name = "--dump-map"

\* A specification replaces the one before it, the one of the file included.
WithOption(name, text) ==
  CASE name = "--vram-fraction" -> [cfg EXCEPT !.fraction = Fraction[text]]
    [] name = "--device-vram-fraction" -> [cfg EXCEPT !.fractions = FractionSpec[text]]
    [] name = "--pull-weights" -> [cfg EXCEPT !.weights = WeightSpec[text]]
    [] name = "--vram-budget" -> [cfg EXCEPT !.budgetCap = Size[text]]
    [] name = "--scratch" -> [cfg EXCEPT !.scratch = Size[text]]
    [] name = "--slab-size" -> [cfg EXCEPT !.slab = Size[text]]
    [] name = "--host-tier-cap" ->
         IF text = "auto" THEN [cfg EXCEPT !.hasTierCap = TRUE, !.tierAuto = TRUE]
         ELSE [cfg EXCEPT !.hasTierCap = TRUE, !.tierCap = Size[text]]
    [] name = "--devices" -> [cfg EXCEPT !.only = text]
    [] name = "--disable-vendor" -> [cfg EXCEPT !.disable = text]
    [] name = "--sieve-device" -> [cfg EXCEPT !.sieveDevice = Number[text]]
    [] OTHER -> cfg

\* The value is what follows "=", or the next argument whatever it looks like.
Option ==
  /\ stage = "parse" /\ given < MaxArgs
  /\ \E t \in Tokens, next \in Tokens :
       LET inline == t.value # ""
           text == IF inline THEN t.value ELSE Text(next)
       IN /\ t.name \in ValueOptions
          /\ inline \/ given + 1 < MaxArgs
          /\ given' = given + (IF inline THEN 1 ELSE 2)
          /\ IF Accepts(t.name, text)
             THEN cfg' = WithOption(t.name, text) /\ UNCHANGED stage
             ELSE stage' = "exit" /\ UNCHANGED cfg
  /\ UNCHANGED positionals

\* An unknown option, or one whose value is missing at the end.
Usage ==
  /\ stage = "parse" /\ given < MaxArgs
  /\ \E t \in Tokens : \/ t.name \notin ValueOptions \union Switches \union {""}
                       \/ t.name \in ValueOptions /\ t.value = ""
  /\ stage' = "exit"
  /\ UNCHANGED <<cfg, positionals, given>>

EndOfArgs ==
  /\ stage = "parse"
  /\ stage' = "validate"
  /\ UNCHANGED <<cfg, positionals, given>>

-----------------------------------------------------------------------------
(* validateConfig, and main after it *)

InBand(f) == f >= 10 /\ f <= 100
SlabSizeValueAligned(bytes) == (bytes * 8) % 16 = 0

Valid ==
  /\ ~cfg.noGpu
  /\ InBand(cfg.fraction) /\ \A k \in DOMAIN cfg.fractions : InBand(cfg.fractions[k])
  /\ cfg.budgetCap # 0 /\ cfg.scratch # 0
  /\ cfg.slab # 0 /\ SlabSizeValueAligned(cfg.slab)

ValidateConfig ==
  /\ stage = "validate"
  /\ IF Valid
     THEN /\ cfg' = [cfg EXCEPT
                       !.tierCap = IF cfg.noHostTier THEN 0
                                   ELSE IF cfg.tierAuto THEN HostAuto ELSE @,
                       !.tierAuto = FALSE]
          /\ stage' = "dispatch"
     ELSE stage' = "exit" /\ UNCHANGED cfg
  /\ UNCHANGED <<positionals, given>>

\* A leg needs a positional argument; without one the smoke test is run.
Dispatch ==
  /\ stage = "dispatch"
  /\ stage' = IF \/ cfg.hasTierCap /\ cfg.noHostTier
                 \/ cfg.list
                 \/ positionals = << >>
              THEN "exit" ELSE "leg"
  /\ UNCHANGED <<cfg, positionals, given>>

Next ==
  \/ LoadPullWeights
  \/ Positional \/ Switch \/ Option \/ Usage \/ EndOfArgs
  \/ ValidateConfig \/ Dispatch
=============================================================================
