----------------------------- MODULE Assignment -----------------------------
(***************************************************************************)
(* assignHome and assignCaps (source/pull_scheduler.cpp): how many slabs    *)
(* each device keeps in its own memory, and how many it may pull.  Both     *)
(* take the floor of a proportional share and hand out the rest one by one  *)
(* to the device with the largest remainder.                                *)
(*                                                                          *)
(* A share is the rational numSlabs * part / total.  All the shares of one  *)
(* assignment have the same denominator, so a remainder is kept as its      *)
(* numerator.  Devices whose exact remainders are equal may compare either  *)
(* way after the rounding of the doubles: the top-up picks any of them.     *)
(***************************************************************************)
EXTENDS Integers, Sequences, FiniteSets

VARIABLES
  numSlabs,     \* slabs of the map
  slab,         \* bytes of a slab
  backing,      \* backing[d]: memory device d has for slabs
  weight,       \* weight[d]: its pull weight
  phase,        \* the loop being run, "idle" before the call
  home,         \* home[d]: slabs that live in d's memory
  cap,          \* cap[d]: slabs d may pull
  ownerOf       \* ownerOf[s]: the device slab s lives on, 0 when on none

call == <<numSlabs, slab, backing, weight>>

Devices == DOMAIN backing

Homeless == 0

\* The loops that add up a vector: sum[n] is what the first n entries come to.
PartialSums(f) ==
  LET sum[n \in 0 .. Len(f)] == IF n = 0 THEN 0 ELSE sum[n - 1] + f[n] IN sum
Total(f) == PartialSums(f)[Len(f)]

Smaller(x, y) == IF x <= y THEN x ELSE y

SlabCount(d) == backing[d] \div slab

\* Every device keeps room for one slab of staging.
CapHome(d) == IF SlabCount(d) > 1 THEN SlabCount(d) - 1 ELSE 0

\* The numerators of what device d's share exceeds its slabs by so far.
HomeRem ==
  [d \in Devices |-> numSlabs * backing[d] - home[d] * Total(backing)]
CapRem ==
  [d \in Devices |-> numSlabs * weight[d] - cap[d] * Total(weight)]

\* The members of S a scan for the largest remainder may stop at.  The scan
\* starts from -1.0, so it takes no device that is a whole slab over its share.
MutLargest(S, rem, whole) ==
  {d \in S : rem[d] > -whole /\ \A e \in S : rem[e] >= rem[d]}
Largest(S, rem, whole) ==
  {d \in S : rem[d] > -whole /\ \A e \in S : rem[e] <= rem[d]}

WithRoom == {d \in Devices : home[d] < CapHome(d)}

Candidates == Largest(WithRoom, HomeRem, Total(backing))

Init ==
  /\ phase = "idle"
  /\ numSlabs = 0 /\ slab = 0 /\ backing = << >> /\ weight = << >>
  /\ home = << >> /\ cap = << >> /\ ownerOf = << >>

\* The scheduler is called for a map of `bytes' bytes; no map has no slab.
Call(bytes, slabBytes, backings, weights) ==
  /\ phase = "idle" /\ phase' = "home"
  /\ slab' = slabBytes
  /\ numSlabs' = IF bytes = 0 THEN 1 ELSE (bytes + slabBytes - 1) \div slabBytes
  /\ backing' = backings /\ weight' = weights
  /\ home' = [d \in DOMAIN backings |-> 0]
  /\ cap' = [d \in DOMAIN backings |-> 0]
  /\ ownerOf' = [s \in 0 .. numSlabs' - 1 |-> Homeless]

FloorHomes ==
  /\ phase = "home"
  /\ home' = [d \in Devices |->
       Smaller((numSlabs * backing[d]) \div Total(backing), CapHome(d))]
  /\ phase' = "homeTopUp"
  /\ UNCHANGED <<call, cap, ownerOf>>

TopUpHome ==
  /\ phase = "homeTopUp"
  /\ Total(home) < numSlabs
  /\ \E d \in Candidates : home' = [home EXCEPT ![d] = @ + 1]
  /\ UNCHANGED <<call, phase, cap, ownerOf>>

\* Every slab has a home, or no candidate is left.
MutHomesAssigned ==
  /\ phase = "homeTopUp"
  /\ \/ Total(home) >= numSlabs /\ phase' = "cap"
     \/ Candidates = {} /\ UNCHANGED phase
  /\ UNCHANGED <<call, home, cap, ownerOf>>
HomesAssigned ==
  /\ phase = "homeTopUp"
  /\ Total(home) >= numSlabs \/ Candidates = {}
  /\ phase' = "cap"
  /\ UNCHANGED <<call, home, cap, ownerOf>>

\* numSlabs * (weight / total) is rounded twice: a share that is a whole number
\* may come out just below it.
FloorCaps ==
  /\ phase = "cap"
  /\ \E low \in SUBSET {d \in Devices :
                          (numSlabs * weight[d]) % Total(weight) = 0} :
       cap' = [d \in Devices |->
                 (numSlabs * weight[d]) \div Total(weight)
                   - (IF d \in low /\ numSlabs * weight[d] > 0 THEN 1 ELSE 0)]
  /\ phase' = "capTopUp"
  /\ UNCHANGED <<call, home, ownerOf>>

TopUpCap ==
  /\ phase = "capTopUp"
  /\ Total(cap) < numSlabs
  /\ \E d \in Largest(Devices, CapRem, Total(weight)) :
       cap' = [cap EXCEPT ![d] = @ + 1]
  /\ UNCHANGED <<call, phase, home, ownerOf>>

CapsAssigned ==
  /\ phase = "capTopUp"
  /\ Total(cap) >= numSlabs \/ Largest(Devices, CapRem, Total(weight)) = {}
  /\ phase' = "owners"
  /\ UNCHANGED <<call, home, cap, ownerOf>>

\* Device d is home to home[d] slabs from its homeBase on.
MutHomeBase(d) == PartialSums(home)[d]
HomeBase(d) == PartialSums(home)[d - 1]

SetOwners ==
  /\ phase = "owners"
  /\ ownerOf' = [s \in DOMAIN ownerOf |->
       LET at == {d \in Devices : s \in HomeBase(d) .. HomeBase(d) + home[d] - 1}
       IN IF at = {} THEN Homeless ELSE CHOOSE d \in at : TRUE]
  /\ phase' = "done"
  /\ UNCHANGED <<call, home, cap>>

Next ==
  \/ FloorHomes \/ TopUpHome \/ HomesAssigned
  \/ FloorCaps \/ TopUpCap \/ CapsAssigned
  \/ SetOwners

-----------------------------------------------------------------------------
(* Properties *)

\* The caps hand out exactly the slabs there are, which is what PullScheduler
\* assumes of them and why its workers drain the counter and then stop, and each
\* is its device's exact share rounded up or down: the largest-remainder rule
\* (pull_scheduler.h:64-68, pull_scheduler.cpp:129-132).
Tickets == {t \in Devices \X (0 .. numSlabs - 1) : t[2] < cap[t[1]]}
CapsFollowWeights ==
  phase = "done" =>
    /\ Cardinality(Tickets) = numSlabs
    /\ \A d \in Devices :
         CapRem[d] \in 1 - Total(weight) .. Total(weight) - 1

\* region[s - homeBase] is the buffer of every slab a device owns: its slabs
\* are home[d] consecutive ones from its base.
RegionsLineUp ==
  phase = "done" =>
    \A d \in Devices :
      {s \in DOMAIN ownerOf : ownerOf[s] = d}
        = HomeBase(d) .. HomeBase(d) + home[d] - 1
=============================================================================
