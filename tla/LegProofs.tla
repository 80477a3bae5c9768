----------------------------- MODULE LegProofs -----------------------------
(***************************************************************************)
(* Theorems about a leg and about the test its searchers put to each sum.  *)
(*                                                                         *)
(* First those about Leg, for every machine, number of slabs, command line,*)
(* set of sums and set of failing calls; those about what is in the device *)
(* buffers assume that uploads succeed, whose results main.cpp drops.      *)
(*                                                                         *)
(* Then those about Freudenthal, for every leg and set of odd sums of it:  *)
(* that a trial counts a product exactly when Peter would know from it, and*)
(* that the list of small primes lasts.                                    *)
(***************************************************************************)
EXTENDS Leg, Freudenthal, ListLemmas

-----------------------------------------------------------------------------
(* The inductive invariant *)

Early == {"enumerate", "gate", "plan", "prepare", "sieve"}
Dumping == {"dump", "dumpJoin"}
Choosing == {"select", "allocMap"}
Attempt == Choosing \union {"allocRecords", "allocAtomic", "zero", "feed", "allocPrimes",
                            "launch", "kernel"}
Handing == {"copyBack", "emit", "free"}
OnCpu == {"spawn", "join", "cpu", "report"}

\* The types of the variables the theorems are about.
Typed ==
  /\ pc \in Places
  /\ allocs \in [Buffers -> 0 .. 1] /\ frees \in [Buffers -> 0 .. 1]
  /\ resident \in BOOLEAN
  /\ expander \in {"none", "running", "ended", "joined"}

\* Where the host map's layout is, place by place.
LayoutInv ==
  /\ pc \in Early => layout = "unwritten" /\ expander = "none"
  /\ pc \in Attempt \union Handing \union {"dump", "cleanup", "spawn"} =>
       layout = "wheel" /\ expander = "none"
  /\ pc \in {"dumpJoin", "join"} =>
       \/ expander = "running" /\ layout = "widening"
       \/ expander = "ended" /\ layout = "canonical"
  /\ pc \in {"cpu", "report"} => expander = "joined" /\ layout = "canonical"
  /\ pc \in Returns => expander # "running" /\ layout # "ruined"

\* A leg that dumps plans no search, so nothing is left resident for it.
DumpInv ==
  /\ planned # None => ~cfg.dump
  /\ resident => ~cfg.dump
  /\ pc \in Dumping => cfg.dump
  /\ pc \in Attempt \union Handing \union OnCpu \union {"cleanup"} => ~cfg.dump

\* Every buffer runLeg allocated is freed at one of two places, and the resident
\* map when residency ends.
Released == OnCpu \union Returns
FreeInv ==
  /\ \A b \in Buffers \ {"residentMap"} : frees[b] = IF pc \in Released THEN allocs[b] ELSE 0
  /\ resident => allocs["residentMap"] = 1
  /\ frees["residentMap"] = IF resident THEN 0 ELSE allocs["residentMap"]
  /\ pc \in Released \union {"emit", "free"} => ~resident
  /\ pc \notin Released \union {"emit", "free"} => frees["residentMap"] = 0
  /\ pc \in Early => ~resident

\* What the attempt has allocated when it gets to each of its calls.
AllocInv ==
  LET unallocated == Early \union Dumping \union Choosing IN
  /\ pc \in unallocated => allocs["ownMap"] = 0
  /\ pc \in Attempt \ Choosing => allocs["ownMap"] = IF UseResident THEN 0 ELSE 1
  /\ pc \in unallocated \union {"allocRecords"} => allocs["records"] = 0
  /\ pc \in unallocated \union {"allocRecords", "allocAtomic"} => allocs["atomic"] = 0
  /\ pc \in unallocated \union {"allocRecords", "allocAtomic", "zero", "feed", "allocPrimes"} =>
       allocs["primes"] = 0
  /\ pc \in Attempt \ (Choosing \union {"allocRecords"}) => allocs["records"] = 1
  /\ pc \in {"zero", "feed", "allocPrimes", "launch", "kernel"} => allocs["atomic"] = 1
  /\ pc \in {"launch", "kernel"} => allocs["primes"] = 1

LegInv == Typed /\ LayoutInv /\ DumpInv /\ FreeInv /\ AllocInv

\* What is in the buffers when uploads succeed, and what has been printed.
FeedInv ==
  /\ pc = "allocPrimes" => filled = Slabs
  /\ pc \in {"launch", "kernel"} => filled = Input
  /\ pc \in {"feed", "allocPrimes", "launch", "kernel"} => records = "zero"
  /\ pc \in Handing => records = "answers"
  /\ pc \notin Handing \union Returns => records # "answers"
  /\ pc \notin {"emit", "free"} \union Returns => hRecords = "zero"
  /\ pc \in {"emit", "free"} => hRecords \in {"zero", "answers"}
PrintInv ==
  /\ pc = "free" => out = IF hRecords = "answers" THEN Search!Answers ELSE << >>
  /\ pc = "report" => out = Search!Answers
  /\ pc \notin {"free", "report"} \union Returns => out = << >>

-----------------------------------------------------------------------------
(* Every step keeps it *)

\* The calls that end at one of a few places, and change no more than it says.
LEMMA LayoutStep ==
  ASSUME Typed, LayoutInv, [Next]_vars
  PROVE  LayoutInv'
<1> USE DEF Early, Choosing, Attempt, Handing, Returns
<1>1. CASE Enumerate \/ Gate \/ Plan \/ Prepare
  BY <1>1 DEF LayoutInv, Enumerate, Gate, Plan, Prepare, hostMap
<1>2. CASE Sieve
  BY <1>2 DEF LayoutInv, Sieve
<1>3. CASE Dump \/ SpawnExpansion
  BY <1>3 DEF LayoutInv, Dump, SpawnExpansion, StartExpansion
<1>4. CASE WriteDump \/ JoinExpansion
  BY <1>4 DEF LayoutInv, WriteDump, JoinExpansion
<1>5. CASE SelectDevice \/ AllocMap \/ AllocRecords \/ AllocAtomic \/ AllocPrimes
  BY <1>5 DEF LayoutInv, SelectDevice, AllocMap, AllocRecords, AllocAtomic, AllocPrimes,
              TryCall, hostMap
<1>6. CASE Zero \/ Feed \/ Launch \/ KernelEnds \/ CopyBack \/ Emit \/ FreeAll \/ CleanUp
  BY <1>6 DEF LayoutInv, Zero, Feed, Launch, KernelEnds, CopyBack, Emit, FreeAll, CleanUp,
              hostMap
<1>7. CASE CpuSearch \/ Report
  BY <1>7 DEF LayoutInv, CpuSearch, Report, hostMap
<1>8. CASE EndExpansion
  <2>1. pc \in {"dumpJoin", "join"} /\ pc' = pc
    BY <1>8 DEF EndExpansion, LayoutInv, Typed, Places, plan
  <2>2. QED BY <1>8, <2>1 DEF EndExpansion, LayoutInv
<1>9. CASE UNCHANGED vars
  BY <1>9 DEF vars, LayoutInv
<1>10. QED
  BY <1>1, <1>2, <1>3, <1>4, <1>5, <1>6, <1>7, <1>8, <1>9 DEF Next, Main, Exited

LEMMA DumpStep ==
  ASSUME Typed, DumpInv, FreeInv, [Next]_vars
  PROVE  DumpInv'
<1> USE DEF Early, Dumping, Choosing, Attempt, Handing, OnCpu, Returns, plan, sieved
<1>1. CASE Enumerate \/ Gate \/ Prepare
  <2>1. /\ pc' \notin Dumping \union Attempt \union Handing \union OnCpu \union {"cleanup"}
        /\ UNCHANGED <<cfg, planned, resident>>
    BY <1>1 DEF Enumerate, Gate, Prepare
  <2>2. QED BY <2>1 DEF DumpInv
<1>2. CASE Plan
  BY <1>2 DEF DumpInv, FreeInv, Plan
<1>3. CASE Sieve
  BY <1>3 DEF DumpInv, Sieve
<1>4. CASE Dump \/ SpawnExpansion \/ WriteDump \/ JoinExpansion
  BY <1>4 DEF DumpInv, Dump, SpawnExpansion, WriteDump, JoinExpansion
<1>5. CASE SelectDevice \/ AllocMap \/ AllocRecords \/ AllocAtomic \/ AllocPrimes
  BY <1>5 DEF DumpInv, SelectDevice, AllocMap, AllocRecords, AllocAtomic, AllocPrimes,
              TryCall
<1>6. CASE Zero \/ Feed \/ Launch \/ KernelEnds
  BY <1>6 DEF DumpInv, Zero, Feed, Launch, KernelEnds
<1>7. CASE CopyBack \/ Emit \/ FreeAll \/ CleanUp
  BY <1>7 DEF DumpInv, CopyBack, ReleaseResident, Emit, FreeAll, CleanUp
<1>8. CASE CpuSearch \/ Report \/ EndExpansion
  BY <1>8 DEF DumpInv, CpuSearch, Report, EndExpansion
<1>9. CASE UNCHANGED vars
  BY <1>9 DEF vars, DumpInv
<1>10. QED
  BY <1>1, <1>2, <1>3, <1>4, <1>5, <1>6, <1>7, <1>8, <1>9 DEF Next, Main, Exited

\* Freeing the buffers runLeg holds settles them, and no other.
LEMMA FreedOwned ==
  ASSUME Typed, \A b \in Buffers \ {"residentMap"} : frees[b] = 0,
         frees' = Freed(frees, Owned) \/ frees' = Freed(frees, Held)
  PROVE  /\ frees' \in [Buffers -> Int]
         /\ \A b \in Buffers \ {"residentMap"} : frees'[b] = allocs[b]
         /\ frees'["residentMap"] = IF resident /\ frees' = Freed(frees, Held)
                                    THEN frees["residentMap"] + 1 ELSE frees["residentMap"]
<1>1. /\ "residentMap" \in Buffers /\ "residentMap" \notin Owned
      /\ "residentMap" \in Held <=> resident
  BY DEF Buffers, Owned, Held
<1>2. ASSUME NEW b \in Buffers \ {"residentMap"}
      PROVE  /\ allocs[b] \in 0 .. 1
             /\ b \in Owned <=> allocs[b] = 1
             /\ b \in Held <=> allocs[b] = 1
  BY DEF Owned, Held, Typed
<1>3. frees \in [Buffers -> 0 .. 1]
  BY DEF Typed
<1>4. CASE frees' = Freed(frees, Owned)
  BY <1>1, <1>2, <1>3, <1>4 DEF Freed
<1>5. CASE frees' = Freed(frees, Held)
  BY <1>1, <1>2, <1>3, <1>5 DEF Freed
<1>6. QED BY <1>4, <1>5

\* releasePullScheduler frees the resident map if it is still held.
LEMMA FreedResident ==
  ASSUME Typed, ReleaseResident
  PROVE  /\ frees' \in [Buffers -> Int]
         /\ \A b \in Buffers \ {"residentMap"} : frees'[b] = frees[b]
         /\ frees'["residentMap"] = IF resident THEN frees["residentMap"] + 1
                                    ELSE frees["residentMap"]
  BY DEF Typed, ReleaseResident, Freed, Buffers

LEMMA FreeStep ==
  ASSUME Typed, DumpInv, FreeInv, AllocInv, [Next]_vars
  PROVE  FreeInv'
<1> USE DEF Early, Dumping, Choosing, Attempt, Handing, OnCpu, Returns, Released, sieved,
            memory
<1>1. ASSUME UNCHANGED <<memory, resident>>,
             pc \in Released \union {"emit", "free"} <=> pc' \in Released \union {"emit", "free"},
             pc \in Released <=> pc' \in Released,
             pc' \in Early => pc \in Early
      PROVE  FreeInv'
  BY <1>1 DEF FreeInv
<1>2. CASE Enumerate \/ Gate \/ Prepare
  <2>1. /\ pc \in Early /\ pc' \in Early \union {"return1"}
        /\ UNCHANGED <<allocs, frees, resident>>
    BY <1>2 DEF Enumerate, Gate, Prepare
  <2>2. \A b \in Buffers \ {"residentMap"} : allocs[b] = 0
    BY <2>1 DEF AllocInv, Buffers
  <2>3. QED BY <2>1, <2>2 DEF FreeInv
<1>3. CASE Plan \/ Dump \/ SelectDevice
  BY <1>1, <1>3 DEF Plan, Dump, SelectDevice
<1>4. CASE Sieve
  <2>1. /\ pc = "sieve" /\ ~resident /\ UNCHANGED frees
        /\ \A b \in Buffers \ {"residentMap"} : allocs[b] = 0 /\ frees[b] = 0
        /\ frees["residentMap"] = 0 /\ allocs["residentMap"] = 0
        /\ pc' \in {"return1", "dump", "select"}
    BY <1>4 DEF Sieve, AllocInv, FreeInv, Buffers
  <2>2. CASE pc' = "return1"
    BY <1>4, <2>1, <2>2 DEF Sieve, FreeInv
  <2>3. CASE UNCHANGED <<resident, allocs>>
    BY <2>1, <2>3 DEF FreeInv
  <2>4. CASE resident' = TRUE /\ allocs' = [allocs EXCEPT !["residentMap"] = 1] /\ pc' # "return1"
    <3>1. allocs'["residentMap"] = 1 /\ \A b \in Buffers \ {"residentMap"} : allocs'[b] = 0
      BY <2>1, <2>4 DEF Typed, Buffers
    <3>2. QED BY <2>1, <2>4, <3>1 DEF FreeInv
  <2>5. QED BY <1>4, <2>2, <2>3, <2>4 DEF Sieve
<1>5. CASE WriteDump
  <2>1. /\ pc = "dumpJoin" /\ ~resident /\ pc' \in Returns
        /\ UNCHANGED <<allocs, frees, resident>>
    BY <1>5 DEF WriteDump, DumpInv
  <2>2. \A b \in Buffers \ {"residentMap"} : allocs[b] = 0
    BY <2>1 DEF AllocInv, Buffers
  <2>3. QED BY <2>1, <2>2 DEF FreeInv
<1>6. CASE AllocMap \/ AllocRecords \/ AllocAtomic \/ AllocPrimes
  <2>1. /\ pc \in Attempt /\ pc' \in Attempt \union {"cleanup"}
        /\ UNCHANGED <<frees, resident>>
        /\ \/ UNCHANGED allocs
           \/ \E b \in Buffers \ {"residentMap"} : Allocate(b)
    BY <1>6 DEF AllocMap, AllocRecords, AllocAtomic, AllocPrimes, TryCall, Buffers
  <2>2. allocs'["residentMap"] = allocs["residentMap"]
    BY <2>1 DEF Allocate, Typed, Buffers
  <2>3. QED BY <2>1, <2>2 DEF FreeInv
<1>7. CASE Zero \/ Feed \/ Launch \/ KernelEnds
  BY <1>1, <1>7 DEF Zero, Feed, Launch, KernelEnds
<1>8. CASE CopyBack
  <2>1. ReleaseResident /\ UNCHANGED allocs /\ pc = "copyBack" /\ pc' = "emit"
    BY <1>8 DEF CopyBack
  <2>2. /\ \A b \in Buffers \ {"residentMap"} : frees'[b] = frees[b]
        /\ frees'["residentMap"] = IF resident THEN frees["residentMap"] + 1
                                   ELSE frees["residentMap"]
    BY <2>1, FreedResident
  <2>3. ~resident'
    BY <2>1 DEF ReleaseResident
  <2>4. QED BY <2>1, <2>2, <2>3 DEF FreeInv
<1>9. CASE FreeAll
  <2>1. \A b \in Buffers \ {"residentMap"} : frees[b] = 0
    BY <1>9 DEF FreeAll, FreeInv
  <2>2. ~resident
    BY <1>9 DEF FreeAll, FreeInv
  <2>3. /\ \A b \in Buffers \ {"residentMap"} : frees'[b] = allocs[b]
        /\ frees'["residentMap"] = frees["residentMap"]
    BY <1>9, <2>1, <2>2, FreedOwned DEF FreeAll
  <2>4. QED BY <1>9, <2>2, <2>3 DEF FreeAll, FreeInv
<1>10. CASE CleanUp
  <2>1. \A b \in Buffers \ {"residentMap"} : frees[b] = 0
    BY <1>10 DEF CleanUp, FreeInv
  <2>2. /\ \A b \in Buffers \ {"residentMap"} : frees'[b] = allocs[b]
        /\ frees'["residentMap"] = IF resident THEN frees["residentMap"] + 1
                                   ELSE frees["residentMap"]
    BY <1>10, <2>1, FreedOwned DEF CleanUp
  <2>3. QED BY <1>10, <2>2 DEF CleanUp, FreeInv
<1>11. CASE Emit \/ SpawnExpansion \/ JoinExpansion \/ CpuSearch \/ Report \/ EndExpansion
  BY <1>1, <1>11 DEF Emit, SpawnExpansion, JoinExpansion, CpuSearch, Report, EndExpansion
<1>12. CASE UNCHANGED vars
  BY <1>1, <1>12 DEF vars
<1>13. QED
  BY <1>2, <1>3, <1>4, <1>5, <1>6, <1>7, <1>8, <1>9, <1>10, <1>11, <1>12
     DEF Next, Main, Exited

LEMMA AllocStep ==
  ASSUME Typed, FreeInv, AllocInv, [Next]_vars
  PROVE  AllocInv'
<1> USE DEF Early, Dumping, Choosing, Attempt, Handing, OnCpu, Returns, Buffers
<1>1. CASE Enumerate \/ Gate \/ Prepare
  <2>1. /\ pc \in Early /\ pc' \in Early \union {"return1"} /\ UNCHANGED allocs
    BY <1>1 DEF Enumerate, Gate, Prepare, memory
  <2>2. QED BY <2>1 DEF AllocInv
<1>2. CASE Plan \/ Dump \/ SelectDevice \/ WriteDump
  <2>1. /\ pc \in Early \union Dumping \union {"select"}
        /\ pc' \in Early \union Dumping \union Returns \union {"allocMap", "cleanup"}
        /\ UNCHANGED allocs
    BY <1>2 DEF Plan, Dump, SelectDevice, WriteDump, memory
  <2>2. QED BY <2>1 DEF AllocInv
<1>3. CASE Sieve
  <2>1. pc = "sieve" /\ pc' \in {"return1", "dump", "select"}
    BY <1>3 DEF Sieve
  <2>2. \A b \in Buffers \ {"residentMap"} : allocs'[b] = allocs[b]
    BY <1>3 DEF Sieve, Typed
  <2>3. QED BY <2>1, <2>2 DEF AllocInv
<1>4. CASE AllocMap
  <2>1. CASE UseResident
    BY <1>4, <2>1 DEF AllocMap, AllocInv, UseResident, plan, sieved
  <2>2. CASE ~UseResident
    <3>1. ~UseResident'
      BY <1>4, <2>2 DEF AllocMap, UseResident, plan, sieved
    <3>2. QED BY <1>4, <2>2, <3>1 DEF AllocMap, TryCall, Allocate, AllocInv, Typed
  <2>3. QED BY <2>1, <2>2
<1>5. CASE AllocRecords \/ AllocAtomic \/ AllocPrimes
  <2>1. UseResident' = UseResident
    BY <1>5 DEF AllocRecords, AllocAtomic, AllocPrimes, UseResident, plan, sieved
  <2>2. CASE AllocRecords
    BY <2>1, <2>2 DEF AllocRecords, TryCall, Allocate, AllocInv, Typed
  <2>3. CASE AllocAtomic
    BY <2>1, <2>3 DEF AllocAtomic, TryCall, Allocate, AllocInv, Typed
  <2>4. CASE AllocPrimes
    BY <2>1, <2>4 DEF AllocPrimes, Allocate, AllocInv, Typed
  <2>5. QED BY <1>5, <2>2, <2>3, <2>4
<1>6. CASE Zero \/ Feed \/ Launch \/ KernelEnds
  <2>1. UNCHANGED <<allocs, resident, planned, gpu>>
    BY <1>6 DEF Zero, Feed, Launch, KernelEnds, memory, plan, sieved
  <2>2. UseResident' = UseResident
    BY <2>1 DEF UseResident
  <2>3. QED BY <1>6, <2>1, <2>2 DEF Zero, Feed, Launch, KernelEnds, AllocInv
<1>7. CASE \/ CopyBack \/ Emit \/ FreeAll \/ CleanUp \/ SpawnExpansion \/ JoinExpansion
           \/ CpuSearch \/ Report
  BY <1>7 DEF CopyBack, Emit, FreeAll, CleanUp, SpawnExpansion, JoinExpansion, CpuSearch,
              Report, AllocInv
<1>8. CASE EndExpansion \/ UNCHANGED vars
  <2>1. UNCHANGED <<pc, allocs, resident, planned, gpu>>
    BY <1>8 DEF EndExpansion, vars, memory, plan, sieved
  <2>2. QED BY <2>1 DEF AllocInv, UseResident
<1>9. QED
  BY <1>1, <1>2, <1>3, <1>4, <1>5, <1>6, <1>7, <1>8 DEF Next, Main, Exited

LEMMA TypedStep ==
  ASSUME LegInv, [Next]_vars
  PROVE  Typed'
<1> USE DEF LegInv, Typed
<1>1. pc' \in Places
  <2>1. Returns \subseteq Places
    BY DEF Places
  <2>2. CASE Enumerate \/ Gate \/ Plan \/ Prepare \/ Sieve \/ Dump \/ WriteDump
    BY <2>1, <2>2 DEF Enumerate, Gate, Plan, Prepare, Sieve, Dump, WriteDump, Returns, Places
  <2>3. CASE SelectDevice \/ AllocMap \/ AllocRecords \/ AllocAtomic \/ AllocPrimes
    BY <2>3 DEF SelectDevice, AllocMap, AllocRecords, AllocAtomic, AllocPrimes, TryCall, Places
  <2>4. CASE Zero \/ Feed \/ Launch \/ KernelEnds \/ CopyBack \/ Emit
    BY <2>4 DEF Zero, Feed, Launch, KernelEnds, CopyBack, Emit, Places
  <2>5. CASE FreeAll \/ CleanUp \/ SpawnExpansion \/ JoinExpansion \/ CpuSearch \/ Report
    BY <2>5 DEF FreeAll, CleanUp, SpawnExpansion, JoinExpansion, CpuSearch, Report, Returns,
                Places
  <2>6. CASE EndExpansion \/ UNCHANGED vars
    BY <2>6 DEF EndExpansion, vars, plan
  <2>7. QED BY <2>2, <2>3, <2>4, <2>5, <2>6 DEF Next, Main, Exited
<1>2. /\ resident' \in BOOLEAN
      /\ expander' \in {"none", "running", "ended", "joined"}
  <2>1. CASE Enumerate \/ Gate \/ Plan \/ Prepare \/ Sieve \/ Dump \/ WriteDump
    BY <2>1 DEF Enumerate, Gate, Plan, Prepare, Sieve, Dump, WriteDump, StartExpansion,
                sieved, hostMap
  <2>2. CASE SelectDevice \/ AllocMap \/ AllocRecords \/ AllocAtomic \/ AllocPrimes
    BY <2>2 DEF SelectDevice, AllocMap, AllocRecords, AllocAtomic, AllocPrimes, sieved, hostMap
  <2>3. CASE Zero \/ Feed \/ Launch \/ KernelEnds \/ CopyBack \/ Emit
    BY <2>3 DEF Zero, Feed, Launch, KernelEnds, CopyBack, ReleaseResident, Emit, sieved, hostMap
  <2>4. CASE FreeAll \/ CleanUp \/ SpawnExpansion \/ JoinExpansion \/ CpuSearch \/ Report
    BY <2>4 DEF FreeAll, CleanUp, SpawnExpansion, StartExpansion, JoinExpansion, CpuSearch,
                Report, sieved, hostMap
  <2>5. CASE EndExpansion \/ UNCHANGED vars
    BY <2>5 DEF EndExpansion, vars, sieved
  <2>6. QED BY <2>1, <2>2, <2>3, <2>4, <2>5 DEF Next, Main, Exited
<1>3. allocs' \in [Buffers -> 0 .. 1]
  <2>1. ASSUME NEW b \in Buffers, allocs[b] = 0, Allocate(b) PROVE allocs' \in [Buffers -> 0 .. 1]
    BY <2>1 DEF Allocate
  <2>2. CASE Sieve
    BY <2>2 DEF Sieve
  <2>3. CASE UNCHANGED allocs
    BY <2>3
  <2>4. CASE AllocMap \/ AllocRecords \/ AllocAtomic \/ AllocPrimes
    BY <2>1, <2>3, <2>4 DEF AllocMap, AllocRecords, AllocAtomic, AllocPrimes, TryCall, AllocInv,
                     Buffers, Choosing
  <2>5. ~Sieve /\ ~(AllocMap \/ AllocRecords \/ AllocAtomic \/ AllocPrimes) => UNCHANGED allocs
    <3>1. CASE Enumerate \/ Gate \/ Plan \/ Prepare \/ Dump \/ WriteDump \/ SelectDevice
      BY <3>1 DEF Enumerate, Gate, Plan, Prepare, Dump, WriteDump, SelectDevice, memory
    <3>2. CASE Zero \/ Feed \/ Launch \/ KernelEnds \/ CopyBack \/ Emit
      BY <3>2 DEF Zero, Feed, Launch, KernelEnds, CopyBack, Emit, memory
    <3>3. CASE FreeAll \/ CleanUp \/ SpawnExpansion \/ JoinExpansion \/ CpuSearch \/ Report
      BY <3>3 DEF FreeAll, CleanUp, SpawnExpansion, JoinExpansion, CpuSearch, Report, memory
    <3>4. CASE EndExpansion \/ UNCHANGED vars
      BY <3>4 DEF EndExpansion, vars, memory
    <3>5. QED BY <3>1, <3>2, <3>3, <3>4 DEF Next, Main, Exited
  <2>6. QED BY <2>2, <2>3, <2>4, <2>5
<1>4. frees' \in [Buffers -> 0 .. 1]
  <2>1. frees' \in [Buffers -> Int]
    <3>1. CASE CopyBack
      BY <3>1, FreedResident DEF CopyBack
    <3>2. CASE FreeAll \/ CleanUp
      <4>1. \A b \in Buffers \ {"residentMap"} : frees[b] = 0
        BY <3>2 DEF FreeAll, CleanUp, FreeInv, Released, OnCpu, Returns
      <4>2. frees' = Freed(frees, Owned) \/ frees' = Freed(frees, Held)
        BY <3>2 DEF FreeAll, CleanUp
      <4>3. QED BY <4>1, <4>2, FreedOwned
    <3>3. ~CopyBack /\ ~(FreeAll \/ CleanUp) => UNCHANGED frees
      <4>1. CASE Enumerate \/ Gate \/ Plan \/ Prepare \/ Sieve \/ Dump \/ WriteDump
        BY <4>1 DEF Enumerate, Gate, Plan, Prepare, Sieve, Dump, WriteDump, memory
      <4>2. CASE SelectDevice \/ AllocMap \/ AllocRecords \/ AllocAtomic \/ AllocPrimes
        BY <4>2 DEF SelectDevice, AllocMap, AllocRecords, AllocAtomic, AllocPrimes, memory
      <4>3. CASE Zero \/ Feed \/ Launch \/ KernelEnds \/ Emit \/ SpawnExpansion
        BY <4>3 DEF Zero, Feed, Launch, KernelEnds, Emit, SpawnExpansion, memory
      <4>4. CASE JoinExpansion \/ CpuSearch \/ Report \/ EndExpansion \/ UNCHANGED vars
        BY <4>4 DEF JoinExpansion, CpuSearch, Report, EndExpansion, vars, memory
      <4>5. QED BY <4>1, <4>2, <4>3, <4>4 DEF Next, Main, Exited
    <3>4. QED BY <3>1, <3>2, <3>3
  <2>2. FreeInv'
    BY FreeStep
  <2>3. \A b \in Buffers : frees'[b] \in 0 .. 1
    <3> TAKE b \in Buffers
    <3>1. allocs'[b] \in 0 .. 1
      BY <1>3
    <3>2. CASE b = "residentMap"
      BY <2>2, <3>1, <3>2 DEF FreeInv
    <3>3. CASE b # "residentMap"
      BY <2>2, <3>1, <3>3 DEF FreeInv
    <3>4. QED BY <3>2, <3>3
  <2>4. QED BY <2>1, <2>3
<1>5. QED BY <1>1, <1>2, <1>3, <1>4

LEMMA LegStep == LegInv /\ [Next]_vars => LegInv'
  BY TypedStep, LayoutStep, DumpStep, FreeStep, AllocStep DEF LegInv

LEMMA InitLeg == Init => LegInv
<1> SUFFICES ASSUME Init PROVE LegInv
  OBVIOUS
<1>1. pc = "enumerate" /\ layout = "unwritten" /\ expander = "none" /\ planned = None
  BY DEF Init
<1>2. resident = FALSE /\ \A b \in Buffers : allocs[b] = 0 /\ frees[b] = 0
  BY DEF Init
<1>3. Typed
  <2>1. allocs \in [Buffers -> 0 .. 1] /\ frees \in [Buffers -> 0 .. 1]
    BY DEF Init
  <2>2. QED BY <1>1, <1>2, <2>1 DEF Typed, Places
<1>4. LayoutInv /\ DumpInv
  BY <1>1, <1>2 DEF LayoutInv, DumpInv, Early, Dumping, Choosing, Attempt, Handing, OnCpu, Returns
<1>5. FreeInv /\ AllocInv
  BY <1>1, <1>2 DEF FreeInv, AllocInv, Early, Dumping, Choosing, Attempt, Handing, OnCpu,
                    Returns, Released, Buffers
<1>6. QED BY <1>3, <1>4, <1>5 DEF LegInv

-----------------------------------------------------------------------------
(* The host map and the device buffers, whatever fails *)

\* The inductive invariant holds in every reachable state.
THEOREM LegInvariance == Spec => []LegInv
  BY InitLeg, LegStep, PTL DEF Spec

\* Whatever fails and whichever device searches, no reader of the host map finds
\* it in the other layout or while it is being widened, and no path widens it
\* twice (main.cpp:846-867).
THEOREM LayoutIsRight == Spec => []RightLayout
<1>1. LegInv => RightLayout
  BY DEF LegInv, Typed, Places, LayoutInv, RightLayout, Early, Attempt, Choosing, Handing, Returns
<1>2. QED BY LegInvariance, <1>1, PTL

\* Every device buffer is freed once on every path out of runLeg, and a borrowed
\* map by the scheduler alone (main.cpp:979-989).
THEOREM BuffersFreedOnce == Spec => []FreedOnce
<1>1. ASSUME LegInv PROVE FreedOnce
  <2>1. ASSUME NEW b \in Buffers
        PROVE  frees[b] <= allocs[b] /\ (pc \in Returns => frees[b] = allocs[b])
    <3>1. allocs[b] \in 0 .. 1
      BY <1>1 DEF LegInv, Typed
    <3>2. QED BY <1>1, <3>1 DEF LegInv, FreeInv, Released
  <2>2. frees \in [Buffers -> 0 .. 1] /\ allocs \in [Buffers -> 0 .. 1]
    BY <1>1 DEF LegInv, Typed
  <2>3. QED BY <2>1, <2>2 DEF FreedOnce
<1>2. QED BY LegInvariance, <1>1, PTL

\* While the kernel runs nothing it reads or writes has been freed, whether the
\* map is runLeg's own or the scheduler's (main.cpp:697-699, 931-933).
THEOREM InputOutlives == Spec => []InputOutlivesKernel
<1>1. ASSUME LegInv, pc = "kernel"
      PROVE  \A b \in {MapRead, "records", "atomic", "primes"} : allocs[b] = 1 /\ frees[b] = 0
  <2>1. /\ \A b \in Buffers \ {"residentMap"} : frees[b] = 0
        /\ frees["residentMap"] = 0
        /\ frees["residentMap"] = IF resident THEN 0 ELSE allocs["residentMap"]
        /\ resident => allocs["residentMap"] = 1
    BY <1>1 DEF LegInv, FreeInv, Released, OnCpu, Returns
  <2>2. /\ allocs["ownMap"] = IF UseResident THEN 0 ELSE 1
        /\ allocs["records"] = 1 /\ allocs["atomic"] = 1 /\ allocs["primes"] = 1
    BY <1>1 DEF LegInv, AllocInv, Attempt, Choosing
  <2>3. allocs[MapRead] = 1 /\ MapRead \in Buffers
    BY <2>1, <2>2 DEF MapRead, UseResident, Buffers
  <2>4. QED BY <2>1, <2>2, <2>3 DEF Buffers
<1>2. LegInv => InputOutlivesKernel
  BY <1>1 DEF InputOutlivesKernel
<1>3. QED BY LegInvariance, <1>2, PTL

-----------------------------------------------------------------------------
(* What the kernel reads and what is printed, when no upload is lost *)

UploadsSucceed == "h2d" \notin Faults

LEMMA FeedStep ==
  ASSUME UploadsSucceed, Typed, FeedInv, [Next]_vars
  PROVE  FeedInv'
<1> USE DEF Handing, OnCpu, Returns, feed
<1>1. CASE \/ Enumerate \/ Gate \/ Plan \/ Prepare \/ Sieve \/ Dump \/ WriteDump
           \/ SelectDevice
  <2>1. /\ pc' \in {"gate", "plan", "prepare", "sieve", "dump", "dumpJoin", "select",
                    "cleanup", "allocMap", "return0", "return1"}
        /\ pc \in {"enumerate", "gate", "plan", "prepare", "sieve", "dump", "dumpJoin",
                   "select"}
        /\ UNCHANGED <<filled, records, hRecords>>
    BY <1>1 DEF Enumerate, Gate, Plan, Prepare, Sieve, Dump, WriteDump, SelectDevice
  <2>2. QED BY <2>1 DEF FeedInv
<1>2. CASE AllocMap \/ AllocRecords \/ AllocAtomic
  <2>1. /\ pc' \in {"allocRecords", "allocAtomic", "zero", "cleanup"}
        /\ pc \in {"allocMap", "allocRecords", "allocAtomic"}
        /\ UNCHANGED <<records, hRecords>>
    BY <1>2 DEF AllocMap, AllocRecords, AllocAtomic, TryCall
  <2>2. QED BY <2>1 DEF FeedInv
<1>3. CASE Zero
  <2>1. records' = "zero"
    BY <1>3 DEF Zero, Copied, UploadsSucceed
  <2>2. QED BY <1>3, <2>1 DEF Zero, FeedInv
<1>4. CASE Feed
  <2>1. filled' = Slabs \ {} /\ pc = "feed" /\ pc' = "allocPrimes" /\ UNCHANGED <<records, hRecords>>
    BY <1>4 DEF Feed, UploadsSucceed
  <2>2. QED BY <2>1 DEF FeedInv
<1>5. CASE AllocPrimes
  <2>1. pc' = "launch" => filled' = Input
    BY <1>5 DEF AllocPrimes, Copied, UploadsSucceed, FeedInv, Input
  <2>2. QED BY <1>5, <2>1 DEF AllocPrimes, FeedInv
<1>6. CASE Launch
  BY <1>6 DEF Launch, FeedInv
<1>7. CASE KernelEnds
  BY <1>7 DEF KernelEnds, FeedInv
<1>8. CASE CopyBack
  BY <1>8 DEF CopyBack, FeedInv
<1>9. CASE Emit \/ FreeAll
  BY <1>9 DEF Emit, FreeAll, FeedInv
<1>10. CASE CleanUp \/ SpawnExpansion \/ JoinExpansion \/ CpuSearch \/ Report
  <2>1. /\ pc' \in OnCpu \union {"return0"} /\ pc \in OnCpu \union {"cleanup"}
        /\ UNCHANGED <<filled, records, hRecords>>
    BY <1>10 DEF CleanUp, SpawnExpansion, JoinExpansion, CpuSearch, Report
  <2>2. QED BY <2>1 DEF FeedInv
<1>11. CASE EndExpansion \/ UNCHANGED vars
  BY <1>11 DEF EndExpansion, vars, FeedInv
<1>12. QED
  BY <1>1, <1>2, <1>3, <1>4, <1>5, <1>6, <1>7, <1>8, <1>9, <1>10, <1>11
     DEF Next, Main, Exited

\* The instance counts as this module does.
LEMMA SameCardinality ==
  ASSUME NEW S
  PROVE  Search!Cardinality(S) = Cardinality(S)
  BY Zenon DEF Search!Cardinality, Cardinality

\* The answers are a sequence.
LEMMA AnswersAreASequence ==
  /\ Cardinality(Sums) \in Nat
  /\ Search!Answers \in Seq({Search!Answers[i] : i \in 1 .. Cardinality(Sums)})
  /\ Len(Search!Answers) = Cardinality(Sums)
  /\ << >> \o Search!Answers = Search!Answers
  /\ SubSeq(Search!Answers, 1, Len(Search!Answers)) = Search!Answers
  /\ Len(Search!Answers) = 0 => Search!Answers = << >>
<1> DEFINE A == Search!Answers
           R == {A[i] : i \in 1 .. Cardinality(Sums)}
<1>1. Cardinality(Sums) \in Nat
  BY FS_CardinalityType, SumsAssumption
<1>2. DOMAIN A = 1 .. Cardinality(Sums) /\ A = [i \in 1 .. Cardinality(Sums) |-> A[i]]
  <2> DEFINE F(i) == CHOOSE s \in Sums : Search!Cardinality({r \in Sums : r < s}) = i - 1
  <2>1. A = [i \in 1 .. Cardinality(Sums) |-> F(i)]
    BY SameCardinality DEF Search!Answers
  <2> HIDE DEF A, F
  <2>2. QED BY <2>1
<1>3. A \in Seq(R) /\ Len(A) = Cardinality(Sums)
  <2> HIDE DEF A
  <2>1. QED BY <1>1, <1>2
<1>4. /\ << >> \o A = A
      /\ SubSeq(A, 1, Len(A)) = A
      /\ Len(A) = 0 => A = << >>
  <2> HIDE DEF A, R
  <2>1. QED BY <1>3
<1>5. QED BY <1>1, <1>3, <1>4

LEMMA PrintStep ==
  ASSUME UploadsSucceed, Typed, FeedInv, PrintInv, [Next]_vars
  PROVE  PrintInv'
<1> USE DEF Returns
<1>1. CASE Emit
  BY <1>1 DEF Emit, PrintInv, feed
<1>2. CASE CpuSearch
  BY <1>2, AnswersAreASequence DEF CpuSearch, PrintInv
<1>3. CASE ~Emit /\ ~CpuSearch
  <2>1. /\ UNCHANGED out
        /\ pc' \in {"free", "report"} => pc' = pc /\ UNCHANGED hRecords
        /\ pc \in {"free", "report"} \union Returns =>
             pc' \in {"free", "report"} \union Returns
    <3>1. CASE Enumerate \/ Gate \/ Plan \/ Prepare \/ Sieve \/ Dump \/ WriteDump
      BY <3>1 DEF Enumerate, Gate, Plan, Prepare, Sieve, Dump, WriteDump
    <3>2. CASE SelectDevice \/ AllocMap \/ AllocRecords \/ AllocAtomic \/ AllocPrimes
      BY <3>2 DEF SelectDevice, AllocMap, AllocRecords, AllocAtomic, AllocPrimes, TryCall
    <3>3. CASE Zero \/ Feed \/ Launch \/ KernelEnds \/ CopyBack
      BY <3>3 DEF Zero, Feed, Launch, KernelEnds, CopyBack
    <3>4. CASE FreeAll \/ CleanUp \/ SpawnExpansion \/ JoinExpansion \/ Report
      BY <3>4 DEF FreeAll, CleanUp, SpawnExpansion, JoinExpansion, Report
    <3>5. CASE EndExpansion \/ UNCHANGED vars
      BY <3>5 DEF EndExpansion, vars, plan, feed
    <3>6. QED BY <1>3, <3>1, <3>2, <3>3, <3>4, <3>5 DEF Next, Main, Exited
  <2>2. QED BY <2>1 DEF PrintInv
<1>4. QED BY <1>1, <1>2, <1>3

\* Every reachable state of a leg whose uploads succeed.
SearchInv == LegInv /\ FeedInv /\ PrintInv

LEMMA SearchInvariance ==
  ASSUME UploadsSucceed
  PROVE  Spec => []SearchInv
<1>1. Init => SearchInv
  <2>1. Init => FeedInv /\ PrintInv
    BY DEF Init, FeedInv, PrintInv, Handing, OnCpu, Returns
  <2>2. QED BY <2>1, InitLeg DEF SearchInv
<1>2. SearchInv /\ [Next]_vars => SearchInv'
  BY LegStep, FeedStep, PrintStep DEF SearchInv, LegInv
<1>3. QED BY <1>1, <1>2, PTL DEF Spec

\* When no upload is lost the kernel starts on every slab, on the primes, and on
\* zeroed slots, however much of the map the scheduler had left on the device
\* (pull_scheduler.h:38-41, gpu_search_kernel.h:633-637).  The results of the
\* uploads are not looked at, so the hypothesis cannot be dropped.
THEOREM KernelReadsAll ==
  ASSUME UploadsSucceed
  PROVE  Spec => []KernelReadsFilledMap
<1>1. SearchInv => KernelReadsFilledMap
  BY DEF SearchInv, FeedInv, KernelReadsFilledMap
<1>2. QED BY SearchInvariance, <1>1, PTL

\* A leg whose uploads succeed refines the promise of a search: one search
\* prints every answer, in order, after the other has printed nothing.
THEOREM LegKeepsPromise ==
  ASSUME UploadsSucceed
  PROVE  Spec => Search!Spec
<1>1. Init => Search!Init
  BY SumsAssumption DEF Init, Search!Init, Returns
<1>2. ASSUME SearchInv, [Next]_vars PROVE [Search!Next]_Search!vars
  <2> USE DEF SearchInv
  <2>1. CASE Emit
    <3>1. pc \notin Returns /\ pc' \notin Returns /\ out = << >>
      BY <1>2, <2>1 DEF Emit, PrintInv, Returns
    <3>2. CASE out' = << >>
      BY <3>1, <3>2 DEF Search!vars
    <3>3. CASE out' # << >>
      <4>1. out' = Search!Answers
        BY <2>1, <3>3 DEF Emit
      <4>2. Len(Search!Answers) \in Len(out) + 1 .. Len(Search!Answers)
        BY <3>1, <3>3, <4>1, AnswersAreASequence
      <4>3. out' = SubSeq(Search!Answers, 1, Len(Search!Answers))
        BY <4>1, AnswersAreASequence
      <4>4. Search!Emit
        BY <3>1, <4>2, <4>3 DEF Search!Emit
      <4>5. QED BY <4>4 DEF Search!Next
    <3>4. QED BY <3>2, <3>3
  <2>2. CASE CpuSearch
    <3>1. pc \notin Returns /\ pc' \notin Returns /\ out = << >> /\ out' = Search!Answers
      BY <1>2, <2>2, AnswersAreASequence DEF CpuSearch, PrintInv, Returns
    <3>2. CASE Len(Search!Answers) = 0
      BY <3>1, <3>2, AnswersAreASequence DEF Search!vars
    <3>3. CASE Len(Search!Answers) # 0
      <4>1. Len(Search!Answers) \in Len(out) + 1 .. Len(Search!Answers)
        BY <3>1, <3>3, AnswersAreASequence
      <4>2. out' = SubSeq(Search!Answers, 1, Len(Search!Answers))
        BY <3>1, AnswersAreASequence
      <4>3. Search!Emit
        BY <3>1, <4>1, <4>2 DEF Search!Emit
      <4>4. QED BY <4>3 DEF Search!Next
    <3>4. QED BY <3>2, <3>3
  <2>3. CASE FreeAll
    <3>1. /\ pc = "free" /\ pc' = "return0" /\ UNCHANGED <<out, cfg, records, hRecords>>
      BY <2>3 DEF FreeAll, plan, feed
    <3>2. /\ out = IF hRecords = "answers" THEN Search!Answers ELSE << >>
          /\ records = "answers" /\ hRecords \in {"zero", "answers"} /\ ~cfg.dump
      BY <1>2, <3>1 DEF PrintInv, FeedInv, LegInv, DumpInv, Handing
    <3>3. CASE hRecords = "answers"
      BY <3>1, <3>2, <3>3 DEF Search!Finish, Search!Next, AnswersLost, Returns
    <3>4. CASE hRecords = "zero"
      BY <3>1, <3>2, <3>4 DEF Search!Decline, Search!Next, AnswersLost, Returns
    <3>5. QED BY <3>2, <3>3, <3>4
  <2>4. CASE Report
    <3>1. pc = "report" /\ pc' = "return0" /\ UNCHANGED <<out, cfg, records, hRecords>>
      BY <2>4 DEF Report, plan, feed
    <3>2. out = Search!Answers /\ records # "answers" /\ ~cfg.dump
      BY <1>2, <3>1 DEF PrintInv, FeedInv, LegInv, DumpInv, Handing, OnCpu, Returns
    <3>3. QED BY <3>1, <3>2 DEF Search!Finish, Search!Next, AnswersLost, Returns
  <2>5. CASE WriteDump
    <3>1. pc = "dumpJoin" /\ pc' \in Returns /\ UNCHANGED <<out, cfg>>
      BY <2>5 DEF WriteDump, plan, Returns
    <3>2. cfg.dump /\ out = << >>
      BY <1>2, <3>1 DEF LegInv, DumpInv, PrintInv, Dumping, Returns
    <3>3. QED BY <3>1, <3>2 DEF Search!Decline, Search!Next, Returns
  <2>6. CASE Enumerate \/ Gate \/ Prepare \/ Sieve
    <3>1. /\ pc \notin Returns \union {"free", "report"} /\ UNCHANGED out
          /\ pc' \notin Returns \/ pc' = "return1"
      BY <2>6 DEF Enumerate, Gate, Prepare, Sieve, Returns
    <3>2. out = << >>
      BY <1>2, <3>1 DEF PrintInv
    <3>3. CASE pc' \notin Returns
      BY <3>1, <3>3 DEF Search!vars
    <3>4. CASE pc' = "return1"
      BY <3>1, <3>2, <3>4 DEF Search!Decline, Search!Next, Returns
    <3>5. QED BY <3>1, <3>3, <3>4
  <2>7. CASE \/ Plan \/ Dump \/ SelectDevice \/ AllocMap \/ AllocRecords \/ AllocAtomic \/ Zero
             \/ Feed \/ AllocPrimes \/ Launch \/ KernelEnds \/ CopyBack \/ CleanUp
             \/ SpawnExpansion \/ JoinExpansion
    <3>1. pc \notin Returns /\ pc' \notin Returns /\ UNCHANGED out
      BY <2>7 DEF Plan, Dump, SelectDevice, AllocMap, AllocRecords, AllocAtomic, Zero, Feed,
         AllocPrimes, Launch, KernelEnds, CopyBack, CleanUp, SpawnExpansion, JoinExpansion,
         TryCall, Returns
    <3>2. QED BY <3>1 DEF Search!vars
  <2>8. CASE EndExpansion \/ UNCHANGED vars
    <3>1. UNCHANGED <<pc, cfg, records, hRecords, out>>
      BY <2>8 DEF EndExpansion, vars, plan, feed
    <3>2. QED BY <3>1 DEF Search!vars, AnswersLost
  <2>9. QED
    BY <1>2, <2>1, <2>2, <2>3, <2>4, <2>5, <2>6, <2>7, <2>8 DEF Next, Main, Exited
<1>3. QED
  BY <1>1, <1>2, SearchInvariance, PTL DEF Spec, Search!Spec

-----------------------------------------------------------------------------
(* What the answers are *)

\* The sequence OrderedSearch is about: every sum that has an answer, ascending.
LEMMA AnswersAreTheSums ==
  /\ Search!Answers \in [1 .. Cardinality(Sums) -> Sums]
  /\ \A i, j \in 1 .. Cardinality(Sums) : i < j => Search!Answers[i] < Search!Answers[j]
  /\ \A s \in Sums : \E i \in 1 .. Cardinality(Sums) : Search!Answers[i] = s
<1> DEFINE N == Cardinality(Sums)
           F(i) == CHOOSE s \in Sums : Search!Cardinality({r \in Sums : r < s}) = i - 1
           A == [i \in 1 .. N |-> F(i)]
<1>1. Search!Answers = A
  BY SameCardinality DEF Search!Answers
<1>2. Sums \in SUBSET Nat /\ IsFiniteSet(Sums) /\ N \in Nat
  BY SumsAssumption, FS_CardinalityType
<1>3. ASSUME NEW i \in 1 .. N
      PROVE  A[i] \in Sums /\ Cardinality(Below(Sums, A[i])) = i - 1
  <2>1. \E s \in Sums : Search!Cardinality({r \in Sums : r < s}) = i - 1
    BY <1>2, RankTaken, SameCardinality DEF Below
  <2>2. F(i) \in Sums /\ Search!Cardinality({r \in Sums : r < F(i)}) = i - 1
    BY <2>1
  <2>3. QED BY <2>2, SameCardinality DEF Below
<1> HIDE DEF A
<1>4. A \in [1 .. N -> Sums]
  <2>1. A = [i \in 1 .. N |-> A[i]]
    BY DEF A
  <2>2. QED BY <1>3, <2>1
<1>5. ASSUME NEW i \in 1 .. N, NEW j \in 1 .. N, i < j PROVE A[i] < A[j]
  <2>1. /\ A[i] \in Sums /\ A[j] \in Sums /\ A[i] \in Nat /\ A[j] \in Nat
        /\ Cardinality(Below(Sums, A[i])) = i - 1 /\ Cardinality(Below(Sums, A[j])) = j - 1
    BY <1>2, <1>3
  <2>2. A[i] # A[j]
    BY <1>2, <1>5, <2>1
  <2>3. ~(A[j] < A[i])
    <3>1. A[j] < A[i] => Cardinality(Below(Sums, A[j])) < Cardinality(Below(Sums, A[i]))
      BY <1>2, <2>1, RankGrows
    <3>2. i \in Nat /\ j \in Nat
      BY <1>2
    <3>3. QED BY <1>5, <2>1, <3>1, <3>2
  <2>4. QED BY <2>1, <2>2, <2>3
<1>6. ASSUME NEW s \in Sums PROVE \E i \in 1 .. N : A[i] = s
  <2> DEFINE k == Cardinality(Below(Sums, s))
  <2>1. k \in Nat /\ k < N
    BY <1>2, RankGrows
  <2>2. k + 1 \in 1 .. N
    BY <1>2, <2>1
  <2>3. A[k + 1] \in Sums /\ Cardinality(Below(Sums, A[k + 1])) = k
    BY <1>3, <2>1, <2>2
  <2>4. A[k + 1] = s
    <3>1. ~(A[k + 1] < s) /\ ~(s < A[k + 1])
      <4>1. /\ A[k + 1] < s => Cardinality(Below(Sums, A[k + 1])) < k
            /\ s < A[k + 1] => k < Cardinality(Below(Sums, A[k + 1]))
        BY <1>2, <2>3, RankGrows
      <4> HIDE DEF k
      <4>2. QED BY <2>1, <2>3, <4>1
    <3>2. A[k + 1] \in Nat /\ s \in Nat
      BY <1>2, <2>3
    <3>3. QED BY <3>1, <3>2
  <2>5. QED BY <2>2, <2>4
<1>7. QED BY <1>1, <1>4, <1>5, <1>6

\* What a leg has printed when it returns, by the way it got there.
ReturnInv ==
  /\ pc = "return1" => out = << >>
  /\ pc = "return0" =>
       out = IF cfg.dump \/ (records = "answers" /\ hRecords = "zero") THEN << >>
             ELSE Search!Answers

LEMMA ReturnStep ==
  ASSUME SearchInv, ReturnInv, [Next]_vars
  PROVE  ReturnInv'
<1> USE DEF SearchInv, Returns
<1>1. CASE FreeAll
  <2>1. /\ pc = "free" /\ pc' = "return0" /\ UNCHANGED <<out, cfg, records, hRecords>>
    BY <1>1 DEF FreeAll, plan, feed
  <2>2. /\ out = IF hRecords = "answers" THEN Search!Answers ELSE << >>
        /\ records = "answers" /\ hRecords \in {"zero", "answers"} /\ ~cfg.dump
    BY <2>1 DEF PrintInv, FeedInv, LegInv, DumpInv, Handing
  <2>3. CASE hRecords = "answers"
    BY <2>1, <2>2, <2>3 DEF ReturnInv
  <2>4. CASE hRecords = "zero"
    BY <2>1, <2>2, <2>4 DEF ReturnInv
  <2>5. QED BY <2>2, <2>3, <2>4
<1>2. CASE Report
  <2>1. pc = "report" /\ pc' = "return0" /\ UNCHANGED <<out, cfg, records, hRecords>>
    BY <1>2 DEF Report, plan, feed
  <2>2. out = Search!Answers /\ records # "answers" /\ ~cfg.dump
    BY <2>1 DEF PrintInv, FeedInv, LegInv, DumpInv, Handing, OnCpu
  <2>3. QED BY <2>1, <2>2 DEF ReturnInv
<1>3. CASE WriteDump
  <2>1. pc = "dumpJoin" /\ UNCHANGED <<out, cfg>>
    BY <1>3 DEF WriteDump, plan
  <2>2. cfg.dump /\ out = << >>
    BY <2>1 DEF LegInv, DumpInv, PrintInv, Dumping
  <2>3. QED BY <2>1, <2>2 DEF ReturnInv
<1>4. CASE Enumerate \/ Gate \/ Prepare \/ Sieve
  <2>1. /\ pc \notin Returns \union {"free", "report"} /\ UNCHANGED out
        /\ pc' # "return0"
    BY <1>4 DEF Enumerate, Gate, Prepare, Sieve
  <2>2. out = << >>
    BY <2>1 DEF PrintInv
  <2>3. QED BY <2>1, <2>2 DEF ReturnInv
<1>5. CASE \/ Plan \/ Dump \/ SelectDevice \/ AllocMap \/ AllocRecords \/ AllocAtomic \/ Zero
           \/ Feed \/ AllocPrimes \/ Launch \/ KernelEnds \/ CopyBack \/ Emit \/ CleanUp
           \/ SpawnExpansion \/ JoinExpansion \/ CpuSearch
  <2>1. pc' \notin Returns
    BY <1>5 DEF Plan, Dump, SelectDevice, AllocMap, AllocRecords, AllocAtomic, Zero, Feed,
       AllocPrimes, Launch, KernelEnds, CopyBack, Emit, CleanUp, SpawnExpansion,
       JoinExpansion, CpuSearch, TryCall
  <2>2. QED BY <2>1 DEF ReturnInv
<1>6. CASE EndExpansion \/ UNCHANGED vars
  <2>1. UNCHANGED <<pc, cfg, records, hRecords, out>>
    BY <1>6 DEF EndExpansion, vars, plan, feed
  <2>2. QED BY <2>1 DEF ReturnInv
<1>7. QED
  BY <1>1, <1>2, <1>3, <1>4, <1>5, <1>6 DEF Next, Main, Exited

\* A leg whose uploads succeed prints in ascending order and nothing twice,
\* whichever search does it and whatever the other got done before it gave up;
\* when it returns 0 it has printed every sum that has an answer, all of them or,
\* for a dump or when the copy of the records was lost, none; when it returns 1
\* it has printed nothing (main.cpp:711, 924, 960-1000).
THEOREM EveryAnswerOnce ==
  ASSUME UploadsSucceed
  PROVE  Spec => [](/\ \A i, j \in DOMAIN out : i < j => out[i] < out[j]
                    /\ pc = "return0" =>
                         Range(out) = IF cfg.dump \/ AnswersLost THEN {} ELSE Sums
                    /\ pc = "return1" => out = << >>)
<1> DEFINE A == Search!Answers
           Inv == SearchInv /\ ReturnInv
           Ascending(q) == \A i, j \in DOMAIN q : i < j => q[i] < q[j]
           Goal == /\ Ascending(out)
                   /\ pc = "return0" =>
                        Range(out) = IF cfg.dump \/ AnswersLost THEN {} ELSE Sums
                   /\ pc = "return1" => out = << >>
<1>1. Ascending(A) /\ Range(A) = Sums
  <2>1. DOMAIN A = 1 .. Cardinality(Sums)
    BY AnswersAreTheSums
  <2>2. QED BY <2>1, AnswersAreTheSums DEF Range
<1>2. Ascending(<< >>) /\ Range(<< >>) = {}
  BY DEF Range
<1>3. Init => Inv
  <2>1. Init => SearchInv /\ ReturnInv
    BY InitLeg DEF Init, SearchInv, FeedInv, PrintInv, ReturnInv, Handing, OnCpu, Returns
  <2>2. QED BY <2>1
<1>4. Inv /\ [Next]_vars => Inv'
  BY LegStep, FeedStep, PrintStep, ReturnStep DEF SearchInv, LegInv
<1>5. ASSUME Inv PROVE Goal
  <2>1. out \in {A, << >>}
    <3>1. CASE pc \in Returns
      BY <1>5, <3>1 DEF ReturnInv, Returns
    <3>2. CASE pc \notin Returns
      BY <1>5, <3>2 DEF SearchInv, PrintInv
    <3>3. QED BY <3>1, <3>2
  <2>2. Ascending(out)
    BY <1>1, <1>2, <2>1
  <2>3. pc = "return0" => Range(out) = IF cfg.dump \/ AnswersLost THEN {} ELSE Sums
    <3> SUFFICES ASSUME pc = "return0"
                 PROVE  Range(out) = IF cfg.dump \/ AnswersLost THEN {} ELSE Sums
      OBVIOUS
    <3>1. AnswersLost <=> records = "answers" /\ hRecords = "zero"
      BY DEF AnswersLost
    <3>2. out = IF cfg.dump \/ AnswersLost THEN << >> ELSE A
      BY <1>5, <3>1 DEF ReturnInv
    <3>3. QED BY <1>1, <1>2, <3>2
  <2>4. pc = "return1" => out = << >>
    BY <1>5 DEF ReturnInv
  <2>5. QED BY <2>2, <2>3, <2>4
<1>6. QED BY <1>3, <1>4, <1>5, PTL DEF Spec

-----------------------------------------------------------------------------
(* Powers of two and square roots *)

\* The powers are what their recursion says: the tables up to m agree with each
\* other, and together they are the function.
LEMMA PowersExist == TwoTo = [k \in Nat |-> IF k = 0 THEN 1 ELSE 2 * TwoTo[k - 1]]
<1> DEFINE Table(g, m) == g = [k \in 0 .. m |-> IF k = 0 THEN 1 ELSE 2 * g[k - 1]]
           S == {m \in Nat : \E g : Table(g, m)}
<1>1. \A m \in Nat : m \in S
  <2>1. 0 \in S
    <3>1. Table([k \in 0 .. 0 |-> 1], 0)
      OBVIOUS
    <3> HIDE DEF Table
    <3>2. QED BY <3>1
  <2>2. ASSUME NEW m \in Nat, m > 0, m - 1 \in S PROVE m \in S
    <3>1. PICK g : Table(g, m - 1)
      BY <2>2
    <3> DEFINE h == [k \in 0 .. m |-> IF k = m THEN 2 * g[m - 1] ELSE g[k]]
    <3>2. ASSUME NEW k \in 0 .. m PROVE h[k] = IF k = 0 THEN 1 ELSE 2 * h[k - 1]
      <4>1. CASE k = m
        BY <2>2, <4>1
      <4>2. CASE k # m
        <5>1. k \in 0 .. m - 1 /\ h[k] = g[k] /\ (k # 0 => h[k - 1] = g[k - 1])
          BY <4>2
        <5>2. g[k] = IF k = 0 THEN 1 ELSE 2 * g[k - 1]
          BY <3>1, <5>1
        <5>3. QED BY <5>1, <5>2
      <4>3. QED BY <4>1, <4>2
    <3>3. Table(h, m)
      BY <3>2
    <3> HIDE DEF Table, h
    <3>4. QED BY <3>3
  <2> HIDE DEF S
  <2>3. ASSUME NEW m \in Nat PROVE m \in S
    <3>1. \A k \in 1 .. m : k - 1 \in S => k \in S
      BY <2>2
    <3>2. QED BY <2>1, <3>1, UpTo
  <2>4. QED BY <2>3
<1>2. ASSUME NEW m \in Nat, NEW n \in Nat, m <= n, NEW g, Table(g, m), NEW h, Table(h, n)
      PROVE  g[m] = h[m]
  <2> DEFINE T == {k \in 0 .. m : g[k] = h[k]}
  <2>1. 0 \in T
    BY <1>2
  <2>2. ASSUME NEW k \in 1 .. m, k - 1 \in T PROVE k \in T
    <3>1. g[k] = 2 * g[k - 1]
      BY <1>2
    <3>2. k \in 0 .. n /\ k # 0
      BY <1>2
    <3>3. h[k] = 2 * h[k - 1]
      BY <1>2, <3>2
    <3>4. QED BY <2>2, <3>1, <3>3
  <2> HIDE DEF T
  <2>3. m \in T
    BY <2>1, <2>2, UpTo
  <2>4. QED BY <2>3 DEF T
<1> DEFINE of(m) == CHOOSE g : Table(g, m)
           f == [k \in Nat |-> of(k)[k]]
<1>3. \A m \in Nat : Table(of(m), m)
  BY <1>1
<1>4. ASSUME NEW k \in Nat PROVE f[k] = IF k = 0 THEN 1 ELSE 2 * f[k - 1]
  <2>1. Table(of(k), k) /\ f[k] = of(k)[k]
    BY <1>3
  <2>2. k \in 0 .. k
    OBVIOUS
  <2>3. of(k)[k] = IF k = 0 THEN 1 ELSE 2 * of(k)[k - 1]
    <3> HIDE DEF of
    <3>1. QED BY <2>1, <2>2
  <2>4. CASE k > 0
    <3>1. k - 1 \in Nat /\ k - 1 <= k
      BY <2>4
    <3>2. Table(of(k - 1), k - 1)
      BY <1>3, <3>1
    <3>3. ASSUME NEW g, Table(g, k - 1), NEW h, Table(h, k) PROVE g[k - 1] = h[k - 1]
      <4> HIDE DEF Table
      <4>1. QED BY <1>2, <3>1, <3>3
    <3>4. of(k - 1)[k - 1] = of(k)[k - 1]
      <4> HIDE DEF of, Table
      <4>1. QED BY <2>1, <3>2, <3>3
    <3>5. f[k - 1] = of(k - 1)[k - 1]
      BY <3>1
    <3>6. QED BY <2>1, <2>3, <2>4, <3>4, <3>5
  <2>5. QED BY <2>1, <2>3, <2>4
<1>5. f = [k \in Nat |-> IF k = 0 THEN 1 ELSE 2 * f[k - 1]]
  <2>1. f = [k \in Nat |-> f[k]]
    OBVIOUS
  <2> HIDE DEF f
  <2>2. QED BY <1>4, <2>1
<1>6. \E g : g = [k \in Nat |-> IF k = 0 THEN 1 ELSE 2 * g[k - 1]]
  <2> HIDE DEF f
  <2>1. QED BY <1>5
<1>7. QED BY <1>6 DEF TwoTo

LEMMA PowerNat ==
  ASSUME NEW k \in Nat
  PROVE  /\ TwoTo[k] \in Nat /\ TwoTo[k] > k
         /\ TwoTo[k + 1] = 2 * TwoTo[k]
         /\ TwoTo[0] = 1
<1> DEFINE S == {m \in Nat : TwoTo[m] \in Nat /\ TwoTo[m] > m}
<1>1. TwoTo[0] = 1 /\ \A m \in Nat : m > 0 => TwoTo[m] = 2 * TwoTo[m - 1]
  BY PowersExist
<1>2. 0 \in S
  BY <1>1
<1>3. ASSUME NEW m \in 1 .. k, m - 1 \in S PROVE m \in S
  <2>1. TwoTo[m] = 2 * TwoTo[m - 1] /\ TwoTo[m - 1] \in Nat /\ TwoTo[m - 1] > m - 1
    BY <1>1, <1>3
  <2>2. QED BY <2>1
<1> HIDE DEF S
<1>4. k \in S
  BY <1>2, <1>3, UpTo
<1>5. TwoTo[k + 1] = 2 * TwoTo[k]
  <2>1. k + 1 \in Nat /\ k + 1 > 0 /\ (k + 1) - 1 = k
    OBVIOUS
  <2>2. QED BY <1>1, <2>1
<1>6. QED BY <1>1, <1>4, <1>5 DEF S

LEMMA PowerSquare ==
  ASSUME NEW k \in Nat
  PROVE  TwoTo[2 * k + 1] = 2 * (TwoTo[k] * TwoTo[k])
<1> DEFINE S == {m \in Nat : TwoTo[2 * m + 1] = 2 * (TwoTo[m] * TwoTo[m])}
<1>1. 0 \in S
  <2>1. TwoTo[0] = 1 /\ TwoTo[0 + 1] = 2 * TwoTo[0]
    BY PowerNat
  <2>2. QED BY <2>1
<1>2. ASSUME NEW m \in 1 .. k, m - 1 \in S PROVE m \in S
  <2> DEFINE j == m - 1
  <2>1. j \in Nat /\ m = j + 1 /\ TwoTo[2 * j + 1] = 2 * (TwoTo[j] * TwoTo[j])
    BY <1>2
  <2> HIDE DEF j
  <2>2. TwoTo[(2 * j + 1) + 1] = 2 * TwoTo[2 * j + 1]
        /\ TwoTo[((2 * j + 1) + 1) + 1] = 2 * TwoTo[(2 * j + 1) + 1]
        /\ TwoTo[j + 1] = 2 * TwoTo[j] /\ TwoTo[j] \in Nat
    BY <2>1, PowerNat
  <2>3. 2 * m + 1 = ((2 * j + 1) + 1) + 1
    BY <2>1
  <2>4. TwoTo[2 * m + 1] = 8 * (TwoTo[j] * TwoTo[j])
    <3> DEFINE s == TwoTo[j] * TwoTo[j]
    <3>1. s \in Nat
      BY <2>2, Products
    <3> HIDE DEF s
    <3>2. TwoTo[2 * m + 1] = 2 * (2 * (2 * s))
      BY <2>1, <2>2, <2>3 DEF s
    <3>3. QED BY <3>1, <3>2 DEF s
  <2>5. TwoTo[m] * TwoTo[m] = 4 * (TwoTo[j] * TwoTo[j])
    <3> DEFINE p == TwoTo[j]
    <3>1. p \in Nat /\ TwoTo[m] = 2 * p
      BY <2>1, <2>2
    <3> HIDE DEF p
    <3>2. (2 * p) * (2 * p) = 4 * (p * p)
      BY <3>1
    <3>3. QED BY <3>1, <3>2 DEF p
  <2>6. TwoTo[j] * TwoTo[j] \in Nat
    BY <2>2, Products
  <2>7. QED BY <2>4, <2>5, <2>6
<1> HIDE DEF S
<1>3. k \in S
  BY <1>1, <1>2, UpTo
<1>4. QED BY <1>3 DEF S

\* The integer square root.
LEMMA RootFacts ==
  ASSUME NEW n \in Nat
  PROVE  /\ isqrt64(n) \in Nat /\ isqrt64(n) <= n
         /\ isqrt64(n) * isqrt64(n) <= n
         /\ n < (isqrt64(n) + 1) * (isqrt64(n) + 1)
<1> DEFINE S == {r \in Nat : n < (r + 1) * (r + 1)}
<1>1. n \in S
  <2>1. (n + 1) * (n + 1) = (n + 1) * n + (n + 1) * 1 /\ (n + 1) * n \in Nat /\ (n + 1) * 1 = n + 1
    BY Products
  <2>2. QED BY <2>1
<1>2. PICK r \in S : \A m \in S : r <= m
  <2>1. S \in SUBSET Nat /\ S # {}
    BY <1>1
  <2> HIDE DEF S
  <2>2. QED BY <2>1, LeastElement
<1>3. r \in Nat /\ n < (r + 1) * (r + 1) /\ r <= n
  BY <1>1, <1>2
<1>4. r * r <= n
  <2>1. CASE r = 0
    BY <2>1
  <2>2. CASE r > 0
    <3>1. r - 1 \in Nat /\ ~(r <= r - 1) /\ (r - 1) + 1 = r
      BY <1>3, <2>2
    <3>2. r - 1 \notin S
      BY <1>2, <3>1
    <3>3. ~(n < r * r) /\ r * r \in Nat
      BY <1>3, <3>1, <3>2
    <3>4. QED BY <3>3
  <2>3. QED BY <1>3, <2>1, <2>2
<1>5. \E x \in 0 .. n : x * x <= n /\ (x + 1) * (x + 1) > n
  <2>1. r \in 0 .. n /\ r * r <= n /\ (r + 1) * (r + 1) > n
    BY <1>3, <1>4
  <2>2. QED BY <2>1, Zenon
<1> DEFINE P(x) == x * x <= n /\ (x + 1) * (x + 1) > n
<1>6. isqrt64(n) \in 0 .. n /\ P(isqrt64(n))
  <2>1. \E x \in 0 .. n : P(x)
    BY <1>5
  <2>2. isqrt64(n) = CHOOSE x \in 0 .. n : P(x)
    BY DEF isqrt64
  <2> HIDE DEF P
  <2>3. QED BY <2>1, <2>2
<1>7. isqrt64(n) \in Nat /\ (isqrt64(n) + 1) * (isqrt64(n) + 1) \in Nat
  BY <1>6, Products
<1>8. QED BY <1>6, <1>7

-----------------------------------------------------------------------------
(* Sizes, primes and their list *)

M == MaxGeneratedPrime

\* A leg with a sum to test reaches 5.
LEMMA Sizes ==
  ASSUME NEW s \in TestedSums
  PROVE  /\ s \in Nat /\ s % 2 = 1 /\ 5 <= s /\ s <= SumLimit /\ s + 1 <= 2 * M
         /\ SumLimit \in Nat /\ M \in Nat /\ 3 <= M /\ M <= LargestAsked
         /\ LargestAsked \in Nat
         /\ \A n \in Nat : 2 * n <= M * M => n + 2 <= LargestAsked
<1>1. s \in Nat /\ s % 2 = 1 /\ 5 <= s /\ s <= SumLimit /\ SumLimit \in Nat
  BY TestedAssumption
<1>2. M \in Nat /\ 2 * M <= SumLimit + 1 /\ SumLimit + 1 < 2 * M + 2
  BY <1>1 DEF M, MaxGeneratedPrime
<1>3. s + 1 <= 2 * M /\ 3 <= M
  <2>1. s = 2 * (s \div 2) + 1 /\ s \div 2 \in Nat
    BY <1>1
  <2>2. QED BY <1>1, <1>2, <2>1
<1>4. M * M \in Nat /\ 3 * M <= M * M
  <2>1. M * 3 <= M * M /\ M * 3 = 3 * M
    BY <1>2, <1>3, Products
  <2>2. QED BY <1>2, <2>1, Products
<1> DEFINE q == (M * M) \div 2
<1>5. q \in Nat /\ 2 * q <= M * M /\ M * M < 2 * q + 2 /\ LargestAsked = q + 2
  <2>1. LargestAsked = q + 2
    BY DEF LargestAsked, M
  <2> DEFINE m == M * M
  <2>2. m \in Nat
    BY <1>4
  <2> HIDE DEF m
  <2>3. m \div 2 \in Nat /\ 2 * (m \div 2) <= m /\ m < 2 * (m \div 2) + 2
    BY <2>2
  <2>4. QED BY <2>1, <2>3 DEF m
<1> HIDE DEF q
<1>6. M <= LargestAsked
  BY <1>2, <1>3, <1>4, <1>5
<1>7. \A n \in Nat : 2 * n <= M * M => n + 2 <= LargestAsked
  BY <1>4, <1>5
<1>8. QED BY <1>1, <1>2, <1>3, <1>5, <1>6, <1>7

\* The sieve that defines Primes leaves the primes.
LEMMA PrimesAre ==
  ASSUME LargestAsked \in Nat, NEW n \in Nat, n <= LargestAsked
  PROVE  IsPrime(n) <=> PrimeNumber(n)
<1> DEFINE L == LargestAsked
<1>1. ASSUME PrimeNumber(n) PROVE IsPrime(n)
  <2>1. n \in 2 .. L
    BY <1>1 DEF PrimeNumber
  <2>2. ASSUME NEW p \in 2 .. L, NEW q \in 2 .. L \div p, n = p * q PROVE FALSE
    <3>1. p \in Nat /\ q \in Nat /\ p >= 2 /\ q >= 2
      OBVIOUS
    <3>2. IsFactor(p, n)
      BY <2>2, <3>1, FactorWitness
    <3>3. p = n
      BY <1>1, <3>1, <3>2 DEF PrimeNumber
    <3>4. p * 1 = p * q
      BY <2>2, <3>1, <3>3
    <3>5. q = 1
      BY <3>1, <3>4, Products
    <3>6. QED BY <3>1, <3>5
  <2>3. QED BY <2>1, <2>2 DEF IsPrime, Primes
<1>2. ASSUME IsPrime(n), ~PrimeNumber(n) PROVE FALSE
  <2>1. n \in 2 .. L
    BY <1>2 DEF IsPrime, Primes
  <2>2. PICK q \in Nat : PrimeNumber(q) /\ IsFactor(q, n) /\ q * q <= n
    BY <1>2, <2>1, LeastFactor
  <2>3. q >= 2
    BY <2>2 DEF PrimeNumber
  <2>4. PICK c \in Nat : q * c = n
    BY <2>2 DEF IsFactor
  <2>5. q <= c
    <3>1. c < q => q * c < q * q
      BY <2>3, Products
    <3>2. q * q \in Nat
      BY Products
    <3>3. QED BY <2>2, <2>4, <3>1, <3>2
  <2>6. c \in 2 .. L \div q
    <3>1. q * (L \div q) <= L /\ L < q * (L \div q) + q /\ L \div q \in Int
      BY <2>3, DivBounds
    <3>2. SUFFICES ASSUME L \div q < c PROVE FALSE
      BY <2>3, <2>5, <3>1
    <3>3. q * ((L \div q) + 1) <= q * c
      BY <2>3, <3>1, <3>2
    <3>4. q * ((L \div q) + 1) = q * (L \div q) + q /\ q * (L \div q) \in Int
      BY <3>1
    <3>5. QED BY <2>1, <2>4, <3>1, <3>3, <3>4
  <2>7. q \in {d \in 2 .. L : d * d <= L}
    <3>1. q <= n /\ n > 0
      BY <2>1, <2>2, FactorBounds
    <3>2. q * q \in Nat
      BY Products
    <3>3. QED BY <2>1, <2>2, <2>3, <3>1, <3>2
  <2>8. n \in {q * x : x \in 2 .. L \div q}
    BY <2>4, <2>6
  <2>9. n \notin UNION {{p * x : x \in 2 .. L \div p} : p \in {d \in 2 .. L : d * d <= L}}
    BY <1>2 DEF IsPrime, Primes
  <2>10. QED BY <2>7, <2>8, <2>9
<1>3. QED BY <1>1, <1>2

\* The list the CPU walks, and its places.
TheList == {p \in Primes : p <= MaxGeneratedPrime}

LEMMA TheListFacts ==
  ASSUME NEW s \in TestedSums
  PROVE  /\ TheList \in SUBSET Nat /\ IsFiniteSet(TheList)
         /\ \A p \in Nat : p \in TheList <=> PrimeNumber(p) /\ p <= M
         /\ Lists(SmallPrimes.cpu, TheList)
         /\ SmallPrimes.cpu[1] = 2 /\ SmallPrimes.cpu[2] = 3
         /\ Len(SmallPrimes.cpu) \in Nat /\ Len(SmallPrimes.cpu) >= 2
         /\ SmallPrimes.gpu = Tail(SmallPrimes.cpu)
<1> DEFINE all == SmallPrimes.cpu
<1>1. M \in Nat /\ M <= LargestAsked /\ 3 <= M /\ LargestAsked \in Nat
  BY Sizes
<1>2. TheList \in SUBSET Nat /\ TheList \subseteq 0 .. LargestAsked
  BY <1>1 DEF TheList, Primes
<1>3. IsFiniteSet(TheList)
  <2>1. IsFiniteSet(0 .. LargestAsked)
    BY <1>1, FS_Interval
  <2>2. QED BY <1>2, <2>1, FS_Subset
<1>4. \A p \in Nat : p \in TheList <=> PrimeNumber(p) /\ p <= M
  <2> TAKE p \in Nat
  <2>1. CASE p <= M
    <3>1. p <= LargestAsked
      BY <1>1, <2>1
    <3>2. IsPrime(p) <=> PrimeNumber(p)
      BY <1>1, <3>1, PrimesAre
    <3>3. QED BY <2>1, <3>2 DEF TheList, IsPrime, M
  <2>2. CASE ~(p <= M)
    BY <2>2 DEF TheList, M
  <2>3. QED BY <2>1, <2>2
<1> DEFINE N == Cardinality(TheList)
           at(i) == CHOOSE p \in TheList : Cardinality({q \in TheList : q <= p}) = i
<1>5. all = [i \in 1 .. N |-> at(i)] /\ SmallPrimes.gpu = Tail(all)
  BY DEF SmallPrimes, TheList
<1>6. N \in Nat
  BY <1>3, FS_CardinalityType
<1>7. \A p \in TheList : /\ Cardinality({q \in TheList : q <= p}) = Cardinality(Below(TheList, p)) + 1
                         /\ Cardinality(Below(TheList, p)) \in Nat
  <2> TAKE p \in TheList
  <2>1. {q \in TheList : q <= p} = Below(TheList, p) \union {p}
    <3>1. ASSUME NEW q \in TheList PROVE q <= p <=> (q < p \/ q = p)
      <4>1. q \in Nat /\ p \in Nat
        BY <1>2
      <4>2. QED BY <4>1
    <3>2. p <= p
      BY <1>2
    <3>3. QED BY <3>1, <3>2 DEF Below
  <2>2. QED BY <1>2, <1>3, <2>1, RankGrows
<1>8. ASSUME NEW i \in 1 .. N
      PROVE  all[i] \in TheList /\ Cardinality(Below(TheList, all[i])) = i - 1
  <2>1. PICK p \in TheList : Cardinality(Below(TheList, p)) = i - 1
    BY <1>2, <1>3, RankTaken
  <2>2. Cardinality({q \in TheList : q <= p}) = i
    BY <1>6, <1>7, <2>1
  <2>3. at(i) \in TheList /\ Cardinality({q \in TheList : q <= at(i)}) = i
    BY <2>2
  <2>4. all[i] = at(i)
    BY <1>5
  <2> HIDE DEF at, all
  <2>5. Cardinality(Below(TheList, at(i))) + 1 = i /\ Cardinality(Below(TheList, at(i))) \in Nat
    BY <1>7, <2>3
  <2>6. QED BY <1>6, <2>3, <2>4, <2>5
<1> HIDE DEF all
<1>9. all = [i \in 1 .. N |-> all[i]]
  <2> HIDE DEF at, N
  <2>1. QED BY <1>5
<1>10. Lists(all, TheList)
  BY <1>2, <1>3, <1>8, <1>9, ListsByRank
<1>11. PrimeNumber(2) /\ PrimeNumber(3)
  <2>1. ASSUME NEW d \in Nat, NEW p \in {2, 3}, IsFactor(d, p) PROVE d = 1 \/ d = p
    <3>1. d > 0 /\ d <= p
      BY <2>1, FactorBounds
    <3>2. CASE d = 2 /\ p = 3
      <4>1. PICK c \in Nat : 2 * c = 3
        BY <2>1, <3>2 DEF IsFactor
      <4>2. QED BY <4>1
    <3>3. QED BY <3>1, <3>2
  <2>2. QED BY <2>1 DEF PrimeNumber
<1>12. 2 \in TheList /\ 3 \in TheList
  BY <1>1, <1>4, <1>11
<1>13. \A p \in TheList : p >= 2
  BY <1>2, <1>4 DEF PrimeNumber
<1>14. Below(TheList, 2) = {} /\ Below(TheList, 3) = {2}
  <2>1. \A p \in TheList : ~(p < 2) /\ (p < 3 <=> p = 2)
    <3> TAKE p \in TheList
    <3>1. p \in Nat /\ p >= 2
      BY <1>2, <1>13
    <3>2. QED BY <3>1
  <2>2. QED BY <1>12, <2>1 DEF Below
<1>15. Cardinality(Below(TheList, 2)) + 1 = 1 /\ Cardinality(Below(TheList, 3)) + 1 = 2
  BY <1>14, FS_EmptySet, FS_Singleton
<1>16. all[1] = 2 /\ all[2] = 3
  BY <1>10, <1>12, <1>15 DEF Lists
<1>17. Len(all) \in Nat /\ Len(all) >= 2
  <2>1. Len(all) = N
    BY <1>10 DEF Lists
  <2>2. Cardinality(Below(TheList, 3)) < N
    BY <1>2, <1>3, <1>12, RankGrows
  <2>3. Cardinality(Below(TheList, 3)) = 1
    BY <1>14, FS_Singleton
  <2>4. QED BY <1>6, <2>1, <2>2, <2>3
<1>18. QED BY <1>2, <1>3, <1>4, <1>5, <1>10, <1>16, <1>17 DEF all

\* What a walk needs to know of the list it is on: it starts at 3, and it meets
\* every prime up to M from there.
LEMMA ListWalk ==
  ASSUME NEW s \in TestedSums, NEW d \in {"cpu", "gpu"}
  PROVE  /\ Len(SmallPrimes[d]) \in Nat
         /\ FirstIndex[d] \in Nat /\ FirstIndex[d] + 1 <= Len(SmallPrimes[d])
         /\ SmallPrimes[d][FirstIndex[d] + 1] = 3
         /\ \A i \in 1 .. Len(SmallPrimes[d]) :
              /\ SmallPrimes[d][i] \in Nat /\ PrimeNumber(SmallPrimes[d][i])
              /\ SmallPrimes[d][i] <= M
              /\ \A r \in Nat : PrimeNumber(r) /\ SmallPrimes[d][i] < r /\ r <= M =>
                   /\ i + 1 <= Len(SmallPrimes[d])
                   /\ SmallPrimes[d][i] < SmallPrimes[d][i + 1]
                   /\ SmallPrimes[d][i + 1] <= r
<1> DEFINE all == SmallPrimes.cpu
<1>1. /\ TheList \in SUBSET Nat /\ IsFiniteSet(TheList) /\ Lists(all, TheList)
      /\ \A p \in Nat : p \in TheList <=> PrimeNumber(p) /\ p <= M
      /\ all[1] = 2 /\ all[2] = 3 /\ Len(all) \in Nat /\ Len(all) >= 2
      /\ SmallPrimes.gpu = Tail(all)
  BY TheListFacts
<1> HIDE DEF all
<1>2. all \in Seq(Nat) /\ Len(all) = Cardinality(TheList)
  BY <1>1 DEF Lists
<1>3. \A i \in 1 .. Len(all) : all[i] \in TheList /\ Cardinality(Below(TheList, all[i])) = i - 1
  BY <1>1, ListsRank
<1>4. \A i \in 1 .. Len(all) : all[i] \in Nat /\ PrimeNumber(all[i]) /\ all[i] <= M
  BY <1>1, <1>3
<1>5. ASSUME NEW i \in 1 .. Len(all), NEW r \in Nat, PrimeNumber(r), all[i] < r, r <= M
      PROVE  i + 1 <= Len(all) /\ all[i] < all[i + 1] /\ all[i + 1] <= r
  <2>1. r \in TheList /\ all[i] \in TheList /\ Cardinality(Below(TheList, all[i])) = i - 1
    BY <1>1, <1>3, <1>5
  <2>2. Cardinality(Below(TheList, all[i])) < Cardinality(Below(TheList, r))
        /\ Cardinality(Below(TheList, r)) < Cardinality(TheList)
        /\ Cardinality(Below(TheList, r)) \in Nat
    BY <1>1, <1>5, <2>1, RankGrows
  <2>3. i + 1 <= Len(all) /\ i + 1 \in 1 .. Len(all) /\ (i + 1) - 1 = i
    BY <1>1, <1>2, <2>1, <2>2
  <2>4. all[i + 1] \in TheList /\ Cardinality(Below(TheList, all[i + 1])) = i
    BY <1>3, <2>3
  <2>5. ~(r < all[i + 1])
    <3>1. r < all[i + 1] => Cardinality(Below(TheList, r)) < Cardinality(Below(TheList, all[i + 1]))
      BY <1>1, <2>1, <2>4, RankGrows
    <3>2. QED BY <2>1, <2>2, <2>4, <3>1
  <2>6. ~(all[i + 1] < all[i]) /\ all[i + 1] # all[i]
    <3>1. all[i + 1] < all[i] =>
            Cardinality(Below(TheList, all[i + 1])) < Cardinality(Below(TheList, all[i]))
      BY <1>1, <2>1, <2>4, RankGrows
    <3>2. QED BY <2>1, <2>4, <3>1
  <2>7. all[i] \in Nat /\ all[i + 1] \in Nat
    BY <1>1, <2>1, <2>4
  <2>8. QED BY <2>3, <2>5, <2>6, <2>7
<1>6. CASE d = "cpu"
  <2> DEFINE list == SmallPrimes[d]
  <2>1. list = all /\ FirstIndex[d] = 1
    BY <1>6 DEF FirstIndex, all
  <2> HIDE DEF list
  <2>2. Len(list) \in Nat /\ 1 + 1 <= Len(list) /\ list[1 + 1] = 3
    BY <1>1, <2>1
  <2>3. \A i \in 1 .. Len(list) : list[i] \in Nat /\ PrimeNumber(list[i]) /\ list[i] <= M
    BY <1>4, <2>1
  <2>4. ASSUME NEW i \in 1 .. Len(list), NEW r \in Nat, PrimeNumber(r), list[i] < r, r <= M
        PROVE  i + 1 <= Len(list) /\ list[i] < list[i + 1] /\ list[i + 1] <= r
    BY <1>5, <2>1, <2>4
  <2>5. QED BY <2>1, <2>2, <2>3, <2>4 DEF list
<1>7. CASE d = "gpu"
  <2> DEFINE list == SmallPrimes[d]
  <2>1. list = Tail(all) /\ FirstIndex[d] = 0
    BY <1>1, <1>7 DEF FirstIndex
  <2>2. Len(list) = Len(all) - 1 /\ \A i \in 1 .. Len(list) : list[i] = all[i + 1]
    <3>1. all # << >>
      BY <1>1, <1>2
    <3>2. Len(Tail(all)) = Len(all) - 1 /\ \A i \in 1 .. Len(Tail(all)) : Tail(all)[i] = all[i + 1]
      BY <1>2, <3>1
    <3>3. QED BY <2>1, <3>2
  <2> HIDE DEF list
  <2>3. Len(list) \in Nat /\ 0 + 1 <= Len(list) /\ list[0 + 1] = 3
    BY <1>1, <2>2
  <2>4. ASSUME NEW i \in 1 .. Len(list)
        PROVE  /\ i + 1 \in 1 .. Len(all) /\ list[i] = all[i + 1]
               /\ i + 1 <= Len(list) => list[i + 1] = all[(i + 1) + 1]
               /\ (i + 1) + 1 <= Len(all) => i + 1 <= Len(list)
    BY <1>1, <2>2
  <2>5. ASSUME NEW i \in 1 .. Len(list), NEW r \in Nat, PrimeNumber(r), list[i] < r, r <= M
        PROVE  i + 1 <= Len(list) /\ list[i] < list[i + 1] /\ list[i + 1] <= r
    BY <1>5, <2>4, <2>5
  <2>6. \A i \in 1 .. Len(list) : list[i] \in Nat /\ PrimeNumber(list[i]) /\ list[i] <= M
    BY <1>4, <2>4
  <2>7. QED BY <2>1, <2>3, <2>5, <2>6 DEF list
<1>8. QED BY <1>6, <1>7

-----------------------------------------------------------------------------
(* The riddle and the factor pairs *)

LEMMA Remainder ==
  ASSUME NEW n \in Nat, NEW f \in Nat, f > 0
  PROVE  /\ n % f = 0 <=> IsFactor(f, n)
         /\ IsFactor(f, n) => n \div f \in Nat /\ f * (n \div f) = n
<1> DEFINE q == n \div f
           r == n % f
<1>1. q \in Int /\ r \in 0 .. f - 1 /\ n = f * q + r
  OBVIOUS
<1>2. q \in Nat
  <2>1. SUFFICES ASSUME q <= -1 PROVE FALSE
    BY <1>1
  <2>2. f * q <= f * (-1) /\ f * (-1) = -f /\ f * q \in Int
    BY <1>1, <2>1
  <2>3. QED BY <1>1, <2>2
<1> HIDE DEF q, r
<1>3. f * q \in Nat
  BY <1>2, Products
<1>4. ASSUME r = 0 PROVE IsFactor(f, n) /\ f * q = n
  <2>1. f * q = n
    BY <1>1, <1>3, <1>4
  <2>2. QED BY <1>2, <2>1, Zenon DEF IsFactor
<1>5. ASSUME IsFactor(f, n) PROVE r = 0
  <2>1. IsFactor(f, f * q)
    BY <1>2, FactorWitness
  <2>2. IsFactor(f, f * q + r)
    BY <1>1, <1>5
  <2>3. r \in Nat
    BY <1>1
  <2>4. IsFactor(f, r)
    BY <1>3, <2>1, <2>2, <2>3, FactorSum
  <2>5. r > 0 => f <= r
    BY <2>3, <2>4, FactorBounds
  <2>6. QED BY <1>1, <2>3, <2>5
<1>6. QED BY <1>2, <1>4, <1>5 DEF q, r

\* Sammy is sure of the sums that are odd and two more than a composite.
LEMMA SureIs ==
  ASSUME LargestAsked \in Nat, Goldbach, NEW s \in 4 .. LargestAsked
  PROVE  SammyIsSure[s] <=> ~SingleFactorPair(s)
<1> DEFINE h == s \div 2
<1>1. s \in Nat /\ 4 <= s /\ s <= LargestAsked
  OBVIOUS
<1>2. h \in Nat /\ 2 * h <= s /\ s < 2 * h + 2
  BY <1>1
<1>3. SammyIsSure[s] <=> \A a \in 2 .. h : ~Unmistakable(a, s - a)
  BY DEF SammyIsSure
<1> HIDE DEF h
<1>4. CASE s % 2 = 0
  <2>1. PICK a \in 2 .. h : IsPrime(a) /\ IsPrime(s - a)
    BY <1>4 DEF Goldbach, h
  <2>2. ~SammyIsSure[s]
    BY <1>3, <2>1 DEF Unmistakable
  <2>3. QED BY <1>4, <2>2 DEF SingleFactorPair
<1>5. CASE s % 2 = 1
  <2>1. PICK u \in Nat : s = 2 * u + 1
    BY <1>1, <1>5, Parities
  <2>2. s >= 5
    BY <1>1, <2>1
  <2>3. PrimeNumber(2)
    <3>1. ASSUME NEW d \in Nat, IsFactor(d, 2) PROVE d = 1 \/ d = 2
      <4>1. d > 0 /\ d <= 2
        BY <3>1, FactorBounds
      <4>2. QED BY <4>1
    <3>2. QED BY <3>1 DEF PrimeNumber
  <2>4. IsPrime(2)
    BY <1>1, <2>3, PrimesAre
  <2>5. ASSUME IsPrime(s - 2) PROVE ~SammyIsSure[s]
    <3>1. 2 \in 2 .. h
      BY <1>2, <2>2
    <3>2. Unmistakable(2, s - 2)
      BY <2>4, <2>5 DEF Unmistakable
    <3>3. QED BY <1>3, <3>1, <3>2
  <2>6. ASSUME NEW a \in 2 .. h, Unmistakable(a, s - a) PROVE IsPrime(s - 2)
    <3>1. a \in Nat /\ 2 <= a /\ 2 * a <= s /\ s - a \in Nat /\ s - a <= LargestAsked
          /\ a <= LargestAsked
      BY <1>1, <1>2
    <3>2. PrimeNumber(a)
      BY <1>1, <2>6, <3>1, PrimesAre DEF Unmistakable
    <3>3. ASSUME NEW e \in Nat, PrimeNumber(e), e % 2 = 0 PROVE e = 2
      <4>1. PICK v \in Nat : e = 2 * v
        BY <3>3, Parities
      <4>2. IsFactor(2, e)
        BY <4>1, FactorWitness
      <4>3. QED BY <3>3, <4>2 DEF PrimeNumber
    <3>4. CASE a % 2 = 0
      <4>1. a = 2
        BY <3>1, <3>2, <3>3, <3>4
      <4>2. IsPrime(s - 2) \/ s - 2 = 2 * 2
        BY <2>6, <4>1 DEF Unmistakable
      <4>3. QED BY <2>1, <4>2
    <3>5. CASE a % 2 = 1
      <4>1. PICK v \in Nat : a = 2 * v + 1
        BY <3>1, <3>5, Parities
      <4>2. s - a = 2 * (u - v) /\ u - v \in Nat
        BY <2>1, <3>1, <4>1
      <4>3. (s - a) % 2 = 0
        BY <4>2, Parities
      <4>4. s - a # a * a
        BY <3>1, <3>5, <4>3, OddProducts
      <4>5. PrimeNumber(s - a)
        BY <1>1, <2>6, <3>1, <4>4, PrimesAre DEF Unmistakable
      <4>6. s - a = 2
        BY <3>1, <3>3, <4>3, <4>5
      <4>7. QED BY <1>1, <2>2, <3>1, <4>6
    <3>6. QED BY <3>1, <3>4, <3>5, Parities
  <2>7. SingleFactorPair(s) <=> IsPrime(s - 2)
    BY <1>5 DEF SingleFactorPair
  <2>8. QED BY <1>3, <2>5, <2>6, <2>7
<1>6. QED BY <1>1, <1>4, <1>5, Parities

\* The factors of 2^k times an odd number of one parity, its sum in a factor pair
\* is odd: odd themselves, or with the whole power.
Form(k, x, f) == IsFactor(f, x) \/ \E d \in Nat : IsFactor(d, x) /\ f = TwoTo[k] * d
Forms(k, limit, x) == {f \in 2 .. limit : Form(k, x, f)}
OfMultiplePairs(product, S) == {f \in S : ~SingleFactorPair(f + product \div f)}

\* An odd factor of 2^k * x divides x.
LEMMA OddFactorOfPower ==
  ASSUME NEW k \in Nat, NEW f \in Nat, f % 2 = 1, NEW x \in Nat, IsFactor(f, TwoTo[k] * x)
  PROVE  IsFactor(f, x)
<1> DEFINE S == {m \in Nat : IsFactor(f, TwoTo[m] * x) => IsFactor(f, x)}
<1>1. 0 \in S
  <2>1. TwoTo[0] * x = x
    BY PowerNat
  <2>2. QED BY <2>1
<1>2. ASSUME NEW m \in 1 .. k, m - 1 \in S PROVE m \in S
  <2> DEFINE j == m - 1
  <2>1. j \in Nat /\ m = j + 1 /\ m \in Nat
    OBVIOUS
  <2> HIDE DEF j
  <2>2. TwoTo[m] = 2 * TwoTo[j] /\ TwoTo[j] \in Nat
    BY <2>1, PowerNat
  <2>3. TwoTo[m] * x = 2 * (TwoTo[j] * x) /\ TwoTo[j] * x \in Nat
    BY <2>2, Products
  <2>4. IsFactor(f, TwoTo[m] * x) => IsFactor(f, TwoTo[j] * x)
    BY <2>3, OddFactor
  <2>5. j \in S
    BY <1>2 DEF j
  <2>6. QED BY <2>1, <2>4, <2>5
<1> HIDE DEF S
<1>3. k \in S
  BY <1>1, <1>2, UpTo
<1>4. QED BY <1>3 DEF S

\* Every form is a factor of the product.
LEMMA FormsDivide ==
  ASSUME NEW k \in Nat, NEW x \in Nat, NEW f \in Nat, Form(k, x, f)
  PROVE  IsFactor(f, TwoTo[k] * x)
<1>1. TwoTo[k] \in Nat
  BY PowerNat
<1>2. ASSUME IsFactor(f, x) PROVE IsFactor(f, TwoTo[k] * x)
  <2>1. IsFactor(x, TwoTo[k] * x) /\ TwoTo[k] * x \in Nat
    BY <1>1, FactorWitness, Products
  <2>2. QED BY <1>2, <2>1, FactorTrans
<1>3. ASSUME NEW d \in Nat, IsFactor(d, x), f = TwoTo[k] * d PROVE IsFactor(f, TwoTo[k] * x)
  <2>1. PICK c \in Nat : d * c = x
    BY <1>3 DEF IsFactor
  <2>2. f * c = TwoTo[k] * x
    BY <1>1, <1>3, <2>1, Products
  <2>3. QED BY <2>2, Zenon DEF IsFactor
<1>4. QED BY <1>2, <1>3 DEF Form

\* The pairs Peter looks at are those of the factors of these forms.
LEMMA PeterLooksAt ==
  ASSUME NEW s \in TestedSums, Goldbach, NEW k \in Nat, NEW n \in Nat, n % 2 = 1,
         NEW product \in Nat, product = TwoTo[k] * n, product > 0, product <= M * M
  PROVE  {f \in 2 .. isqrt64(product) : product % f = 0 /\ SammyIsSure[f + product \div f]}
           = OfMultiplePairs(product, Forms(k, isqrt64(product), n))
<1> DEFINE limit == isqrt64(product)
<1>1. limit \in Nat /\ limit * limit <= product
  BY RootFacts
<1> HIDE DEF limit
<1>2. TwoTo[k] \in Nat /\ LargestAsked \in Nat
  BY PowerNat, Sizes
<1>3. ASSUME NEW f \in 2 .. limit, IsFactor(f, product)
      PROVE  /\ SammyIsSure[f + product \div f] <=> ~SingleFactorPair(f + product \div f)
             /\ ~SingleFactorPair(f + product \div f) => Form(k, n, f)
  <2> DEFINE c == product \div f
  <2>1. f \in Nat /\ f >= 2 /\ f <= limit
    BY <1>1
  <2>2. c \in Nat /\ f * c = product
    <3>1. f > 0
      BY <2>1
    <3>2. QED BY <1>3, <2>1, <3>1, Remainder, Zenon
  <2> HIDE DEF c
  <2>3. f <= c
    <3>1. SUFFICES ASSUME c < f PROVE FALSE
      BY <2>1, <2>2
    <3>2. f * c < f * f /\ f * f <= f * limit /\ f * limit = limit * f
          /\ limit * f <= limit * limit
      BY <1>1, <2>1, <2>2, <3>1, Products
    <3>3. f * c \in Nat /\ f * f \in Nat /\ limit * f \in Nat /\ limit * limit \in Nat
      BY <1>1, <2>1, <2>2, Products
    <3>4. QED BY <1>1, <2>2, <3>2, <3>3
  <2>4. 2 * (f + c) <= product + 4
    <3>1. PICK x \in Nat : f = x + 2
      <4>1. f - 2 \in Nat /\ f = (f - 2) + 2
        BY <2>1
      <4>2. QED BY <4>1
    <3>2. PICK y \in Nat : c = y + 2
      <4>1. c - 2 \in Nat /\ c = (c - 2) + 2
        BY <2>1, <2>2, <2>3
      <4>2. QED BY <4>1
    <3>3. x * y \in Nat /\ (x + 2) * (y + 2) = x * y + 2 * x + 2 * y + 4
      OBVIOUS
    <3>4. product = x * y + 2 * x + 2 * y + 4
      BY <2>2, <3>1, <3>2, <3>3
    <3>5. QED BY <3>1, <3>2, <3>3, <3>4
  <2>5. f + c \in 4 .. LargestAsked
    <3>1. (f + c) - 2 \in Nat /\ f + c >= 4 /\ M * M \in Nat
      BY <2>1, <2>2, <2>3, Sizes, Products
    <3>2. 2 * ((f + c) - 2) <= M * M
      BY <2>1, <2>2, <2>4, <3>1
    <3>3. ((f + c) - 2) + 2 <= LargestAsked
      BY <3>1, <3>2, Sizes
    <3>4. QED BY <1>2, <2>1, <2>2, <3>1, <3>3
  <2>6. SammyIsSure[f + c] <=> ~SingleFactorPair(f + c)
    BY <1>2, <2>5, SureIs
  <2>7. ASSUME ~SingleFactorPair(f + c) PROVE Form(k, n, f)
    <3>1. (f + c) % 2 # 0
      BY <2>7 DEF SingleFactorPair
    <3>2. CASE f % 2 = 1
      <4>1. IsFactor(f, n)
        BY <1>3, <2>1, <3>2, OddFactorOfPower
      <4>2. QED BY <4>1 DEF Form
    <3>3. CASE f % 2 = 0
      <4>1. PICK u \in Nat : f = 2 * u
        BY <2>1, <3>3, Parities
      <4>2. c % 2 = 1
        <5>1. SUFFICES ASSUME c % 2 = 0 PROVE FALSE
          BY <2>2, Parities
        <5>2. PICK v \in Nat : c = 2 * v
          BY <2>2, <5>1, Parities
        <5>3. f + c = 2 * (u + v)
          BY <4>1, <5>2
        <5>4. QED BY <3>1, <5>3, Parities
      <4>3. IsFactor(c, n)
        <5>1. IsFactor(c, product)
          BY <2>1, <2>2, FactorWitness
        <5>2. QED BY <2>2, <4>2, <5>1, OddFactorOfPower
      <4>4. PICK d \in Nat : c * d = n
        BY <4>3 DEF IsFactor
      <4>5. c > 0
        BY <2>1, <2>2, <2>3
      <4>6. c * f = c * (TwoTo[k] * d)
        <5>1. TwoTo[k] * (c * d) = (TwoTo[k] * c) * d /\ TwoTo[k] * c = c * TwoTo[k]
              /\ (c * TwoTo[k]) * d = c * (TwoTo[k] * d)
          BY <1>2, <2>2, Products
        <5>2. c * f = product
          BY <2>1, <2>2, Products
        <5>3. QED BY <4>4, <5>1, <5>2
      <4>7. f = TwoTo[k] * d
        <5>1. TwoTo[k] * d \in Nat
          BY <1>2, Products
        <5>2. QED BY <2>1, <2>2, <4>5, <4>6, <5>1, Products
      <4>8. IsFactor(d, n)
        BY <2>2, <4>4, FactorWitness
      <4>9. QED BY <4>7, <4>8, Zenon DEF Form
    <3>4. QED BY <2>1, <3>2, <3>3, Parities
  <2>8. QED BY <2>6, <2>7 DEF c
<1>4. ASSUME NEW f \in 2 .. limit
      PROVE  /\ product % f = 0 <=> IsFactor(f, product)
             /\ Form(k, n, f) => IsFactor(f, product)
  <2>1. f \in Nat /\ f > 0
    BY <1>1
  <2>2. QED BY <2>1, Remainder, FormsDivide
<1>5. QED BY <1>3, <1>4 DEF OfMultiplePairs, Forms, limit

-----------------------------------------------------------------------------
(* The factors in the array *)

\* q holds the members of S, each once.
Enumerates(q, S) ==
  /\ q \in Seq(Nat) /\ S = {q[i] : i \in 1 .. Len(q)}
  /\ \A i, j \in 1 .. Len(q) : q[i] = q[j] => i = j

LEMMA EnumeratesFew ==
  ASSUME NEW x \in Nat
  PROVE  Enumerates(<< >>, {}) /\ Enumerates(<<x>>, {x})
<1>1. << >> \in Seq(Nat) /\ Len(<< >>) = 0 /\ 1 .. 0 = {}
  OBVIOUS
<1>2. Enumerates(<< >>, {})
  BY <1>1 DEF Enumerates
<1>3. <<x>> \in Seq(Nat) /\ Len(<<x>>) = 1 /\ 1 .. 1 = {1} /\ <<x>>[1] = x
  OBVIOUS
<1>4. Enumerates(<<x>>, {x})
  <2> DEFINE q == <<x>>
  <2>1. q \in Seq(Nat) /\ Len(q) = 1 /\ 1 .. 1 = {1} /\ q[1] = x
    BY <1>3
  <2> HIDE DEF q
  <2>2. {q[i] : i \in 1 .. Len(q)} = {x}
    BY <2>1
  <2>3. Enumerates(q, {x})
    BY <2>1, <2>2 DEF Enumerates
  <2>4. QED BY <2>3 DEF q
<1>5. QED BY <1>2, <1>4

LEMMA EnumeratesConcat ==
  ASSUME NEW p, NEW S, Enumerates(p, S), NEW q, NEW T, Enumerates(q, T), S \intersect T = {}
  PROVE  Enumerates(p \o q, S \union T)
<1> DEFINE r == p \o q
           m == Len(p)
           n == Len(q)
<1>1. /\ p \in Seq(Nat) /\ q \in Seq(Nat) /\ m \in Nat /\ n \in Nat
      /\ S = {p[i] : i \in 1 .. m} /\ T = {q[i] : i \in 1 .. n}
  BY DEF Enumerates
<1>2. /\ r \in Seq(Nat) /\ Len(r) = m + n
      /\ \A i \in 1 .. m + n : r[i] = IF i <= m THEN p[i] ELSE q[i - m]
  BY <1>1
<1> HIDE DEF r
<1>3. ASSUME NEW i \in 1 .. m + n
      PROVE  \/ i \in 1 .. m /\ r[i] = p[i] /\ r[i] \in S
             \/ i - m \in 1 .. n /\ r[i] = q[i - m] /\ r[i] \in T
  <2>1. CASE i <= m
    BY <1>1, <1>2, <2>1
  <2>2. CASE ~(i <= m)
    BY <1>1, <1>2, <2>2
  <2>3. QED BY <2>1, <2>2
<1>4. \A i \in 1 .. m : i \in 1 .. m + n /\ r[i] = p[i]
  BY <1>1, <1>2
<1>5. \A i \in 1 .. n : m + i \in 1 .. m + n /\ r[m + i] = q[i]
  <2> TAKE i \in 1 .. n
  <2>1. m + i \in 1 .. m + n /\ ~(m + i <= m) /\ (m + i) - m = i
    BY <1>1
  <2>2. QED BY <1>2, <2>1
<1>6. S \union T = {r[i] : i \in 1 .. Len(r)}
  <2>1. ASSUME NEW x \in S PROVE \E i \in 1 .. m + n : r[i] = x
    BY <1>1, <1>4
  <2>2. ASSUME NEW x \in T PROVE \E i \in 1 .. m + n : r[i] = x
    BY <1>1, <1>5
  <2>3. \A i \in 1 .. m + n : r[i] \in S \union T
    BY <1>3
  <2>4. QED BY <1>2, <2>1, <2>2, <2>3
<1>7. ASSUME NEW i \in 1 .. m + n, NEW j \in 1 .. m + n, r[i] = r[j] PROVE i = j
  <2>1. CASE i \in 1 .. m /\ r[i] = p[i] /\ j \in 1 .. m /\ r[j] = p[j]
    BY <1>7, <2>1 DEF Enumerates
  <2>2. CASE i - m \in 1 .. n /\ r[i] = q[i - m] /\ j - m \in 1 .. n /\ r[j] = q[j - m]
    <3>1. i - m = j - m
      BY <1>7, <2>2 DEF Enumerates
    <3>2. QED BY <1>1, <3>1
  <2>3. r[i] \in S /\ r[j] \in T => FALSE
    BY <1>7
  <2>4. r[i] \in T /\ r[j] \in S => FALSE
    BY <1>7
  <2>5. QED BY <1>3, <2>1, <2>2, <2>3, <2>4
<1>8. Enumerates(r, S \union T)
  BY <1>2, <1>6, <1>7 DEF Enumerates
<1>9. QED BY <1>8 DEF r

\* The count over the array is the count over the set.
LEMMA EnumeratesCounts ==
  ASSUME NEW q, NEW S, Enumerates(q, S), NEW product
  PROVE  /\ IsFiniteSet(S) /\ IsFiniteSet(OfMultiplePairs(product, S))
         /\ Multiples(product, q) = Cardinality(OfMultiplePairs(product, S))
         /\ Multiples(product, q) \in Nat
<1> DEFINE I == {i \in DOMAIN q : ~SingleFactorPair(q[i] + product \div q[i])}
           T == OfMultiplePairs(product, S)
           g == [i \in I |-> q[i]]
<1>1. q \in Seq(Nat) /\ DOMAIN q = 1 .. Len(q) /\ Len(q) \in Nat
  BY DEF Enumerates
<1>2. IsFiniteSet(I)
  <2>1. IsFiniteSet(1 .. Len(q))
    BY <1>1, FS_Interval
  <2>2. I \subseteq 1 .. Len(q)
    BY <1>1
  <2>3. QED BY <2>1, <2>2, FS_Subset
<1>3. g \in [I -> T]
  BY <1>1 DEF Enumerates, OfMultiplePairs
<1>4. \A x \in T : \E i \in I : g[i] = x
  BY <1>1 DEF Enumerates, OfMultiplePairs
<1>5. \A i, j \in I : g[i] = g[j] => i = j
  BY <1>1 DEF Enumerates
<1> HIDE DEF g, I, T
<1>6. g \in Bijection(I, T)
  BY <1>3, <1>4, <1>5 DEF Bijection, Injection, IsInjective, Surjection
<1>7. IsFiniteSet(T) /\ Cardinality(T) = Cardinality(I)
  BY <1>2, <1>6, FS_Bijection DEF ExistsBijection
<1>8. IsFiniteSet(S)
  <2> DEFINE h == [i \in 1 .. Len(q) |-> q[i]]
  <2>1. h \in Surjection(1 .. Len(q), S)
    BY <1>1 DEF Surjection, Enumerates
  <2> HIDE DEF h
  <2>2. IsFiniteSet(1 .. Len(q))
    BY <1>1, FS_Interval
  <2>3. QED BY <2>1, <2>2, FS_Surjection DEF ExistsSurjection
<1>9. Multiples(product, q) = Cardinality(I)
  BY DEF Multiples, I
<1>10. QED BY <1>2, <1>7, <1>8, <1>9, FS_CardinalityType DEF T

LEMMA CountsAdd ==
  ASSUME NEW product, NEW S, NEW T, S \intersect T = {},
         IsFiniteSet(OfMultiplePairs(product, S)), IsFiniteSet(OfMultiplePairs(product, T))
  PROVE  Cardinality(OfMultiplePairs(product, S \union T))
           = Cardinality(OfMultiplePairs(product, S)) + Cardinality(OfMultiplePairs(product, T))
<1> DEFINE A == OfMultiplePairs(product, S)
           B == OfMultiplePairs(product, T)
<1>1. OfMultiplePairs(product, S \union T) = A \union B /\ A \intersect B = {}
  BY DEF OfMultiplePairs
<1> HIDE DEF A, B
<1>2. IsFiniteSet(A) /\ IsFiniteSet(B)
  BY DEF A, B
<1>3. Cardinality(A \union B) = Cardinality(A) + Cardinality(B) - Cardinality(A \intersect B)
  BY <1>2, FS_Union
<1>4. Cardinality(A \intersect B) = 0
  BY <1>1, FS_EmptySet
<1>5. Cardinality(A) \in Nat /\ Cardinality(B) \in Nat
  BY <1>2, FS_CardinalityType
<1>6. Cardinality(OfMultiplePairs(product, S \union T)) = Cardinality(A) + Cardinality(B)
  <2>1. Cardinality(A \union B) = Cardinality(A) + Cardinality(B)
    BY <1>3, <1>4, <1>5
  <2>2. QED BY <1>1, <2>1, Zenon
<1>7. QED BY <1>6 DEF A, B

-----------------------------------------------------------------------------
(* The walk over the settled factors *)

LEMMA RunEndFacts ==
  ASSUME NEW t \in Trials, t.settled <= Len(t.factors), NEW f \in 1 .. t.settled
  PROVE  /\ RunEnd(t, f) \in f .. t.settled
         /\ \A g \in f .. RunEnd(t, f) : t.factors[g] >= t.factors[f]
<1>1. t.settled \in Nat /\ t.factors \in Seq(Nat) /\ Len(t.factors) \in Nat
  BY DEF Trials
<1>2. \A g \in 1 .. t.settled : t.factors[g] \in Nat
  BY <1>1
<1> DEFINE n == t.settled
           a(g) == t.factors[g]
           T == {g \in f .. n - 1 : a(g + 1) < a(f)}
           Ends(e) == (\A g \in f .. e : a(g) >= a(f)) /\ (e = n \/ a(e + 1) < a(f))
<1>3. ASSUME NEW e \in f .. n, \A g \in f .. e - 1 : g \notin T
      PROVE  \A g \in f .. e : a(g) >= a(f)
  <2> TAKE g \in f .. e
  <2>1. CASE g = f
    BY <1>1, <1>2, <2>1
  <2>2. CASE g # f
    <3>1. g - 1 \in f .. e - 1 /\ g - 1 \in f .. n - 1 /\ (g - 1) + 1 = g /\ g \in 1 .. n
      BY <1>1, <2>2
    <3>2. ~(a((g - 1) + 1) < a(f))
      BY <1>3, <3>1
    <3>3. QED BY <1>2, <3>1, <3>2
  <2>3. QED BY <2>1, <2>2
<1>4. \E e \in f .. n : Ends(e)
  <2>1. CASE T = {}
    <3>1. n \in f .. n
      BY <1>1
    <3>2. \A g \in f .. n : a(g) >= a(f)
      BY <1>3, <2>1, <3>1
    <3>3. QED BY <3>1, <3>2
  <2>2. CASE T # {}
    <3>1. T \in SUBSET Nat
      BY <1>1
    <3>2. PICK e \in T : \A g \in T : e <= g
      <4> HIDE DEF T
      <4>1. QED BY <2>2, <3>1, LeastElement
    <3>3. e \in f .. n - 1 /\ a(e + 1) < a(f) /\ e \in f .. n
      BY <1>1
    <3>4. \A g \in f .. e - 1 : g \notin T
      BY <3>2, <3>3
    <3>5. \A g \in f .. e : a(g) >= a(f)
      BY <1>3, <3>3, <3>4
    <3>6. QED BY <3>3, <3>5
  <2>3. QED BY <2>1, <2>2
<1>5. RunEnd(t, f) = CHOOSE e \in f .. n : Ends(e)
  BY DEF RunEnd
<1>6. RunEnd(t, f) \in f .. n /\ Ends(RunEnd(t, f))
  <2> HIDE DEF Ends
  <2>1. QED BY <1>4, <1>5
<1>7. QED BY <1>6

\* The walk is what its recursion says.
LEMMA WalkExists ==
  ASSUME NEW t \in Trials, t.settled <= Len(t.factors)
  PROVE  Walk(t) = [f \in 1 .. t.settled + 1 |->
                      IF f > t.settled THEN << >>
                      ELSE IF t.factors[f] * t.factor <= t.limit
                           THEN <<t.factors[f] * t.factor>> \o Walk(t)[f + 1]
                           ELSE Walk(t)[RunEnd(t, f) + 1]]
<1> DEFINE n == t.settled
           Kept(f) == t.factors[f] * t.factor <= t.limit
           New(f) == <<t.factors[f] * t.factor>>
           Body(w, f) == IF f > n THEN << >>
                         ELSE IF Kept(f) THEN New(f) \o w[f + 1] ELSE w[RunEnd(t, f) + 1]
           Table(w, m) == w = [f \in n + 1 - m .. n + 1 |-> Body(w, f)]
           S == {m \in Nat : m <= n => \E w : Table(w, m)}
<1>1. n \in Nat
  BY DEF Trials
<1>2. \A f \in 1 .. n : RunEnd(t, f) \in f .. n
  BY RunEndFacts
<1>3. 0 \in S
  <2> DEFINE w == [f \in n + 1 - 0 .. n + 1 |-> << >>]
  <2>1. \A f \in n + 1 - 0 .. n + 1 : Body(w, f) = << >>
    BY <1>1
  <2>2. Table(w, 0)
    BY <2>1
  <2> HIDE DEF Table, w
  <2>3. QED BY <2>2
<1>4. ASSUME NEW m \in 1 .. n, m - 1 \in S PROVE m \in S
  <2>1. m - 1 <= n
    BY <1>1
  <2>2. PICK w : Table(w, m - 1)
    BY <1>4, <2>1
  <2> DEFINE k == n + 1 - m
             h == [f \in k .. n + 1 |-> IF f = k THEN Body(w, f) ELSE w[f]]
  <2>3. k \in 1 .. n /\ n + 1 - (m - 1) = k + 1
    BY <1>1
  <2> HIDE DEF k
  <2>4. w = [f \in k + 1 .. n + 1 |-> Body(w, f)]
    BY <2>2, <2>3
  <2>5. \A f \in k + 1 .. n + 1 : h[f] = w[f]
    BY <1>1, <2>3
  <2>6. ASSUME NEW f \in k .. n + 1, ~(f > n) PROVE h[f + 1] = w[f + 1] /\ h[RunEnd(t, f) + 1] = w[RunEnd(t, f) + 1]
    <3>1. f \in 1 .. n /\ f + 1 \in k + 1 .. n + 1
      BY <1>1, <2>3, <2>6
    <3>2. RunEnd(t, f) + 1 \in k + 1 .. n + 1
      <4> DEFINE e == RunEnd(t, f)
      <4>1. e \in f .. n
        BY <1>2, <3>1
      <4> HIDE DEF e
      <4>2. e + 1 \in k + 1 .. n + 1
        BY <1>1, <2>3, <3>1, <4>1
      <4>3. QED BY <4>2 DEF e
    <3>3. QED BY <2>5, <3>1, <3>2
  <2> HIDE DEF Kept, New
  <2>7. ASSUME NEW f \in k .. n + 1 PROVE Body(h, f) = Body(w, f)
    <3>1. CASE f > n
      BY <3>1
    <3>2. CASE ~(f > n)
      <4>1. h[f + 1] = w[f + 1] /\ h[RunEnd(t, f) + 1] = w[RunEnd(t, f) + 1]
        BY <2>6, <3>2
      <4> HIDE DEF h
      <4>2. QED BY <4>1
    <3>3. QED BY <3>1, <3>2
  <2>8. ASSUME NEW f \in k .. n + 1 PROVE h[f] = Body(h, f)
    <3>1. CASE f = k
      <4>1. h[f] = Body(w, f)
        BY <3>1
      <4>2. QED BY <2>7, <4>1
    <3>2. CASE f # k
      <4>1. f \in k + 1 .. n + 1 /\ h[f] = w[f]
        BY <1>1, <2>3, <3>2
      <4>2. w[f] = Body(w, f)
        <5> HIDE DEF Body, h
        <5>1. QED BY <2>4, <4>1
      <4>3. QED BY <2>7, <4>1, <4>2
    <3>3. QED BY <3>1, <3>2
  <2>9. h = [f \in k .. n + 1 |-> Body(h, f)]
    <3>1. h = [f \in k .. n + 1 |-> h[f]]
      OBVIOUS
    <3> HIDE DEF h, Body
    <3>2. QED BY <2>8, <3>1
  <2>10. Table(h, m)
    BY <2>9 DEF k
  <2> HIDE DEF Table, h
  <2>11. m \in Nat
    OBVIOUS
  <2>12. QED BY <2>10, <2>11
<1>5. n \in S
  <2> HIDE DEF S, n
  <2>1. QED BY <1>1, <1>3, <1>4, UpTo
<1>6. PICK w : Table(w, n)
  <2> HIDE DEF Table
  <2>1. n <= n
    BY <1>1
  <2>2. QED BY <1>5, <2>1
<1>7. n + 1 - n = 1
  BY <1>1
<1>8. \E v : v = [f \in 1 .. n + 1 |-> Body(v, f)]
  <2>1. w = [f \in 1 .. n + 1 |-> Body(w, f)]
    BY <1>6, <1>7
  <2> HIDE DEF Body
  <2>2. QED BY <2>1
<1>9. QED BY <1>8 DEF Walk

\* It lists the products that stay under the limit, each once: what a run that is
\* left early still holds is no smaller.
KeptFrom(t, f) ==
  {t.factors[i] * t.factor : i \in {j \in f .. t.settled : t.factors[j] * t.factor <= t.limit}}

LEMMA WalkLists ==
  ASSUME NEW t \in Trials, t.settled <= Len(t.factors), t.factor > 0,
         \A i, j \in 1 .. t.settled : t.factors[i] = t.factors[j] => i = j
  PROVE  \A f \in 1 .. t.settled + 1 : Enumerates(Walk(t)[f], KeptFrom(t, f))
<1> DEFINE n == t.settled
           a(i) == t.factors[i]
           x(i) == t.factors[i] * t.factor
           Good(f) == Enumerates(Walk(t)[f], KeptFrom(t, f))
           S == {m \in Nat : \A f \in n + 1 - m .. n + 1 : f >= 1 => Good(f)}
<1>1. /\ n \in Nat /\ t.factor \in Nat /\ t.limit \in Nat /\ t.factors \in Seq(Nat)
      /\ \A i \in 1 .. n : a(i) \in Nat /\ x(i) \in Nat
  <2>1. n \in Nat /\ t.factor \in Nat /\ t.limit \in Nat /\ t.factors \in Seq(Nat)
    BY DEF Trials
  <2>2. \A i \in 1 .. n : a(i) \in Nat
    BY <2>1
  <2>3. \A i \in 1 .. n : x(i) \in Nat
    BY <2>1, <2>2, Products
  <2>4. QED BY <2>1, <2>2, <2>3
<1>2. /\ Walk(t)[n + 1] = << >>
      /\ \A f \in 1 .. n : Walk(t)[f] = IF x(f) <= t.limit THEN <<x(f)>> \o Walk(t)[f + 1]
                                        ELSE Walk(t)[RunEnd(t, f) + 1]
  <2> DEFINE Body(f) == IF f > n THEN << >>
                        ELSE IF x(f) <= t.limit THEN <<x(f)>> \o Walk(t)[f + 1]
                             ELSE Walk(t)[RunEnd(t, f) + 1]
  <2>1. Walk(t) = [f \in 1 .. n + 1 |-> Body(f)]
    BY WalkExists
  <2>2. \A f \in 1 .. n + 1 : Walk(t)[f] = Body(f)
    <3> HIDE DEF Body
    <3>1. QED BY <2>1
  <2>3. n + 1 \in 1 .. n + 1 /\ n + 1 > n /\ \A f \in 1 .. n : f \in 1 .. n + 1 /\ ~(f > n)
    BY <1>1
  <2>4. QED BY <2>2, <2>3
<1>3. 0 \in S
  <2>1. KeptFrom(t, n + 1) = {}
    BY <1>1 DEF KeptFrom
  <2>2. Good(n + 1)
    BY <1>2, <2>1, EnumeratesFew
  <2>3. ASSUME NEW f \in n + 1 - 0 .. n + 1 PROVE Good(f)
    <3>1. f = n + 1
      BY <1>1
    <3> HIDE DEF Good
    <3>2. QED BY <2>2, <3>1
  <2>4. QED BY <2>3
<1>4. ASSUME NEW m \in 1 .. n, m - 1 \in S PROVE m \in S
  <2> DEFINE f == n + 1 - m
  <2>1. f \in 1 .. n /\ m \in Nat
    BY <1>1
  <2>2. \A g \in f + 1 .. n + 1 : Good(g)
    <3> HIDE DEF Good
    <3>1. n + 1 - (m - 1) = f + 1
      BY <1>1
    <3>2. \A g \in n + 1 - (m - 1) .. n + 1 : g >= 1 => Good(g)
      BY <1>4
    <3> HIDE DEF f
    <3>3. \A g \in f + 1 .. n + 1 : g >= 1
      BY <2>1
    <3>4. QED BY <3>1, <3>2, <3>3
  <2> HIDE DEF f
  <2>3. ASSUME x(f) <= t.limit PROVE Good(f)
    <3>1. Walk(t)[f] = <<x(f)>> \o Walk(t)[f + 1]
      BY <1>2, <2>1, <2>3
    <3>2. KeptFrom(t, f) = {x(f)} \union KeptFrom(t, f + 1)
      <4>1. f .. n = {f} \union (f + 1 .. n)
        BY <1>1, <2>1
      <4>2. QED BY <2>3, <4>1 DEF KeptFrom
    <3>3. x(f) \notin KeptFrom(t, f + 1)
      <4>1. SUFFICES ASSUME NEW i \in f + 1 .. n, x(f) = x(i) PROVE FALSE
        BY DEF KeptFrom
      <4>2. i \in 1 .. n /\ i # f
        BY <1>1, <2>1
      <4>3. t.factor * a(f) = t.factor * a(i)
        <5>1. \A u, v \in Nat : u * v = v * u
          OBVIOUS
        <5>2. a(f) \in Nat /\ a(i) \in Nat /\ t.factor \in Nat
          BY <1>1, <2>1, <4>2
        <5>3. x(f) = t.factor * a(f) /\ x(i) = t.factor * a(i)
          BY <5>1, <5>2
        <5>4. QED BY <4>1, <5>3
      <4>4. a(f) = a(i)
        <5>1. a(f) \in Nat /\ a(i) \in Nat
          BY <1>1, <2>1, <4>2
        <5> HIDE DEF a
        <5>2. t.factor \in Nat /\ t.factor > 0
          BY <1>1
        <5>3. QED BY <4>3, <5>1, <5>2, Cancel
      <4>5. QED BY <2>1, <4>2, <4>4
    <3>4. Enumerates(Walk(t)[f + 1], KeptFrom(t, f + 1))
      <4>1. f + 1 \in f + 1 .. n + 1
        BY <1>1, <2>1
      <4>2. QED BY <2>2, <4>1
    <3>5. Enumerates(<<x(f)>>, {x(f)})
      BY <1>1, <2>1, EnumeratesFew
    <3>6. {x(f)} \intersect KeptFrom(t, f + 1) = {}
      BY <3>3
    <3> HIDE DEF x
    <3>7. Enumerates(<<x(f)>> \o Walk(t)[f + 1], {x(f)} \union KeptFrom(t, f + 1))
      BY <3>4, <3>5, <3>6, EnumeratesConcat
    <3>8. QED BY <3>1, <3>2, <3>7
  <2>4. ASSUME ~(x(f) <= t.limit) PROVE Good(f)
    <3> DEFINE e == RunEnd(t, f)
    <3>1. e \in f .. n /\ \A g \in f .. e : a(g) >= a(f)
      BY <2>1, RunEndFacts
    <3>2. Walk(t)[f] = Walk(t)[e + 1]
      BY <1>2, <2>1, <2>4
    <3> HIDE DEF e
    <3>3. ASSUME NEW g \in f .. e PROVE ~(x(g) <= t.limit)
      <4>1. g \in 1 .. n /\ a(f) <= a(g)
        BY <1>1, <2>1, <3>1
      <4>2. t.factor * a(f) <= t.factor * a(g)
        <5>1. a(f) \in Nat /\ a(g) \in Nat
          BY <1>1, <2>1, <4>1
        <5> HIDE DEF a
        <5>2. QED BY <1>1, <4>1, <5>1, Products
      <4>3. x(f) = t.factor * a(f) /\ x(g) = t.factor * a(g) /\ x(f) \in Nat /\ x(g) \in Nat
        <5>1. t.factor \in Nat /\ a(f) \in Nat /\ a(g) \in Nat
          BY <1>1, <2>1, <4>1
        <5>2. x(f) = a(f) * t.factor /\ x(g) = a(g) * t.factor
          OBVIOUS
        <5> HIDE DEF x, a
        <5>3. QED BY <5>1, <5>2, Products
      <4> HIDE DEF x, a
      <4>4. x(f) <= x(g)
        BY <4>2, <4>3
      <4>5. QED BY <1>1, <2>4, <4>3, <4>4
    <3>4. KeptFrom(t, f) = KeptFrom(t, e + 1)
      <4>1. f .. n = (f .. e) \union (e + 1 .. n)
        BY <1>1, <2>1, <3>1
      <4>2. {j \in f .. n : x(j) <= t.limit} = {j \in e + 1 .. n : x(j) <= t.limit}
        BY <3>3, <4>1
      <4>3. QED BY <4>2 DEF KeptFrom
    <3>5. e + 1 \in f + 1 .. n + 1
      BY <1>1, <2>1, <3>1
    <3>6. QED BY <2>2, <3>2, <3>4, <3>5
  <2>5. Good(f)
    BY <2>3, <2>4
  <2>6. ASSUME NEW g \in n + 1 - m .. n + 1 PROVE Good(g)
    <3>1. g = f \/ g \in f + 1 .. n + 1
      BY <1>1 DEF f
    <3> HIDE DEF Good
    <3>2. QED BY <2>2, <2>5, <3>1
  <2> HIDE DEF Good
  <2>7. QED BY <2>1, <2>6
<1>5. n \in S
  <2> HIDE DEF S, n
  <2>1. QED BY <1>1, <1>3, <1>4, UpTo
<1>6. n + 1 - n = 1
  BY <1>1
<1> HIDE DEF Good
<1>7. \A f \in 1 .. n + 1 : f >= 1 => Good(f)
  BY <1>5, <1>6
<1>8. \A f \in 1 .. n + 1 : Good(f)
  BY <1>1, <1>7
<1>9. QED BY <1>8 DEF Good

LEMMA ExtendedLists ==
  ASSUME NEW t \in Trials, t.settled <= Len(t.factors), t.factor > 0,
         \A i \in 1 .. t.settled : t.factors[i] >= 2,
         \A i, j \in 1 .. t.settled : t.factors[i] = t.factors[j] => i = j
  PROVE  Enumerates(Extended(t), {t.factor} \union KeptFrom(t, 1))
<1>1. t.settled \in Nat /\ t.factor \in Nat /\ t.factors \in Seq(Nat)
  BY DEF Trials
<1>2. Enumerates(Walk(t)[1], KeptFrom(t, 1))
  <2>1. 1 \in 1 .. t.settled + 1
    BY <1>1
  <2>2. QED BY <2>1, WalkLists
<1>3. t.factor \notin KeptFrom(t, 1)
  <2>1. SUFFICES ASSUME NEW i \in 1 .. t.settled, t.factors[i] * t.factor = t.factor
                 PROVE  FALSE
    BY DEF KeptFrom
  <2> DEFINE a == t.factors[i]
  <2>2. a \in Nat /\ a >= 2
    BY <1>1
  <2>3. t.factor * a = t.factor * 1
    <3>1. a * t.factor = t.factor * a /\ t.factor * 1 = t.factor
      BY <1>1, <2>2, Products
    <3>2. QED BY <2>1, <3>1
  <2> HIDE DEF a
  <2>4. a = 1
    BY <1>1, <2>2, <2>3, Products
  <2>5. QED BY <2>2, <2>4
<1>4. {t.factor} \intersect KeptFrom(t, 1) = {}
  BY <1>3
<1>5. QED BY <1>1, <1>2, <1>4, EnumeratesFew, EnumeratesConcat DEF Extended

-----------------------------------------------------------------------------
(* The invariant of a trial *)

\* b is what has been taken out of the odd product, a the part of it without the
\* prime in hand.
TrialShape(t) ==
  /\ t \in Trials
  /\ t.power2 >= 1 /\ t.oddProduct % 2 = 1
  /\ Product(t) <= M * M /\ t.limit = isqrt64(Product(t))

PrimeInHand(t, a, b) ==
  /\ t.test * b = t.oddProduct
  /\ PrimeNumber(t.prime) /\ t.prime % 2 = 1
  /\ t.temp = t.test \div t.prime
  /\ t.factor % 2 = 1 /\ t.factor * a = b * t.prime
  /\ ~IsFactor(t.factor, b)
  /\ \A d \in Nat : IsFactor(d, b * t.prime) =>
       IsFactor(d, b) \/ \E e \in Nat : IsFactor(e, a) /\ d = t.factor * e

\* Smaller primes are done with, and larger ones have not been met.
PrimesDone(t, b) ==
  \A r \in Nat : PrimeNumber(r) =>
    /\ IsFactor(r, b) => r <= t.prime
    /\ r < t.prime /\ r % 2 = 1 => ~IsFactor(r, t.test)

FactorsHeld(t, a, b) ==
  /\ t.settled <= Len(t.factors)
  /\ Enumerates(t.factors, Forms(t.power2, t.limit, b))
  /\ {t.factors[i] : i \in 1 .. t.settled} = Forms(t.power2, t.limit, a)
  /\ t.multiple = Cardinality(OfMultiplePairs(Product(t), Forms(t.power2, t.limit, b)))

OnTheList(t, list) ==
  t.test = 1 \/ t.test = t.prime
  \/ (t.index + 1 \in 1 .. Len(list) /\ t.prime = list[t.index + 1])

TrialWith(t, list, a, b) ==
  TrialShape(t) /\ PrimeInHand(t, a, b) /\ PrimesDone(t, b) /\ FactorsHeld(t, a, b)
  /\ OnTheList(t, list)

LEMMA ShapeFacts ==
  ASSUME NEW s \in TestedSums, NEW t, TrialShape(t)
  PROVE  /\ t.power2 \in Nat /\ t.oddProduct \in Nat /\ t.oddProduct > 0
         /\ TwoTo[t.power2] \in Nat /\ TwoTo[t.power2] >= 2
         /\ Product(t) \in Nat /\ Product(t) > 0 /\ Product(t) = TwoTo[t.power2] * t.oddProduct
         /\ 2 * t.oddProduct <= Product(t) /\ t.oddProduct <= LargestAsked
         /\ LargestAsked \in Nat /\ M \in Nat
         /\ t.limit \in Nat /\ t.limit <= M /\ t.limit * t.limit <= Product(t)
<1>1. t.power2 \in Nat /\ t.oddProduct \in Nat /\ t.power2 >= 1 /\ t.oddProduct % 2 = 1
  BY DEF TrialShape, Trials
<1>2. t.oddProduct > 0
  BY <1>1
<1>3. TwoTo[t.power2] \in Nat /\ TwoTo[t.power2] >= 2
  BY <1>1, PowerNat
<1> DEFINE k == TwoTo[t.power2]
           n == t.oddProduct
           p == Product(t)
<1>4. p \in Nat /\ p = k * n /\ 2 * n <= p
  <2>1. p = k * n
    BY DEF Product
  <2> HIDE DEF p, k, n
  <2>2. k \in Nat /\ n \in Nat /\ k >= 2
    BY <1>1, <1>3 DEF k, n
  <2>3. k * n = n * k /\ n * 2 <= n * k /\ n * 2 = 2 * n /\ n * k \in Nat
    BY <2>2, Products
  <2>4. QED BY <2>1, <2>3
<1>5. M \in Nat /\ LargestAsked \in Nat /\ M * M \in Nat
  BY Sizes, Products
<1>6. p <= M * M /\ t.limit = isqrt64(p)
  BY DEF TrialShape
<1>7. n + 2 <= LargestAsked
  <2>1. 2 * n <= M * M
    BY <1>1, <1>4, <1>5, <1>6
  <2>2. QED BY <1>1, <2>1, Sizes
<1> HIDE DEF p, k, n
<1>8. t.limit \in Nat /\ t.limit * t.limit <= p
  BY <1>4, <1>6, RootFacts
<1>9. t.limit <= M
  <2> DEFINE l == t.limit
  <2>1. SUFFICES ASSUME M < l PROVE FALSE
    BY <1>5, <1>8
  <2>2. l \in Nat /\ l * l <= p
    BY <1>8
  <2> HIDE DEF l
  <2>3. M * M <= M * l /\ M * l = l * M /\ l * M < l * l /\ M * l \in Nat /\ l * l \in Nat
    BY <1>5, <2>1, <2>2, Products
  <2>4. QED BY <1>4, <1>5, <1>6, <2>2, <2>3
<1>10. p > 0 /\ n <= LargestAsked
  BY <1>1, <1>2, <1>4, <1>5, <1>7 DEF n
<1>11. QED BY <1>1, <1>2, <1>3, <1>4, <1>5, <1>8, <1>9, <1>10 DEF p, k, n

LEMMA HandFacts ==
  ASSUME NEW s \in TestedSums, NEW t, TrialShape(t),
         NEW a \in Nat, NEW b \in Nat, PrimeInHand(t, a, b)
  PROVE  /\ t.test \in Nat /\ t.test > 0 /\ t.test % 2 = 1 /\ b > 0 /\ b % 2 = 1
         /\ t.test <= t.oddProduct /\ t.test <= LargestAsked
         /\ IsPrime(t.test) <=> PrimeNumber(t.test)
         /\ t.prime \in Nat /\ t.prime >= 3 /\ t.factor \in Nat /\ t.factor >= 2 /\ a > 0
         /\ t.temp \in Nat
         /\ Divides(t) <=> IsFactor(t.prime, t.test)
<1>1. /\ t.test \in Nat /\ t.prime \in Nat /\ t.factor \in Nat /\ t.temp \in Nat
      /\ t.oddProduct \in Nat /\ t.oddProduct > 0 /\ t.oddProduct % 2 = 1
      /\ t.oddProduct <= LargestAsked /\ LargestAsked \in Nat
  BY ShapeFacts DEF TrialShape, Trials
<1>2. t.test * b = t.oddProduct
  BY DEF PrimeInHand
<1>3. t.test % 2 = 1 /\ b % 2 = 1
  <2>1. (t.test * b) % 2 = 1
    BY <1>1, <1>2
  <2>2. QED BY <1>1, <2>1, OddProducts
<1>4. t.test > 0 /\ b > 0
  BY <1>1, <1>3
<1>5. t.test <= t.oddProduct
  <2>1. IsFactor(t.test, t.oddProduct)
    BY <1>1, <1>2, FactorWitness
  <2>2. QED BY <1>1, <2>1, FactorBounds
<1>6. t.test <= LargestAsked
  BY <1>1, <1>5
<1>7. IsPrime(t.test) <=> PrimeNumber(t.test)
  BY <1>1, <1>6, PrimesAre
<1>8. t.prime >= 3
  <2>1. t.prime >= 2 /\ t.prime % 2 = 1
    BY DEF PrimeInHand, PrimeNumber
  <2>2. t.prime # 2
    BY <2>1
  <2>3. QED BY <1>1, <2>1, <2>2
<1>9. t.factor >= 2
  <2>1. t.factor # 0
    BY DEF PrimeInHand
  <2>2. t.factor # 1
    <3>1. 1 * b = b
      OBVIOUS
    <3>2. IsFactor(1, b)
      BY <3>1, Zenon DEF IsFactor
    <3>3. QED BY <3>2 DEF PrimeInHand
  <2>3. QED BY <1>1, <2>1, <2>2
<1>10. a > 0
  <2>1. t.factor * a = b * t.prime
    BY DEF PrimeInHand
  <2>2. a = 0 => b * t.prime = 0
    BY <1>1, <2>1, Products
  <2>3. b * t.prime = 0 => b = 0 \/ t.prime = 0
    BY <1>1, Products
  <2>4. QED BY <1>4, <1>8, <2>2, <2>3
<1>11. Divides(t) <=> IsFactor(t.prime, t.test)
  <2>1. t.temp = t.test \div t.prime
    BY DEF PrimeInHand
  <2>2. IsFactor(t.prime, t.test) => t.prime * t.temp = t.test
    <3>1. t.prime > 0
      BY <1>1, <1>8
    <3>2. IsFactor(t.prime, t.test) => t.prime * (t.test \div t.prime) = t.test
      BY <1>1, <3>1, Remainder
    <3>3. QED BY <2>1, <3>2
  <2>3. t.temp * t.prime = t.prime * t.temp
    BY <1>1, Products
  <2>4. t.prime * t.temp = t.test => IsFactor(t.prime, t.test)
    BY <1>1, Zenon DEF IsFactor
  <2>5. QED BY <2>2, <2>3, <2>4 DEF Divides
<1>12. QED BY <1>1, <1>3, <1>4, <1>5, <1>6, <1>7, <1>8, <1>9, <1>10, <1>11

-----------------------------------------------------------------------------
(* A trial begins *)

LEMMA FormsOfOne ==
  ASSUME NEW k \in Nat, k >= 1, NEW limit \in Nat
  PROVE  Forms(k, limit, 1) = IF TwoTo[k] <= limit THEN {TwoTo[k]} ELSE {}
<1>1. TwoTo[k] \in Nat /\ TwoTo[k] >= 2
  BY PowerNat
<1>2. \A d \in Nat : IsFactor(d, 1) <=> d = 1
  <2> TAKE d \in Nat
  <2>1. IsFactor(d, 1) => d > 0 /\ d <= 1
    BY FactorBounds
  <2>2. 1 * 1 = 1
    OBVIOUS
  <2>3. IsFactor(1, 1)
    BY <2>2, Zenon DEF IsFactor
  <2>4. QED BY <2>1, <2>3
<1>3. ASSUME NEW f \in 2 .. limit PROVE Form(k, 1, f) <=> f = TwoTo[k]
  <2>1. f \in Nat /\ f # 1
    OBVIOUS
  <2>2. ~IsFactor(f, 1)
    BY <1>2, <2>1
  <2>3. TwoTo[k] * 1 = TwoTo[k]
    BY <1>1, Products
  <2>4. (\E d \in Nat : IsFactor(d, 1) /\ f = TwoTo[k] * d) <=> f = TwoTo[k]
    BY <1>2, <2>3
  <2>5. QED BY <2>2, <2>4 DEF Form
<1>4. QED BY <1>1, <1>3 DEF Forms

LEMMA ThreeInHand ==
  /\ PrimeNumber(3) /\ ~IsFactor(3, 1)
  /\ \A d \in Nat : IsFactor(d, 3) => d = 1 \/ d = 3
  /\ \A r \in Nat : PrimeNumber(r) => ~IsFactor(r, 1) /\ (r < 3 => r % 2 # 1)
  /\ IsFactor(1, 1)
<1>1. ASSUME NEW d \in Nat, IsFactor(d, 3) PROVE d = 1 \/ d = 3
  <2>1. d > 0 /\ d <= 3
    BY <1>1, FactorBounds
  <2>2. d # 2
    <3>1. SUFFICES ASSUME d = 2 PROVE FALSE
      OBVIOUS
    <3>2. PICK c \in Nat : 2 * c = 3
      BY <1>1, <3>1 DEF IsFactor
    <3>3. QED BY <3>2
  <2>3. QED BY <2>1, <2>2
<1>2. ASSUME NEW r \in Nat, r >= 2 PROVE ~IsFactor(r, 1)
  <2>1. IsFactor(r, 1) => r <= 1
    BY FactorBounds
  <2>2. QED BY <1>2, <2>1
<1>3. PrimeNumber(3)
  BY <1>1 DEF PrimeNumber
<1>4. ASSUME NEW r \in Nat, PrimeNumber(r) PROVE ~IsFactor(r, 1) /\ (r < 3 => r % 2 # 1)
  <2>1. r >= 2
    BY <1>4 DEF PrimeNumber
  <2>2. r < 3 => r = 2
    BY <2>1
  <2>3. QED BY <1>2, <2>1, <2>2
<1>5. 1 * 1 = 1
  OBVIOUS
<1>6. IsFactor(1, 1)
  BY <1>5, Zenon DEF IsFactor
<1>7. QED BY <1>1, <1>2, <1>3, <1>4, <1>6

LEMMA Begins ==
  ASSUME sum \in TestedSums, side \in {"cpu", "gpu"}, NEW k \in Nat, k >= 1,
         NEW n \in Nat, n % 2 = 1, TwoTo[k] * n <= M * M, StartTrial(k, n)
  PROVE  TrialWith(trial', SmallPrimes[side], 1, 1)
<1> DEFINE t == trial'
           product == TwoTo[k] * n
           limit == isqrt64(product)
           own == IF TwoTo[k] <= limit THEN <<TwoTo[k]>> ELSE << >>
<1>1. t = [power2 |-> k, oddProduct |-> n, limit |-> limit,
           test |-> n, temp |-> n \div 3,
           prime |-> 3, factor |-> 3, index |-> FirstIndex[side],
           factors |-> own, settled |-> Len(own), multiple |-> Multiples(product, own)]
  BY DEF StartTrial
<1>2. TwoTo[k] \in Nat /\ product \in Nat
  BY PowerNat, Products
<1>3. limit \in Nat
  BY <1>2, RootFacts
<1>4. Enumerates(own, Forms(k, limit, 1))
  <2> HIDE DEF limit
  <2>1. Forms(k, limit, 1) = IF TwoTo[k] <= limit THEN {TwoTo[k]} ELSE {}
    BY <1>3, FormsOfOne
  <2>2. QED BY <1>2, <2>1, EnumeratesFew
<1> HIDE DEF limit, own
<1>5. /\ Multiples(product, own) = Cardinality(OfMultiplePairs(product, Forms(k, limit, 1)))
      /\ Multiples(product, own) \in Nat
  BY <1>4, EnumeratesCounts
<1>6. own \in Seq(Nat) /\ Len(own) \in Nat
      /\ Forms(k, limit, 1) = {own[i] : i \in 1 .. Len(own)}
  BY <1>4 DEF Enumerates
<1>7. /\ FirstIndex[side] \in Nat /\ Len(SmallPrimes[side]) \in Nat
      /\ FirstIndex[side] + 1 <= Len(SmallPrimes[side]) /\ SmallPrimes[side][FirstIndex[side] + 1] = 3
  BY ListWalk
<1>8. n \div 3 \in Nat
  OBVIOUS
<1> HIDE DEF product
<1>9. t \in Trials
  BY <1>1, <1>3, <1>5, <1>6, <1>7, <1>8 DEF Trials
<1>10. Product(t) = product
  BY <1>1 DEF Product, product
<1>11. TrialShape(t)
  BY <1>1, <1>9, <1>10 DEF TrialShape, limit, product
<1>12. PrimeInHand(t, 1, 1)
  <2>1. /\ t.test = n /\ t.oddProduct = n /\ t.prime = 3 /\ t.temp = n \div 3 /\ t.factor = 3
    BY <1>1
  <2> HIDE DEF t
  <2>2. n * 1 = n /\ 3 * 1 = 1 * 3 /\ 1 * 3 = 3 /\ 3 % 2 = 1
    OBVIOUS
  <2>3. ASSUME NEW d \in Nat, IsFactor(d, 1 * 3)
        PROVE  IsFactor(d, 1) \/ \E e \in Nat : IsFactor(e, 1) /\ d = 3 * e
    <3>1. d = 1 \/ d = 3
      BY <2>2, <2>3, ThreeInHand
    <3>2. CASE d = 1
      BY <3>2, ThreeInHand
    <3>3. CASE d = 3
      <4>1. 1 \in Nat /\ IsFactor(1, 1) /\ d = 3 * 1
        BY <3>3, ThreeInHand
      <4>2. QED BY <4>1, Zenon
    <3>4. QED BY <3>1, <3>2, <3>3
  <2>4. QED BY <2>1, <2>2, <2>3, ThreeInHand DEF PrimeInHand
<1>13. PrimesDone(t, 1)
  <2>1. t.prime = 3
    BY <1>1
  <2>2. QED BY <2>1, ThreeInHand DEF PrimesDone
<1>14. FactorsHeld(t, 1, 1)
  <2>1. /\ t.settled = Len(own) /\ t.factors = own /\ t.power2 = k /\ t.limit = limit
        /\ t.multiple = Multiples(product, own)
    BY <1>1
  <2> HIDE DEF t
  <2>2. QED BY <1>4, <1>5, <1>6, <1>10, <2>1 DEF FactorsHeld
<1>15. OnTheList(t, SmallPrimes[side])
  <2>1. t.index = FirstIndex[side] /\ t.prime = 3
    BY <1>1
  <2>2. FirstIndex[side] + 1 \in 1 .. Len(SmallPrimes[side])
    BY <1>7
  <2>3. QED BY <1>7, <2>1, <2>2 DEF OnTheList
<1>16. QED BY <1>11, <1>12, <1>13, <1>14, <1>15 DEF TrialWith

-----------------------------------------------------------------------------
(* The prime in hand divides once more *)

\* A multiple has the forms of its factors.
LEMMA FormsGrow ==
  ASSUME NEW k \in Nat, NEW limit \in Nat, NEW x \in Nat, NEW y \in Nat, IsFactor(x, y)
  PROVE  Forms(k, limit, x) \subseteq Forms(k, limit, y)
<1>1. ASSUME NEW f \in Nat, Form(k, x, f) PROVE Form(k, y, f)
  <2>1. ASSUME IsFactor(f, x) PROVE IsFactor(f, y)
    BY <2>1, FactorTrans
  <2>2. ASSUME NEW d \in Nat, IsFactor(d, x), f = TwoTo[k] * d
        PROVE  \E e \in Nat : IsFactor(e, y) /\ f = TwoTo[k] * e
    <3>1. IsFactor(d, y)
      BY <2>2, FactorTrans
    <3>2. QED BY <2>2, <3>1, Zenon
  <2>3. QED BY <1>1, <2>1, <2>2 DEF Form
<1>2. \A f \in 2 .. limit : f \in Nat
  OBVIOUS
<1>3. QED BY <1>1, <1>2 DEF Forms

\* What the array gains.
Gain(t) == IF t.factor <= t.limit THEN {t.factor} \union KeptFrom(t, 1) ELSE {}

LEMMA GainIs ==
  ASSUME sum \in TestedSums, NEW t, TrialShape(t), NEW a \in Nat, NEW b \in Nat,
         PrimeInHand(t, a, b), FactorsHeld(t, a, b)
  PROVE  /\ Forms(t.power2, t.limit, b * t.prime) = Forms(t.power2, t.limit, b) \union Gain(t)
         /\ Forms(t.power2, t.limit, b) \intersect Gain(t) = {}
<1> DEFINE k == t.power2
           l == t.limit
           c == b * t.prime
           q == t.factor
<1>1. k \in Nat /\ l \in Nat /\ TwoTo[k] \in Nat /\ TwoTo[k] >= 2
  BY ShapeFacts
<1>2. /\ q \in Nat /\ q >= 2 /\ t.prime \in Nat /\ a > 0 /\ b > 0 /\ t.prime >= 3
  BY HandFacts
<1>3. c \in Nat /\ q * a = c /\ q % 2 = 1 /\ ~IsFactor(q, b)
      /\ \A d \in Nat : IsFactor(d, c) => IsFactor(d, b) \/ \E e \in Nat : IsFactor(e, a) /\ d = q * e
  BY <1>2, Products DEF PrimeInHand
<1>4. /\ t.settled \in Nat /\ t.settled <= Len(t.factors)
      /\ {t.factors[i] : i \in 1 .. t.settled} = Forms(k, l, a)
  BY DEF FactorsHeld, TrialShape, Trials
<1> HIDE DEF k, l, c, q
\* The multiples of the new factor by a form are gained.
<1>5. ASSUME NEW y \in Nat, Form(k, a, y), q * y <= l, y > 0 PROVE q * y \in Gain(t)
  <2>1. q <= l /\ y <= l
    <3>1. q * 1 <= q * y /\ q * 1 = q /\ y * 1 <= y * q /\ y * 1 = y /\ y * q = q * y /\ q * y \in Nat
      <4>1. 1 \in Nat /\ 1 <= y /\ 1 <= q
        BY <1>2, <1>5
      <4>2. QED BY <1>2, <4>1, Products
    <3>2. QED BY <1>1, <1>2, <1>5, <3>1
  <2>2. CASE y = 1
    <3>1. q * y = q
      BY <1>2, <2>2
    <3>2. QED BY <2>1, <3>1 DEF Gain, q, l
  <2>3. CASE y >= 2
    <3>1. y \in Forms(k, l, a)
      BY <1>1, <1>5, <2>1, <2>3 DEF Forms
    <3>2. PICK i \in 1 .. t.settled : t.factors[i] = y
      BY <1>4, <3>1
    <3>3. t.factors[i] * t.factor = q * y
      BY <1>2, <3>2, Products DEF q
    <3>4. q * y \in KeptFrom(t, 1)
      BY <1>5, <3>3 DEF KeptFrom, l
    <3>5. QED BY <2>1, <3>4 DEF Gain, q, l
  <2>4. QED BY <1>5, <2>2, <2>3
\* And nothing else is.
<1>6. ASSUME NEW f \in Gain(t)
      PROVE  f \in 2 .. l /\ \E y \in Nat : f = q * y /\ (y = 1 \/ Form(k, a, y))
  <2>1. q <= l
    BY <1>6 DEF Gain, q, l
  <2>2. CASE f = q
    <3>1. 1 \in Nat /\ f = q * 1 /\ f \in 2 .. l
      BY <1>1, <1>2, <2>1, <2>2
    <3>2. QED BY <3>1, Zenon
  <2>3. CASE f \in KeptFrom(t, 1)
    <3>1. PICK i \in 1 .. t.settled : t.factors[i] * t.factor <= t.limit /\ f = t.factors[i] * t.factor
      BY <2>3 DEF KeptFrom
    <3> DEFINE y == t.factors[i]
    <3>2. y \in Forms(k, l, a)
      BY <1>4
    <3> HIDE DEF y
    <3>3. y \in Nat /\ y >= 2 /\ Form(k, a, y)
      BY <1>1, <3>2 DEF Forms
    <3>4. f = q * y /\ f \in Nat /\ f <= l
      <4>1. f = y * q /\ f <= l
        BY <3>1 DEF y, q, l
      <4>2. QED BY <1>2, <3>3, <4>1, Products
    <3>5. f >= 2
      <4>1. q * 1 <= q * y /\ q * 1 = q
        <5>1. 1 \in Nat /\ 1 <= y
          BY <3>3
        <5>2. QED BY <1>2, <3>3, <5>1, Products
      <4>2. QED BY <1>2, <3>4, <4>1
    <3>6. f \in 2 .. l
      BY <1>1, <3>4, <3>5
    <3>7. QED BY <3>3, <3>4, <3>6, Zenon
  <2>4. QED BY <1>6, <2>1, <2>2, <2>3 DEF Gain, q, l
<1>7. ASSUME NEW f \in 2 .. l, Form(k, c, f) PROVE Form(k, b, f) \/ f \in Gain(t)
  <2>1. f \in Nat /\ f > 0 /\ f <= l
    BY <1>1
  <2>2. ASSUME IsFactor(f, c), ~IsFactor(f, b) PROVE f \in Gain(t)
    <3>1. PICK e \in Nat : IsFactor(e, a) /\ f = q * e
      BY <1>3, <2>1, <2>2
    <3>2. e > 0 /\ Form(k, a, e)
      BY <1>2, <3>1, FactorBounds DEF Form
    <3>3. QED BY <1>5, <2>1, <3>1, <3>2
  <2>3. ASSUME NEW d \in Nat, IsFactor(d, c), f = TwoTo[k] * d, ~IsFactor(d, b) PROVE f \in Gain(t)
    <3>1. PICK e \in Nat : IsFactor(e, a) /\ d = q * e
      BY <1>3, <2>3
    <3> DEFINE y == TwoTo[k] * e
    <3>2. y \in Nat /\ f = q * y
      <4>1. TwoTo[k] * (q * e) = (TwoTo[k] * q) * e /\ TwoTo[k] * q = q * TwoTo[k]
            /\ (q * TwoTo[k]) * e = q * (TwoTo[k] * e) /\ TwoTo[k] * e \in Nat
        BY <1>1, <1>2, Products
      <4>2. QED BY <2>3, <3>1, <4>1
    <3>3. Form(k, a, y)
      BY <3>1 DEF Form
    <3> HIDE DEF y
    <3>4. y > 0
      <4>1. y = 0 => f = 0
        BY <1>2, <3>2, Products
      <4>2. QED BY <2>1, <3>2, <4>1
    <3>5. QED BY <1>5, <2>1, <3>2, <3>3, <3>4
  <2>4. CASE IsFactor(f, c)
    BY <2>2, <2>4 DEF Form
  <2>5. ASSUME NEW d \in Nat, IsFactor(d, c), f = TwoTo[k] * d PROVE Form(k, b, f) \/ f \in Gain(t)
    BY <2>3, <2>5 DEF Form
  <2>6. QED BY <1>7, <2>4, <2>5 DEF Form
<1>8. ASSUME NEW y \in Nat, y = 1 \/ Form(k, a, y) PROVE Form(k, c, q * y)
  <2>1. IsFactor(y, a) \/ \E d \in Nat : IsFactor(d, a) /\ y = TwoTo[k] * d
    <3>1. 1 * a = a
      OBVIOUS
    <3>2. IsFactor(1, a)
      BY <3>1, Zenon DEF IsFactor
    <3>3. QED BY <1>8, <3>2 DEF Form
  <2>2. ASSUME NEW e \in Nat, IsFactor(e, a) PROVE IsFactor(q * e, c)
    <3>1. PICK x \in Nat : e * x = a
      BY <2>2 DEF IsFactor
    <3>2. (q * e) * x = c
      BY <1>2, <1>3, <3>1, Products
    <3>3. QED BY <3>2, Zenon DEF IsFactor
  <2>3. CASE IsFactor(y, a)
    BY <2>2, <2>3 DEF Form
  <2>4. ASSUME NEW d \in Nat, IsFactor(d, a), y = TwoTo[k] * d PROVE Form(k, c, q * y)
    <3>1. q * y = TwoTo[k] * (q * d) /\ q * d \in Nat
      <4>1. q * (TwoTo[k] * d) = (q * TwoTo[k]) * d /\ q * TwoTo[k] = TwoTo[k] * q
            /\ (TwoTo[k] * q) * d = TwoTo[k] * (q * d) /\ q * d \in Nat
        BY <1>1, <1>2, Products
      <4>2. QED BY <2>4, <4>1
    <3>2. IsFactor(q * d, c)
      BY <2>2, <2>4
    <3>3. QED BY <3>1, <3>2, Zenon DEF Form
  <2>5. QED BY <2>1, <2>3, <2>4
<1>9. Forms(k, l, c) = Forms(k, l, b) \union Gain(t)
  <2>1. Forms(k, l, b) \subseteq Forms(k, l, c)
    <3>1. IsFactor(b, c)
      BY <1>2, FactorWitness DEF c
    <3>2. QED BY <1>1, <1>3, <3>1, FormsGrow
  <2>2. ASSUME NEW f \in Gain(t) PROVE f \in Forms(k, l, c)
    BY <1>6, <1>8 DEF Forms
  <2>3. ASSUME NEW f \in Forms(k, l, c) PROVE f \in Forms(k, l, b) \union Gain(t)
    BY <1>7 DEF Forms
  <2>4. QED BY <2>1, <2>2, <2>3
<1>10. ASSUME NEW f \in Forms(k, l, b), f \in Gain(t) PROVE FALSE
  <2>1. PICK y \in Nat : f = q * y
    BY <1>6, <1>10
  <2>2. f \in Nat /\ Form(k, b, f)
    BY <1>1 DEF Forms
  <2>3. IsFactor(f, TwoTo[k] * b) /\ IsFactor(q, f) /\ TwoTo[k] * b \in Nat
    BY <1>1, <1>2, <2>1, <2>2, FormsDivide, FactorWitness, Products
  <2>4. IsFactor(q, TwoTo[k] * b)
    BY <1>2, <2>2, <2>3, FactorTrans
  <2>5. IsFactor(q, b)
    BY <1>1, <1>2, <1>3, <2>4, OddFactorOfPower
  <2>6. QED BY <1>3, <2>5
<1>11. QED BY <1>9, <1>10 DEF k, l, c

\* What the loop divides by, and what it leaves, when the prime in hand divides
\* once more.
LEMMA DivideHand ==
  ASSUME sum \in TestedSums, NEW t, TrialShape(t), NEW a \in Nat, NEW b \in Nat,
         PrimeInHand(t, a, b), PrimesDone(t, b), Divides(t)
  PROVE  /\ PrimeInHand(Divide(t), a, b * t.prime) /\ PrimesDone(Divide(t), b * t.prime)
         /\ b * t.prime \in Nat
<1> DEFINE p == t.prime
           c == b * p
           q == t.factor
           u == Divide(t)
<1>1. u.test = t.temp /\ u.temp = t.temp \div p /\ u.factor = q * p /\ u.prime = p
      /\ u.oddProduct = t.oddProduct
  <2>1. t \in Trials
    BY DEF TrialShape
  <2> DEFINE new == IF t.factor <= t.limit THEN Extended(t) ELSE << >>
  <2>2. u = [t EXCEPT !.factors = @ \o new, !.multiple = @ + Multiples(Product(t), new),
                      !.test = t.temp, !.temp = @ \div t.prime, !.factor = @ * t.prime]
    BY DEF Divide
  <2> HIDE DEF new, u
  <2>3. QED BY <2>1, <2>2 DEF Trials
<1>2. /\ t.test \in Nat /\ p \in Nat /\ p >= 3 /\ q \in Nat /\ q >= 2 /\ t.temp \in Nat
      /\ t.test > 0
  BY HandFacts
<1>3. /\ t.test * b = t.oddProduct /\ PrimeNumber(p) /\ p % 2 = 1 /\ q % 2 = 1 /\ q * a = c
      /\ ~IsFactor(q, b)
      /\ \A d \in Nat : IsFactor(d, c) => IsFactor(d, b) \/ \E e \in Nat : IsFactor(e, a) /\ d = q * e
  BY DEF PrimeInHand
<1>4. t.temp * p = t.test
  BY DEF Divides
<1>5. \A r \in Nat : PrimeNumber(r) =>
        /\ IsFactor(r, b) => r <= p
        /\ r < p /\ r % 2 = 1 => ~IsFactor(r, t.test)
  BY DEF PrimesDone
<1>6. c \in Nat
  BY <1>2, Products
<1>7. p * b = c
  BY <1>2, Products
<1> HIDE DEF p, c, q, u
<1>8. t.temp * c = t.oddProduct
  <2>1. (t.temp * p) * b = t.temp * (p * b)
    BY <1>2, Products
  <2>2. QED BY <1>3, <1>4, <1>7, <2>1
<1>9. (q * p) % 2 = 1 /\ q * p \in Nat
  BY <1>2, <1>3, OddProducts, Products
<1>10. (q * p) * a = c * p
  <2>1. (q * p) * a = q * (p * a) /\ p * a = a * p /\ q * (a * p) = (q * a) * p
    BY <1>2, Products
  <2>2. QED BY <1>3, <2>1
<1>11. ~IsFactor(q * p, c)
  <2>1. SUFFICES ASSUME NEW x \in Nat, (q * p) * x = c PROVE FALSE
    BY DEF IsFactor
  <2>2. q * p = p * q /\ (p * q) * x = p * (q * x) /\ q * x \in Nat
    BY <1>2, Products
  <2>3. p * (q * x) = p * b
    BY <1>7, <2>1, <2>2
  <2>4. q * x = b
    BY <1>2, <2>2, <2>3, Cancel
  <2>5. QED BY <1>3, <2>4, Zenon DEF IsFactor
<1>12. ASSUME NEW d \in Nat, IsFactor(d, c * p)
       PROVE  IsFactor(d, c) \/ \E e \in Nat : IsFactor(e, a) /\ d = (q * p) * e
  <2>1. c * p = p * c /\ c * p \in Nat
    BY <1>2, <1>6, Products
  <2>2. CASE c = 0
    <3>1. d * 0 = 0
      BY Products
    <3>2. IsFactor(d, c)
      BY <2>2, <3>1, Zenon DEF IsFactor
    <3>3. QED BY <3>2
  <2>3. CASE c > 0 /\ ~IsFactor(p, d)
    <3>1. d > 0
      <4>1. c * p # 0
        BY <1>2, <1>6, <2>3, Products
      <4>2. QED BY <1>12, <2>1, <4>1, FactorBounds
    <3>2. IsFactor(d, c)
      BY <1>3, <1>6, <1>12, <2>1, <2>3, <3>1, WithoutPrime
    <3>3. QED BY <3>2
  <2>4. CASE IsFactor(p, d)
    <3>1. PICK g \in Nat : p * g = d
      BY <2>4 DEF IsFactor
    <3>2. PICK x \in Nat : d * x = c * p
      BY <1>12 DEF IsFactor
    <3>3. g * x = c
      <4>1. (p * g) * x = p * (g * x) /\ g * x \in Nat
        BY <1>2, Products
      <4>2. p * (g * x) = p * c
        BY <2>1, <3>1, <3>2, <4>1
      <4>3. QED BY <1>2, <1>6, <4>1, <4>2, Cancel
    <3>4. IsFactor(g, c)
      BY <3>3, Zenon DEF IsFactor
    <3>5. CASE IsFactor(g, b)
      <4>1. PICK y \in Nat : g * y = b
        BY <3>5 DEF IsFactor
      <4>2. d * y = c
        <5>1. (p * g) * y = p * (g * y)
          BY <1>2, Products
        <5>2. QED BY <1>7, <3>1, <4>1, <5>1
      <4>3. QED BY <4>2, Zenon DEF IsFactor
    <3>6. ASSUME NEW e \in Nat, IsFactor(e, a), g = q * e PROVE d = (q * p) * e
      <4>1. p * (q * e) = (p * q) * e /\ p * q = q * p
        BY <1>2, Products
      <4>2. QED BY <3>1, <3>6, <4>1
    <3>7. QED BY <1>3, <3>4, <3>5, <3>6
  <2>5. QED BY <1>6, <2>2, <2>3, <2>4
<1>13. PrimeInHand(u, a, c)
  BY <1>1, <1>3, <1>8, <1>9, <1>10, <1>11, <1>12 DEF PrimeInHand
<1>14. ASSUME NEW r \in Nat, PrimeNumber(r)
       PROVE  /\ IsFactor(r, c) => r <= p
              /\ r < p /\ r % 2 = 1 => ~IsFactor(r, t.temp)
  <2>1. ASSUME IsFactor(r, c) PROVE r <= p
    <3>1. IsFactor(r, b) \/ IsFactor(r, p)
      BY <1>2, <1>14, <2>1, Euclid DEF c
    <3>2. IsFactor(r, p) => r <= p
      BY <1>2, FactorBounds
    <3>3. QED BY <1>5, <1>14, <3>1, <3>2
  <2>2. ASSUME IsFactor(r, t.temp) PROVE IsFactor(r, t.test)
    <3>1. IsFactor(t.temp, t.test)
      BY <1>2, <1>4, Zenon DEF IsFactor
    <3>2. QED BY <1>2, <2>2, <3>1, FactorTrans
  <2>3. QED BY <1>5, <1>14, <2>1, <2>2
<1>15. PrimesDone(u, c)
  BY <1>1, <1>14 DEF PrimesDone
<1>16. QED BY <1>6, <1>13, <1>15 DEF u, c, p

LEMMA DivideKeeps ==
  ASSUME sum \in TestedSums, NEW t, NEW list, NEW a \in Nat, NEW b \in Nat,
         TrialWith(t, list, a, b), Divides(t)
  PROVE  TrialWith(Divide(t), list, a, b * t.prime) /\ b * t.prime \in Nat
<1> DEFINE c == b * t.prime
           u == Divide(t)
           old == t.factors
           new == IF t.factor <= t.limit THEN Extended(t) ELSE << >>
           k == t.power2
           l == t.limit
<1>1. TrialShape(t) /\ PrimeInHand(t, a, b) /\ PrimesDone(t, b) /\ FactorsHeld(t, a, b)
      /\ OnTheList(t, list)
  BY DEF TrialWith
<1>2. PrimeInHand(u, a, c) /\ PrimesDone(u, c) /\ c \in Nat
  BY <1>1, DivideHand
<1>3. /\ t \in Trials /\ k \in Nat /\ l \in Nat /\ t.settled \in Nat /\ old \in Seq(Nat)
      /\ Len(old) \in Nat /\ t.settled <= Len(old) /\ t.multiple \in Nat
      /\ Enumerates(old, Forms(k, l, b))
      /\ {old[i] : i \in 1 .. t.settled} = Forms(k, l, a)
      /\ t.multiple = Cardinality(OfMultiplePairs(Product(t), Forms(k, l, b)))
  BY <1>1 DEF TrialShape, FactorsHeld, Trials
<1>4. t.prime \in Nat /\ t.prime >= 3 /\ t.factor \in Nat /\ t.factor >= 2 /\ t.temp \in Nat
      /\ t.test \in Nat
  BY <1>1, HandFacts
<1>5. Enumerates(new, Gain(t))
  <2>1. CASE t.factor <= t.limit
    <3>1. \A i \in 1 .. t.settled : old[i] >= 2
      <4>1. \A f \in Forms(k, l, a) : f >= 2
        BY <1>3 DEF Forms
      <4>2. QED BY <1>3, <4>1
    <3>2. \A i, j \in 1 .. t.settled : old[i] = old[j] => i = j
      <4>1. 1 .. t.settled \subseteq 1 .. Len(old)
        BY <1>3
      <4>2. QED BY <1>3, <4>1 DEF Enumerates
    <3>3. Enumerates(Extended(t), {t.factor} \union KeptFrom(t, 1))
      BY <1>3, <1>4, <3>1, <3>2, ExtendedLists
    <3>4. QED BY <2>1, <3>3 DEF Gain
  <2>2. CASE ~(t.factor <= t.limit)
    <3>1. Enumerates(<< >>, {})
      BY EnumeratesFew
    <3>2. QED BY <2>2, <3>1 DEF Gain
  <2>3. QED BY <2>1, <2>2
<1>6. /\ Forms(k, l, c) = Forms(k, l, b) \union Gain(t)
      /\ Forms(k, l, b) \intersect Gain(t) = {}
  BY <1>1, GainIs
<1>7. u = [t EXCEPT !.factors = old \o new, !.multiple = t.multiple + Multiples(Product(t), new),
                    !.test = t.temp, !.temp = t.temp \div t.prime, !.factor = t.factor * t.prime]
  BY DEF Divide
<1> HIDE DEF u, new, c
<1>8. Enumerates(old \o new, Forms(k, l, c))
  BY <1>3, <1>5, <1>6, EnumeratesConcat
<1>9. /\ Multiples(Product(t), new) \in Nat
      /\ t.multiple + Multiples(Product(t), new)
           = Cardinality(OfMultiplePairs(Product(t), Forms(k, l, c)))
  <2>1. /\ Multiples(Product(t), new) = Cardinality(OfMultiplePairs(Product(t), Gain(t)))
        /\ Multiples(Product(t), new) \in Nat
        /\ IsFiniteSet(OfMultiplePairs(Product(t), Gain(t)))
    BY <1>5, EnumeratesCounts
  <2>2. IsFiniteSet(OfMultiplePairs(Product(t), Forms(k, l, b)))
    BY <1>3, EnumeratesCounts
  <2> DEFINE A == Forms(k, l, b)
             B == Gain(t)
  <2>3. /\ IsFiniteSet(OfMultiplePairs(Product(t), A)) /\ A \intersect B = {}
        /\ IsFiniteSet(OfMultiplePairs(Product(t), B)) /\ Forms(k, l, c) = A \union B
    BY <1>6, <2>1, <2>2
  <2> HIDE DEF A, B
  <2>4. Cardinality(OfMultiplePairs(Product(t), A \union B))
          = Cardinality(OfMultiplePairs(Product(t), A)) + Cardinality(OfMultiplePairs(Product(t), B))
    BY <2>3, CountsAdd
  <2>5. QED BY <1>3, <2>1, <2>3, <2>4 DEF A, B
<1>10. /\ u.factors = old \o new /\ u.settled = t.settled /\ u.power2 = k /\ u.limit = l
       /\ u.oddProduct = t.oddProduct /\ u.index = t.index /\ u.prime = t.prime
       /\ u.multiple = t.multiple + Multiples(Product(t), new) /\ u.test = t.temp
  BY <1>3, <1>7 DEF Trials
<1>11. Product(u) = Product(t)
  BY <1>10 DEF Product
<1>12. /\ old \o new \in Seq(Nat) /\ Len(old) <= Len(old \o new)
       /\ \A i \in 1 .. t.settled : (old \o new)[i] = old[i]
  <2>1. new \in Seq(Nat)
    BY <1>5 DEF Enumerates
  <2>2. QED BY <1>3, <2>1
<1>13. u \in Trials
  <2>1. t.temp \div t.prime \in Nat
    BY <1>4
  <2>2. t.factor * t.prime \in Nat
    BY <1>4, Products
  <2>3. t.multiple + Multiples(Product(t), new) \in Nat
    BY <1>3, <1>9
  <2> DEFINE x == t.temp \div t.prime
             y == t.factor * t.prime
             z == t.multiple + Multiples(Product(t), new)
             w == old \o new
  <2>4. x \in Nat /\ y \in Nat /\ z \in Nat /\ w \in Seq(Nat) /\ t.temp \in Nat
    BY <1>4, <1>12, <2>1, <2>2, <2>3
  <2>5. u = [t EXCEPT !.factors = w, !.multiple = z, !.test = t.temp, !.temp = x, !.factor = y]
    BY <1>7
  <2> HIDE DEF x, y, z, w
  <2>6. QED BY <1>3, <2>4, <2>5 DEF Trials
<1>14. TrialShape(u)
  BY <1>1, <1>10, <1>11, <1>13 DEF TrialShape
<1>15. FactorsHeld(u, a, c)
  <2> DEFINE w == old \o new
  <2>1. t.settled <= Len(w)
    BY <1>3, <1>12
  <2>2. {w[i] : i \in 1 .. t.settled} = Forms(k, l, a)
    BY <1>3, <1>12
  <2> HIDE DEF w
  <2>3. u.factors = w /\ Enumerates(w, Forms(k, l, c))
    BY <1>8, <1>10 DEF w
  <2>4. QED BY <1>9, <1>10, <1>11, <2>1, <2>2, <2>3 DEF FactorsHeld
<1>16. OnTheList(u, list)
  <2>1. t.temp * t.prime = t.test
    BY DEF Divides
  <2>2. CASE t.test = 1
    <3>1. t.temp = 0 \/ t.temp >= 1
      BY <1>4
    <3>2. t.prime * t.temp = t.temp * t.prime /\ t.prime * 0 = 0
          /\ (1 <= t.temp => t.prime * 1 <= t.prime * t.temp) /\ t.prime * 1 = t.prime
      <4>1. 1 \in Nat
        OBVIOUS
      <4>2. QED BY <1>4, <4>1, Products
    <3>3. QED BY <1>4, <2>1, <2>2, <3>1, <3>2
  <2>3. CASE t.test = t.prime
    <3>1. t.prime * t.temp = t.prime * 1
      <4>1. t.prime * t.temp = t.temp * t.prime /\ t.prime * 1 = t.prime
        BY <1>4, Products
      <4>2. QED BY <2>1, <2>3, <4>1
    <3>2. t.temp = 1
      BY <1>4, <3>1, Cancel
    <3>3. QED BY <1>10, <3>2 DEF OnTheList
  <2>4. QED BY <1>1, <1>10, <2>2, <2>3 DEF OnTheList
<1>17. QED BY <1>2, <1>14, <1>15, <1>16 DEF TrialWith, u, c

-----------------------------------------------------------------------------
(* The prime in hand gives way *)

\* A composite rest has a prime of the list ahead of it, and all that the loop
\* passes over are done with.
LEMMA WalkGoesOn ==
  ASSUME sum \in TestedSums, side \in {"cpu", "gpu"}, NEW t, NEW a \in Nat, NEW b \in Nat,
         TrialWith(t, SmallPrimes[side], a, b),
         ~Divides(t), t.test # 1, ~IsPrime(t.test)
  PROVE  /\ t.index \in Nat /\ t.index + 1 < Len(SmallPrimes[side]) /\ Len(SmallPrimes[side]) \in Nat
         /\ NextOfList(t) \in Nat /\ PrimeNumber(NextOfList(t)) /\ NextOfList(t) % 2 = 1
         /\ t.prime < NextOfList(t) /\ t.index + 2 \in 1 .. Len(SmallPrimes[side])
         /\ \A r \in Nat : PrimeNumber(r) /\ r < NextOfList(t) /\ r % 2 = 1 => ~IsFactor(r, t.test)
<1> DEFINE list == SmallPrimes[side]
           i == t.index + 1
           q == NextOfList(t)
<1>1. TrialShape(t) /\ PrimeInHand(t, a, b) /\ PrimesDone(t, b) /\ OnTheList(t, list)
  BY DEF TrialWith
<1>2. /\ t.test \in Nat /\ t.test > 0 /\ t.test % 2 = 1 /\ t.test <= t.oddProduct
      /\ ~PrimeNumber(t.test) /\ t.prime \in Nat /\ t.prime >= 3 /\ ~IsFactor(t.prime, t.test)
  BY <1>1, HandFacts
<1>3. /\ t.index \in Nat /\ t.oddProduct \in Nat /\ 2 * t.oddProduct <= Product(t)
      /\ Product(t) \in Nat /\ Product(t) <= M * M /\ M \in Nat
  BY <1>1, ShapeFacts DEF TrialShape, Trials
<1>4. PrimeNumber(t.prime) /\ t.prime % 2 = 1
  BY <1>1 DEF PrimeInHand
<1>5. i \in 1 .. Len(list) /\ t.prime = list[i]
  <2>1. t.test # t.prime
    BY <1>2, <1>4
  <2>2. QED BY <1>1, <2>1 DEF OnTheList
<1>6. PICK r \in Nat : PrimeNumber(r) /\ IsFactor(r, t.test) /\ r * r <= t.test
  BY <1>2, LeastFactor
<1>7. r % 2 = 1
  <2>1. PICK c \in Nat : r * c = t.test
    BY <1>6 DEF IsFactor
  <2>2. QED BY <1>2, <2>1, OddProducts
<1>8. t.prime < r
  BY <1>1, <1>2, <1>6, <1>7 DEF PrimesDone
<1>9. r <= M
  <2>1. SUFFICES ASSUME M < r PROVE FALSE
    BY <1>3
  <2>2. M * M <= M * r /\ M * r = r * M /\ r * M < r * r /\ M * M \in Nat /\ r * r \in Nat
        /\ M * r \in Nat
    <3>1. M <= r /\ r > 0
      BY <1>3, <2>1
    <3>2. QED BY <1>3, <2>1, <3>1, Products
  <2>3. r * r <= Product(t)
    BY <1>2, <1>3, <1>6, <2>2
  <2>4. QED BY <1>3, <2>2, <2>3
<1>10. /\ Len(list) \in Nat
       /\ \A x \in Nat : PrimeNumber(x) /\ list[i] < x /\ x <= M =>
            i + 1 <= Len(list) /\ list[i] < list[i + 1] /\ list[i + 1] <= x
       /\ \A j \in 1 .. Len(list) : list[j] \in Nat /\ PrimeNumber(list[j]) /\ list[j] <= M
  BY <1>5, ListWalk
<1>11. i + 1 = t.index + 2 /\ q = list[i + 1]
  <2>1. i + 1 = t.index + 2
    BY <1>3
  <2>2. q = list[t.index + 2]
    BY DEF NextOfList
  <2>3. QED BY <2>1, <2>2
<1> HIDE DEF list, q, i
<1>12. i + 1 <= Len(list) /\ t.prime < q
  BY <1>5, <1>6, <1>8, <1>9, <1>10, <1>11
<1>13. i \in Nat /\ i + 1 \in 1 .. Len(list)
  BY <1>5, <1>10, <1>12
<1>14. q \in Nat /\ PrimeNumber(q) /\ q <= M
  BY <1>10, <1>11, <1>13
<1>15. q % 2 = 1
  <2>1. SUFFICES ASSUME q % 2 = 0 PROVE FALSE
    BY <1>14, Parities
  <2>2. PICK v \in Nat : q = 2 * v
    BY <1>14, <2>1, Parities
  <2>3. IsFactor(2, q)
    BY <2>2, FactorWitness
  <2>4. q = 2
    BY <1>14, <2>3 DEF PrimeNumber
  <2>5. QED BY <1>2, <1>12, <2>4
<1>16. ASSUME NEW x \in Nat, PrimeNumber(x), x < q, x % 2 = 1 PROVE ~IsFactor(x, t.test)
  <2>1. ~(t.prime < x)
    <3>1. t.prime < x => q <= x
      BY <1>3, <1>5, <1>10, <1>11, <1>14, <1>16
    <3>2. QED BY <1>14, <1>16, <3>1
  <2>2. CASE x < t.prime
    BY <1>1, <1>16, <2>2 DEF PrimesDone
  <2>3. CASE x = t.prime
    BY <1>2, <2>3
  <2>4. QED BY <1>2, <2>1, <2>2, <2>3
<1>17. t.index + 1 < Len(list) /\ t.index + 2 \in 1 .. Len(list)
  BY <1>3, <1>10, <1>11, <1>13
<1>18. QED BY <1>3, <1>10, <1>12, <1>14, <1>15, <1>16, <1>17 DEF list, q

\* The prime the loop goes on with.
LEMMA NextPrime ==
  ASSUME sum \in TestedSums, side \in {"cpu", "gpu"}, NEW t, NEW a \in Nat, NEW b \in Nat,
         TrialWith(t, SmallPrimes[side], a, b), ~Divides(t), ~Over(t),
         NEW p, p = IF IsPrime(t.test) THEN t.test ELSE NextOfList(t)
  PROVE  /\ p \in Nat /\ PrimeNumber(p) /\ p % 2 = 1 /\ t.prime < p
         /\ \A r \in Nat : PrimeNumber(r) /\ r < p /\ r % 2 = 1 => ~IsFactor(r, t.test)
<1>1. TrialShape(t) /\ PrimeInHand(t, a, b) /\ PrimesDone(t, b)
  BY DEF TrialWith
<1>2. /\ t.test \in Nat /\ t.test > 0 /\ t.test % 2 = 1
      /\ IsPrime(t.test) <=> PrimeNumber(t.test)
      /\ t.prime \in Nat /\ ~IsFactor(t.prime, t.test)
  BY <1>1, HandFacts
<1>3. t.test # 1
  BY DEF Over
<1>4. CASE ~IsPrime(t.test)
  <2>1. p = NextOfList(t)
    BY <1>4
  <2>2. QED BY <1>3, <1>4, <2>1, WalkGoesOn
<1>5. CASE IsPrime(t.test)
  <2>1. p = t.test /\ PrimeNumber(p)
    BY <1>2, <1>5
  <2>2. IsFactor(p, t.test)
    <3>1. p * 1 = t.test
      BY <1>2, <2>1, Products
    <3>2. QED BY <3>1, Zenon DEF IsFactor
  <2>3. t.prime < p
    <3>1. ~(p < t.prime)
      BY <1>1, <1>2, <2>1, <2>2 DEF PrimesDone
    <3>2. p # t.prime
      BY <1>2, <2>2
    <3>3. QED BY <1>2, <2>1, <3>1, <3>2
  <2>4. ASSUME NEW r \in Nat, PrimeNumber(r), r < p, r % 2 = 1 PROVE ~IsFactor(r, t.test)
    <3>1. IsFactor(r, p) => r = 1 \/ r = p
      BY <2>1 DEF PrimeNumber
    <3>2. r >= 2
      BY <2>4 DEF PrimeNumber
    <3>3. QED BY <1>2, <2>1, <2>4, <3>1, <3>2
  <2>5. QED BY <1>2, <2>1, <2>3, <2>4
<1>6. QED BY <1>4, <1>5

LEMMA AdvanceKeeps ==
  ASSUME sum \in TestedSums, side \in {"cpu", "gpu"}, NEW t, NEW a \in Nat, NEW b \in Nat,
         TrialWith(t, SmallPrimes[side], a, b), ~Divides(t), ~Over(t)
  PROVE  TrialWith(Advance(t), SmallPrimes[side], b, b)
<1> DEFINE list == SmallPrimes[side]
           u == Advance(t)
           last == IsPrime(t.test)
           p == IF last THEN t.test ELSE NextOfList(t)
           temp == IF last THEN 1 ELSE t.test \div p
           index == IF last THEN t.index ELSE t.index + 1
<1>1. TrialShape(t) /\ PrimeInHand(t, a, b) /\ PrimesDone(t, b) /\ FactorsHeld(t, a, b)
  BY DEF TrialWith
<1>2. /\ p \in Nat /\ PrimeNumber(p) /\ p % 2 = 1 /\ t.prime < p
      /\ \A r \in Nat : PrimeNumber(r) /\ r < p /\ r % 2 = 1 => ~IsFactor(r, t.test)
  BY NextPrime
<1>3. t.test \in Nat /\ t.test > 0 /\ t.prime \in Nat /\ t.prime >= 3 /\ b > 0
  BY <1>1, HandFacts
<1>4. /\ t \in Trials /\ t.index \in Nat /\ t.factors \in Seq(Nat) /\ Len(t.factors) \in Nat
  BY <1>1 DEF TrialShape, Trials
<1>5. temp = t.test \div p
  <2>1. CASE last
    <3>1. t.test \div t.test = 1
      <4> DEFINE x == t.test
      <4>1. x \in Nat /\ x > 0
        BY <1>3
      <4> HIDE DEF x
      <4>2. x \div x = 1
        BY <4>1
      <4>3. QED BY <4>2 DEF x
    <3>2. QED BY <2>1, <3>1
  <2>2. CASE ~last
    BY <2>2
  <2>3. QED BY <2>1, <2>2
<1>6. u = [t EXCEPT !.prime = p, !.factor = p, !.temp = temp, !.index = index,
                    !.settled = Len(t.factors)]
  BY DEF Advance
<1>7. temp \in Nat /\ index \in Nat
  <2>1. t.test \div p \in Nat
    BY <1>2, <1>3
  <2>2. QED BY <1>4, <1>5, <2>1
<1>8. last => p = t.test
  OBVIOUS
<1>9. ~last => p = list[t.index + 2] /\ index = t.index + 1
  BY DEF NextOfList
<1> HIDE DEF u, p, temp, index, list
<1>10. /\ u.prime = p /\ u.factor = p /\ u.temp = temp /\ u.index = index
       /\ u.settled = Len(t.factors) /\ u.factors = t.factors /\ u.test = t.test
       /\ u.oddProduct = t.oddProduct /\ u.power2 = t.power2 /\ u.limit = t.limit
       /\ u.multiple = t.multiple
  BY <1>4, <1>6 DEF Trials
<1>11. Product(u) = Product(t)
  BY <1>10 DEF Product
<1>12. u \in Trials
  BY <1>2, <1>4, <1>6, <1>7 DEF Trials
<1>13. TrialShape(u)
  BY <1>1, <1>10, <1>11, <1>12 DEF TrialShape
<1>14. ~IsFactor(p, b)
  <2>1. IsFactor(p, b) => p <= t.prime
    BY <1>1, <1>2 DEF PrimesDone
  <2>2. QED BY <1>2, <1>3, <2>1
<1>15. ASSUME NEW d \in Nat, IsFactor(d, b * p)
       PROVE  IsFactor(d, b) \/ \E e \in Nat : IsFactor(e, b) /\ d = p * e
  <2>1. b * p = p * b /\ p * b \in Nat /\ (p * b = 0 => p = 0 \/ b = 0)
    BY <1>2, Products
  <2>2. p > 0
    BY <1>2, <1>3
  <2>3. CASE ~IsFactor(p, d)
    <3>1. d > 0
      <4>1. p * b > 0
        BY <1>3, <2>1, <2>2
      <4>2. QED BY <1>15, <2>1, <4>1, FactorBounds
    <3>2. IsFactor(d, b)
      BY <1>2, <1>15, <2>1, <2>3, <3>1, WithoutPrime
    <3>3. QED BY <3>2
  <2>4. CASE IsFactor(p, d)
    <3>1. PICK g \in Nat : p * g = d
      BY <2>4 DEF IsFactor
    <3>2. PICK x \in Nat : d * x = b * p
      BY <1>15 DEF IsFactor
    <3>3. (p * g) * x = p * (g * x) /\ g * x \in Nat
      BY <1>2, Products
    <3>4. p * (g * x) = p * b
      BY <2>1, <3>1, <3>2, <3>3
    <3>5. g * x = b
      BY <1>2, <2>2, <3>3, <3>4, Cancel
    <3>6. IsFactor(g, b)
      BY <3>5, Zenon DEF IsFactor
    <3>7. g \in Nat /\ IsFactor(g, b) /\ d = p * g
      BY <3>1, <3>6
    <3>8. QED BY <3>7, Zenon
  <2>5. QED BY <2>3, <2>4
<1>16. PrimeInHand(u, b, b)
  <2>1. p * b = b * p
    BY <1>2, Products
  <2>2. t.test * b = t.oddProduct
    BY <1>1 DEF PrimeInHand
  <2>3. QED BY <1>2, <1>5, <1>10, <1>14, <1>15, <2>1, <2>2 DEF PrimeInHand
<1>17. PrimesDone(u, b)
  <2>1. ASSUME NEW r \in Nat, PrimeNumber(r), IsFactor(r, b) PROVE r <= p
    <3>1. r <= t.prime
      BY <1>1, <2>1 DEF PrimesDone
    <3>2. QED BY <1>2, <1>3, <3>1
  <2>2. QED BY <1>2, <1>10, <2>1 DEF PrimesDone
<1>18. FactorsHeld(u, b, b)
  <2>1. /\ Enumerates(t.factors, Forms(t.power2, t.limit, b))
        /\ t.multiple = Cardinality(OfMultiplePairs(Product(t), Forms(t.power2, t.limit, b)))
    BY <1>1 DEF FactorsHeld
  <2>2. {t.factors[i] : i \in 1 .. Len(t.factors)} = Forms(t.power2, t.limit, b)
    BY <2>1 DEF Enumerates
  <2>3. QED BY <1>4, <1>10, <1>11, <2>1, <2>2 DEF FactorsHeld
<1>19. OnTheList(u, list)
  <2>1. CASE last
    BY <1>8, <1>10, <2>1 DEF OnTheList
  <2>2. CASE ~last
    <3>1. t.test # 1
      BY DEF Over
    <3>2. t.index + 2 \in 1 .. Len(list)
      BY <2>2, <3>1, WalkGoesOn DEF list
    <3>3. index + 1 = t.index + 2
      BY <1>4, <1>9, <2>2
    <3>4. QED BY <1>9, <1>10, <2>2, <3>2, <3>3 DEF OnTheList
  <2>3. QED BY <2>1, <2>2
<1>20. QED BY <1>13, <1>16, <1>17, <1>18, <1>19 DEF TrialWith, list, u

-----------------------------------------------------------------------------
(* The trial is over *)

\* What is left has no prime up to the limit.
LEMMA NothingSmallLeft ==
  ASSUME sum \in TestedSums, side \in {"cpu", "gpu"}, NEW t, NEW a \in Nat, NEW b \in Nat,
         TrialWith(t, SmallPrimes[side], a, b), ~Divides(t), Over(t),
         NEW r \in Nat, PrimeNumber(r), IsFactor(r, t.test)
  PROVE  r > t.limit
<1>1. TrialShape(t) /\ PrimeInHand(t, a, b)
  BY DEF TrialWith
<1>2. /\ t.test \in Nat /\ t.test > 0 /\ t.test % 2 = 1
      /\ IsPrime(t.test) <=> PrimeNumber(t.test)
  BY <1>1, HandFacts
<1>3. t.limit \in Nat
  BY <1>1, ShapeFacts
<1>4. r >= 2 /\ r % 2 = 1
  <2>1. PICK c \in Nat : r * c = t.test
    BY DEF IsFactor
  <2>2. r % 2 = 1
    BY <1>2, <2>1, OddProducts
  <2>3. QED BY <2>2 DEF PrimeNumber
<1>5. t.test # 1
  <2>1. t.test > 0 => r <= t.test
    BY <1>2, FactorBounds
  <2>2. QED BY <1>2, <1>4, <2>1
<1>6. CASE IsPrime(t.test)
  <2>1. r = t.test
    BY <1>2, <1>4, <1>6 DEF PrimeNumber
  <2>2. t.test > t.limit
    BY <1>5, <1>6 DEF Over
  <2>3. QED BY <2>1, <2>2
<1>7. CASE ~IsPrime(t.test)
  <2> DEFINE q == NextOfList(t)
  <2>1. /\ t.index \in Nat /\ t.index + 1 < Len(SmallPrimes[side]) /\ Len(SmallPrimes[side]) \in Nat
        /\ q \in Nat
        /\ \A x \in Nat : PrimeNumber(x) /\ x < q /\ x % 2 = 1 => ~IsFactor(x, t.test)
    BY <1>5, <1>7, WalkGoesOn
  <2>2. ~ListEnds(t)
    <3>1. SUFFICES ASSUME side = "gpu", t.index + 1 >= Len(SmallPrimes.gpu) PROVE FALSE
      BY DEF ListEnds
    <3>2. QED BY <2>1, <3>1
  <2>3. q > t.limit
    BY <1>5, <1>7, <2>2 DEF Over
  <2>4. ~(r < q)
    BY <1>4, <2>1
  <2> HIDE DEF q
  <2>5. QED BY <1>3, <2>1, <2>3, <2>4
<1>8. QED BY <1>6, <1>7

\* The array has all the forms up to the limit.
LEMMA OverComplete ==
  ASSUME sum \in TestedSums, side \in {"cpu", "gpu"}, NEW t, NEW a \in Nat, NEW b \in Nat,
         TrialWith(t, SmallPrimes[side], a, b), ~Divides(t), Over(t)
  PROVE  Forms(t.power2, t.limit, t.oddProduct) = Forms(t.power2, t.limit, b)
<1> DEFINE k == t.power2
           l == t.limit
           n == t.oddProduct
<1>1. TrialShape(t) /\ PrimeInHand(t, a, b)
  BY DEF TrialWith
<1>2. t.test \in Nat /\ t.test > 0 /\ b > 0
  BY <1>1, HandFacts
<1>3. /\ k \in Nat /\ l \in Nat /\ n \in Nat /\ n > 0 /\ TwoTo[k] \in Nat /\ TwoTo[k] >= 2
  BY <1>1, ShapeFacts
<1>4. t.test * b = n
  BY <1>1 DEF PrimeInHand
<1>5. \A r \in Nat : PrimeNumber(r) /\ IsFactor(r, t.test) => r > l
  BY NothingSmallLeft
<1> HIDE DEF k, l, n
<1>6. ASSUME NEW d \in Nat, IsFactor(d, n), d <= l PROVE IsFactor(d, b)
  <2>1. d > 0
    BY <1>3, <1>6, FactorBounds
  <2>2. ASSUME NEW g \in Nat, IsFactor(g, d), IsFactor(g, t.test) PROVE g = 1
    <3>1. g > 0 /\ g <= d
      BY <2>1, <2>2, FactorBounds
    <3>2. SUFFICES ASSUME g >= 2 PROVE FALSE
      BY <3>1
    <3>3. PICK r \in Nat : PrimeNumber(r) /\ IsFactor(r, g)
      BY <3>2, LeastFactor
    <3>4. IsFactor(r, t.test)
      BY <1>2, <2>2, <3>3, FactorTrans
    <3>5. r <= g
      BY <3>1, <3>3, FactorBounds
    <3>6. QED BY <1>3, <1>5, <1>6, <3>1, <3>3, <3>4, <3>5
  <2>3. QED BY <1>2, <1>4, <1>6, <2>1, <2>2, Gauss
<1>7. ASSUME NEW f \in 2 .. l, Form(k, n, f) PROVE Form(k, b, f)
  <2>1. f \in Nat /\ f <= l /\ f >= 2
    BY <1>3
  <2>2. CASE IsFactor(f, n)
    BY <1>6, <2>1, <2>2 DEF Form
  <2>3. ASSUME NEW d \in Nat, IsFactor(d, n), f = TwoTo[k] * d PROVE Form(k, b, f)
    <3>1. d <= f
      <4>1. d * 1 <= d * TwoTo[k] /\ d * 1 = d /\ d * TwoTo[k] = TwoTo[k] * d
        <5>1. 1 \in Nat /\ 1 <= TwoTo[k]
          BY <1>3
        <5>2. QED BY <1>3, <5>1, Products
      <4>2. QED BY <2>3, <4>1
    <3>2. IsFactor(d, b)
      BY <1>3, <1>6, <2>1, <2>3, <3>1
    <3>3. QED BY <2>3, <3>2, Zenon DEF Form
  <2>4. QED BY <1>7, <2>2, <2>3 DEF Form
<1>8. Forms(k, l, b) \subseteq Forms(k, l, n)
  <2>1. IsFactor(b, n)
    BY <1>2, <1>4, FactorWitness
  <2>2. QED BY <1>3, <2>1, FormsGrow
<1>9. Forms(k, l, n) \subseteq Forms(k, l, b)
  BY <1>7 DEF Forms
<1>10. QED BY <1>8, <1>9 DEF k, l, n

\* The count of the trial tells whether Peter knows.
LEMMA CountRight ==
  ASSUME Goldbach, sum \in TestedSums, side \in {"cpu", "gpu"}, NEW t, NEW a \in Nat, NEW b \in Nat,
         TrialWith(t, SmallPrimes[side], a, b), t.multiple > 1 \/ (~Divides(t) /\ Over(t))
  PROVE  PeterKnows(Product(t)) <=> t.multiple = 1
<1> DEFINE k == t.power2
           l == t.limit
           n == t.oddProduct
           product == Product(t)
           A == OfMultiplePairs(product, Forms(k, l, b))
           B == OfMultiplePairs(product, Forms(k, l, n))
<1>1. TrialShape(t) /\ PrimeInHand(t, a, b) /\ FactorsHeld(t, a, b)
  BY DEF TrialWith
<1>2. t.test \in Nat /\ b > 0
  BY <1>1, HandFacts
<1>3. /\ k \in Nat /\ l \in Nat /\ n \in Nat /\ product \in Nat /\ product > 0
      /\ product = TwoTo[k] * n
  BY <1>1, ShapeFacts
<1>4. n % 2 = 1 /\ product <= M * M /\ l = isqrt64(product) /\ t.multiple \in Nat
  BY <1>1 DEF TrialShape, Trials
<1>5. PeterKnows(product) <=> Cardinality(B) = 1
  <2>1. {f \in 2 .. isqrt64(product) : product % f = 0 /\ SammyIsSure[f + product \div f]}
          = OfMultiplePairs(product, Forms(k, isqrt64(product), n))
    BY <1>3, <1>4, PeterLooksAt
  <2>2. QED BY <1>4, <2>1 DEF PeterKnows
<1>6. t.multiple = Cardinality(A)
  BY <1>1 DEF FactorsHeld
<1>7. IsFactor(b, n)
  <2>1. t.test * b = n
    BY <1>1 DEF PrimeInHand
  <2>2. QED BY <1>2, <2>1, FactorWitness
<1>8. CASE t.multiple > 1
  <2>1. IsFiniteSet(B)
    <3>1. IsFiniteSet(2 .. l)
      <4>1. 2 \in Int /\ l \in Int
        BY <1>3
      <4> HIDE DEF l
      <4>2. QED BY <4>1, FS_Interval
    <3>2. B \subseteq 2 .. l
      BY DEF OfMultiplePairs, Forms
    <3>3. QED BY <3>1, <3>2, FS_Subset
  <2>2. A \subseteq B
    <3>1. Forms(k, l, b) \subseteq Forms(k, l, n)
      BY <1>3, <1>7, FormsGrow
    <3>2. QED BY <3>1 DEF OfMultiplePairs
  <2> HIDE DEF A, B
  <2>3. Cardinality(A) <= Cardinality(B) /\ Cardinality(B) \in Nat /\ Cardinality(A) \in Nat
    <3>1. IsFiniteSet(A) /\ Cardinality(A) <= Cardinality(B)
      BY <2>1, <2>2, FS_Subset
    <3>2. QED BY <2>1, <3>1, FS_CardinalityType
  <2>4. Cardinality(B) # 1 /\ t.multiple # 1
    BY <1>6, <1>8, <2>3
  <2>5. QED BY <1>5, <2>4 DEF product
<1>9. CASE ~Divides(t) /\ Over(t)
  <2>1. Forms(k, l, n) = Forms(k, l, b)
    BY <1>9, OverComplete
  <2>2. A = B
    BY <2>1
  <2>3. QED BY <1>5, <1>6, <2>2
<1>10. QED BY <1>8, <1>9

-----------------------------------------------------------------------------
(* The loops over the powers *)

LEMMA LogFacts ==
  ASSUME NEW n \in Nat, n >= 3
  PROVE  /\ Log2Rounded(n) \in Nat /\ Log2Rounded(n) >= 1
         /\ n < TwoTo[Log2Rounded(n) + 1]
<1> DEFINE S == {m \in Nat : TwoTo[2 * m + 1] > n * n}
           P(g) == (g = 0 \/ TwoTo[2 * g - 1] <= n * n) /\ TwoTo[2 * g + 1] > n * n
           G == Log2Rounded(n)
<1>1. n \in S
  <2> DEFINE x == TwoTo[n]
  <2>1. x \in Nat /\ n <= x /\ TwoTo[2 * n + 1] = 2 * (x * x)
    BY PowerNat, PowerSquare
  <2> HIDE DEF x
  <2>2. n * n <= n * x /\ n * x = x * n /\ x * n <= x * x /\ n * n \in Nat /\ x * x \in Nat
        /\ n * x \in Nat
    BY <2>1, Products
  <2>3. n * n > 0
    <3>1. n * n # 0
      BY Products
    <3>2. QED BY <2>2, <3>1
  <2>4. QED BY <2>1, <2>2, <2>3
<1>2. PICK g \in S : \A m \in S : g <= m
  <2>1. S \in SUBSET Nat /\ S # {}
    BY <1>1
  <2> HIDE DEF S
  <2>2. QED BY <2>1, LeastElement
<1>3. g \in 0 .. n /\ TwoTo[2 * g + 1] > n * n
  BY <1>1, <1>2
<1>4. g = 0 \/ TwoTo[2 * g - 1] <= n * n
  <2>1. SUFFICES ASSUME g > 0 PROVE TwoTo[2 * g - 1] <= n * n
    BY <1>3
  <2>2. g - 1 \in Nat /\ ~(g <= g - 1) /\ 2 * (g - 1) + 1 = 2 * g - 1 /\ 2 * (g - 1) + 1 \in Nat
    BY <1>3, <2>1
  <2>3. g - 1 \notin S
    BY <1>2, <2>2
  <2>4. ~(TwoTo[2 * (g - 1) + 1] > n * n)
    BY <2>2, <2>3
  <2>5. TwoTo[2 * (g - 1) + 1] \in Nat /\ n * n \in Nat
    BY <2>2, PowerNat, Products
  <2>6. QED BY <2>2, <2>4, <2>5
<1>5. G \in 0 .. n /\ P(G)
  <2>1. P(g) /\ g \in 0 .. n
    BY <1>3, <1>4
  <2>2. G = CHOOSE x \in 0 .. n : P(x)
    BY DEF Log2Rounded
  <2> HIDE DEF P, G
  <2>3. \E x \in 0 .. n : P(x)
    BY <2>1, Zenon
  <2>4. QED BY <2>2, <2>3
<1>6. G \in Nat /\ TwoTo[2 * G + 1] > n * n
  BY <1>5
<1> HIDE DEF G
<1>7. G >= 1
  <2>1. SUFFICES ASSUME G = 0 PROVE FALSE
    BY <1>6
  <2>2. TwoTo[0 + 1] = 2 * TwoTo[0] /\ TwoTo[0] = 1
    BY PowerNat
  <2>3. 3 * 1 <= 3 * n /\ 3 * n = n * 3 /\ n * 3 <= n * n
    BY Products
  <2>4. QED BY <1>6, <2>1, <2>2, <2>3
<1>8. n < TwoTo[G + 1]
  <2> DEFINE x == TwoTo[G]
  <2>1. x \in Nat /\ TwoTo[G + 1] = 2 * x /\ TwoTo[2 * G + 1] = 2 * (x * x)
    BY <1>6, PowerNat, PowerSquare
  <2> HIDE DEF x
  <2>2. SUFFICES ASSUME 2 * x <= n PROVE FALSE
    BY <2>1
  <2>3. x <= n /\ x * (2 * x) <= x * n /\ x * n = n * x /\ n * x <= n * n
    <3>1. x <= n /\ 2 * x \in Nat
      BY <2>1, <2>2
    <3>2. QED BY <2>1, <2>2, <3>1, Products
  <2>4. x * (2 * x) = 2 * (x * x) /\ 2 * (x * x) \in Nat /\ n * n \in Nat /\ n * x \in Nat
    BY <2>1, Products
  <2>5. QED BY <1>6, <2>1, <2>3, <2>4
<1>9. QED BY <1>6, <1>7, <1>8 DEF G

LEMMA PowersAre ==
  ASSUME NEW s \in TestedSums
  PROVE  /\ IsFiniteSet(Powers) /\ \A k \in Powers : k \in Nat /\ k >= 2
         /\ \E k \in Powers : SumLimit < TwoTo[k]
<1> DEFINE g == Log2Rounded(SumLimit)
<1>1. g \in Nat /\ g >= 1 /\ SumLimit < TwoTo[g + 1]
  <2>1. SumLimit \in Nat /\ SumLimit >= 5
    BY Sizes
  <2>2. QED BY <2>1, LogFacts
<1>2. Powers = 2 .. g + 1
  BY DEF Powers
<1> HIDE DEF g
<1>3. IsFiniteSet(2 .. g + 1)
  <2>1. 2 \in Int /\ g + 1 \in Int
    BY <1>1
  <2>2. QED BY <2>1, FS_Interval
<1>4. g + 1 \in 2 .. g + 1
  BY <1>1
<1>5. \E k \in Powers : SumLimit < TwoTo[k]
  BY <1>1, <1>2, <1>4
<1>6. QED BY <1>2, <1>3, <1>5

\* A phase starts at some power.
LEMMA FirstPowerIs ==
  ASSUME sum \in TestedSums, NEW from \in Nat, from >= 1, NEW parity \in {0, 1}
  PROVE  FirstPower(from, parity) \in Int
<1> DEFINE P(k) == ~FitsUnder(from, k) /\ \A j \in 2 .. k - 1 : FitsUnder(from, j)
           S == {k \in Nat : k \in Powers /\ ~FitsUnder(from, k)}
<1>1. /\ \A k \in Powers : k \in Nat /\ k >= 2
      /\ \E k \in Powers : SumLimit < TwoTo[k]
  BY PowersAre
<1>2. S # {}
  <2>1. PICK k \in Powers : SumLimit < TwoTo[k]
    BY <1>1
  <2>2. k \in Nat /\ TwoTo[k] \in Nat
    BY <1>1, PowerNat
  <2> DEFINE x == TwoTo[k]
  <2>3. x \in Nat /\ SumLimit < x /\ sum \in Nat /\ sum <= SumLimit /\ SumLimit \in Nat
    BY <2>1, <2>2, Sizes
  <2> HIDE DEF x
  <2>4. x * 1 <= x * from /\ x * 1 = x /\ x * from = from * x /\ from * x \in Nat
    <3>1. 1 \in Nat
      OBVIOUS
    <3>2. QED BY <2>3, <3>1, Products
  <2>5. ~(from * x < sum - 2)
    BY <2>3, <2>4
  <2>6. QED BY <2>2, <2>5 DEF FitsUnder, x
<1>3. PICK k \in S : \A m \in S : k <= m
  <2>1. S \in SUBSET Nat
    OBVIOUS
  <2> HIDE DEF S
  <2>2. QED BY <1>2, <2>1, LeastElement
<1>4. k \in Powers /\ P(k)
  <2>1. k \in Nat /\ k \in Powers /\ ~FitsUnder(from, k)
    OBVIOUS
  <2>2. ASSUME NEW j \in 2 .. k - 1 PROVE FitsUnder(from, j)
    <3>1. j \in Nat /\ ~(k <= j) /\ 2 <= j /\ j < k
      BY <2>1
    <3>2. j \in Powers
      <4>1. Log2Rounded(SumLimit) \in Nat
        <5>1. SumLimit \in Nat /\ SumLimit >= 5
          BY Sizes
        <5>2. QED BY <5>1, LogFacts
      <4>2. QED BY <2>1, <3>1, <4>1 DEF Powers
    <3>3. QED BY <1>3, <3>1, <3>2
  <2>3. QED BY <2>1, <2>2
<1> DEFINE top == CHOOSE x \in Powers : P(x)
<1>5. top \in Powers
  <2> HIDE DEF P
  <2>1. QED BY <1>4
<1>6. top \in Nat
  BY <1>1, <1>5
<1>7. FirstPower(from, parity) = CHOOSE j \in {top - 1, top - 2} : j % 2 = parity
  BY DEF FirstPower
<1> HIDE DEF top
<1>8. \E j \in {top - 1, top - 2} : j % 2 = parity
  BY <1>6
<1>9. FirstPower(from, parity) \in {top - 1, top - 2}
  BY <1>7, <1>8
<1>10. QED BY <1>6, <1>9

LEMMA EnterFacts ==
  ASSUME sum \in TestedSums, NEW next, Enter(next)
  PROVE  phase' = next /\ power2' \in Int /\ odd' \in Nat /\ odd' % 2 = 1
<1>1. CASE next \in DOMAIN LeastPart
  <2>1. next \in {"power2odd", "power2even"}
    BY <1>1 DEF LeastPart
  <2>2. LeastPart[next] \in {3, 5} /\ Parity[next] \in {0, 1}
    BY <2>1 DEF LeastPart, Parity
  <2>3. power2' = FirstPower(LeastPart[next], Parity[next]) /\ odd' = LeastPart[next]
    BY <1>1 DEF Enter
  <2>4. FirstPower(LeastPart[next], Parity[next]) \in Int
    <3> DEFINE x == LeastPart[next]
               y == Parity[next]
    <3>1. x \in Nat /\ x >= 1 /\ y \in {0, 1}
      BY <2>2
    <3> HIDE DEF x, y
    <3>2. FirstPower(x, y) \in Int
      BY <3>1, FirstPowerIs
    <3>3. QED BY <3>2 DEF x, y
  <2>5. QED BY <2>2, <2>3, <2>4 DEF Enter
<1>2. CASE next \notin DOMAIN LeastPart
  BY <1>2 DEF Enter
<1>3. QED BY <1>1, <1>2

-----------------------------------------------------------------------------
(* The invariant of the test *)

TestInv ==
  /\ side \in {"cpu", "gpu"} /\ sum \in TestedSums
  /\ power2 \in Int /\ odd \in Nat /\ valid \in Nat
  /\ phase \in DOMAIN LeastPart => odd % 2 = 1
  /\ \A k \in composites : k \in Nat /\ k >= 2 /\ TwoTo[k] < sum - 2
  /\ trial # Idle => /\ phase \in DOMAIN LeastPart \union {"power2composite"}
                     /\ \E a, b \in Nat : TrialWith(trial, SmallPrimes[side], a, b)

\* Two terms that add up to a sum of the leg multiply to a product it is made for.
LEMMA ProductFits ==
  ASSUME sum \in TestedSums, NEW x \in Nat, NEW y \in Nat, x + y = sum
  PROVE  x * y <= M * M
<1>1. M \in Nat /\ x + y <= 2 * M
  <2>1. sum \in Nat /\ sum + 1 <= 2 * M /\ M \in Nat
    BY Sizes
  <2>2. QED BY <2>1
<1> DEFINE m == M
<1>2. m \in Nat /\ x + y <= 2 * m
  BY <1>1
<1> HIDE DEF m
<1>3. ASSUME NEW u \in Nat, NEW v \in Nat, u <= m, u + v <= 2 * m PROVE u * v <= m * m
  <2>1. PICK d \in Nat : m = u + d
    <3>1. m - u \in Nat /\ m = u + (m - u)
      BY <1>2, <1>3
    <3>2. QED BY <3>1
  <2>2. v <= u + (d + d)
    BY <1>3, <2>1
  <2>3. u * v <= u * (u + (d + d))
    <3>1. u + (d + d) \in Nat
      OBVIOUS
    <3>2. QED BY <2>2, <3>1, Products
  <2>4. u * (u + (d + d)) = u * u + (u * d + u * d)
    BY Products
  <2>5. (u + d) * (u + d) = (u * u + (u * d + u * d)) + d * d
    OBVIOUS
  <2>6. u * u \in Nat /\ u * d \in Nat /\ d * d \in Nat /\ u * v \in Nat
    BY Products
  <2>7. (u + d) * (u + d) = m * m
    BY <2>1
  <2>8. QED BY <2>3, <2>4, <2>5, <2>6, <2>7
<1>4. CASE x <= m
  BY <1>2, <1>3, <1>4 DEF m
<1>5. CASE ~(x <= m)
  <2>1. y <= m /\ y + x <= 2 * m
    BY <1>2, <1>5
  <2>2. y * x <= m * m
    BY <1>3, <2>1
  <2>3. x * y = y * x
    BY Products
  <2>4. QED BY <2>2, <2>3 DEF m
<1>6. QED BY <1>4, <1>5

\* A pair that goes to trial.
LEMMA TrialBegins ==
  ASSUME sum \in TestedSums, side \in {"cpu", "gpu"}, NEW k \in Nat, k >= 1,
         NEW o \in Nat, o % 2 = 1, o * TwoTo[k] < sum - 2,
         StartTrial(k, o * (sum - o * TwoTo[k]))
  PROVE  \E a, b \in Nat : TrialWith(trial', SmallPrimes[side], a, b)
<1> DEFINE even == o * TwoTo[k]
           rest == sum - even
           n == o * rest
<1>1. sum \in Nat /\ sum % 2 = 1
  BY Sizes
<1>2. /\ TwoTo[k] \in Nat /\ TwoTo[k] % 2 = 0
  <2>1. k - 1 \in Nat /\ k = (k - 1) + 1
    OBVIOUS
  <2>2. TwoTo[k - 1] \in Nat /\ TwoTo[(k - 1) + 1] = 2 * TwoTo[k - 1]
    BY <2>1, PowerNat
  <2>3. (2 * TwoTo[k - 1]) % 2 = 0 /\ 2 * TwoTo[k - 1] \in Nat
    BY <2>2, Parities
  <2>4. QED BY <2>1, <2>2, <2>3
<1>3. even \in Nat /\ even % 2 = 0
  <2>1. even \in Nat
    BY <1>2, Products
  <2>2. even % 2 # 1
    BY <1>2, OddProducts
  <2> HIDE DEF even
  <2>3. QED BY <2>1, <2>2, Parities
<1>4. rest \in Nat /\ even + rest = sum /\ rest % 2 = 1
  <2> HIDE DEF even
  <2>1. even < sum - 2
    BY DEF even
  <2>2. rest \in Nat /\ even + rest = sum
    BY <1>1, <1>3, <2>1
  <2>3. PICK u \in Nat : even = 2 * u
    BY <1>3, Parities
  <2>4. PICK v \in Nat : sum = 2 * v + 1
    BY <1>1, Parities
  <2>5. rest = 2 * (v - u) + 1 /\ v - u \in Nat
    BY <2>2, <2>3, <2>4
  <2>6. QED BY <2>2, <2>5, Parities
<1>5. n \in Nat /\ n % 2 = 1
  <2> HIDE DEF rest
  <2>1. QED BY <1>4, OddProducts, Products
<1>6. TwoTo[k] * n <= M * M
  <2> DEFINE p == TwoTo[k]
  <2>1. p \in Nat /\ even = o * p
    BY <1>2
  <2>2. even * rest <= M * M
    BY <1>3, <1>4, ProductFits
  <2> HIDE DEF p, rest, even
  <2>3. p * (o * rest) = (p * o) * rest /\ p * o = o * p
    BY <1>4, <2>1, Products
  <2>4. p * (o * rest) = even * rest
    BY <2>1, <2>3
  <2>5. QED BY <2>2, <2>4 DEF p
<1>7. StartTrial(k, n)
  OBVIOUS
<1> HIDE DEF n
<1>8. TrialWith(trial', SmallPrimes[side], 1, 1)
  BY <1>5, <1>6, <1>7, Begins
<1>9. QED BY <1>8

LEMMA TestBegins == TestInit => TestInv
  BY DEF TestInit, TestInv, LeastPart

\* The power loop that counts primes.
LEMMA CountsPrimes ==
  ASSUME TestInv, Power2Prime
  PROVE  /\ valid' \in Nat
         /\ \A k \in composites' : k \in Nat /\ k >= 2 /\ TwoTo[k] < sum - 2
<1> DEFINE powers == {k \in Powers : TwoTo[k] < sum - 2}
           hits == {k \in powers : IsPrime(sum - TwoTo[k])}
           before(k) == {h \in hits : h < k}
<1>1. IsFiniteSet(Powers) /\ \A k \in Powers : k \in Nat /\ k >= 2
  BY PowersAre DEF TestInv
<1>2. IsFiniteSet(hits)
  <2>1. hits \subseteq Powers
    OBVIOUS
  <2> HIDE DEF hits
  <2>2. QED BY <1>1, <2>1, FS_Subset
<1>3. valid' = IF Cardinality(hits) > 1 THEN 2 ELSE Cardinality(hits)
  BY DEF Power2Prime
<1>4. composites' = {k \in powers \ hits : Cardinality(before(k)) <= 1}
  BY DEF Power2Prime
<1> HIDE DEF hits, before
<1>5. Cardinality(hits) \in Nat
  BY <1>2, FS_CardinalityType
<1>6. QED BY <1>1, <1>3, <1>4, <1>5

\* Powers below the sum have a largest one.
LEMMA LargestPower ==
  ASSUME sum \in TestedSums, NEW S, S # {},
         \A k \in S : k \in Nat /\ k >= 2 /\ TwoTo[k] < sum - 2
  PROVE  \E k \in S : \A j \in S : j <= k
<1> DEFINE T == {d \in Nat : sum - d \in S}
<1>1. \A k \in S : k \in Nat /\ k < sum /\ sum - k \in Nat
  <2> TAKE k \in S
  <2>1. k \in Nat /\ TwoTo[k] \in Nat /\ TwoTo[k] > k /\ TwoTo[k] < sum - 2
    BY PowerNat
  <2>2. sum \in Nat
    BY Sizes
  <2> DEFINE x == TwoTo[k]
  <2>3. x \in Nat /\ x > k /\ x < sum - 2
    BY <2>1
  <2> HIDE DEF x
  <2>4. QED BY <2>1, <2>2, <2>3
<1>2. sum \in Nat
  BY Sizes
<1>3. T # {}
  <2>1. PICK k \in S : TRUE
    OBVIOUS
  <2>2. sum - k \in Nat /\ sum - (sum - k) = k
    BY <1>1, <1>2, <2>1
  <2>3. sum - k \in T
    BY <2>1, <2>2
  <2>4. QED BY <2>3
<1>4. PICK d \in T : \A e \in T : d <= e
  <2>1. T \in SUBSET Nat
    OBVIOUS
  <2> HIDE DEF T
  <2>2. QED BY <1>3, <2>1, LeastElement
<1>5. ASSUME NEW j \in S PROVE j <= sum - d
  <2>1. j \in Nat /\ sum - j \in Nat /\ sum - (sum - j) = j
    BY <1>1, <1>2, <1>5
  <2>2. d \in Nat /\ d <= sum - j
    BY <1>4, <1>5, <2>1
  <2>3. QED BY <1>2, <2>1, <2>2
<1>6. sum - d \in S
  BY <1>4
<1>7. QED BY <1>5, <1>6

\* One pass of the factor loop.
LEMMA FactorKeeps ==
  ASSUME TestInv, Factor
  PROVE  /\ phase \in DOMAIN LeastPart \union {"power2composite"}
         /\ trial' \in Trials
         /\ \E a, b \in Nat : TrialWith(trial', SmallPrimes[side], a, b)
<1>1. /\ side \in {"cpu", "gpu"} /\ sum \in TestedSums /\ trial # Idle
      /\ phase \in DOMAIN LeastPart \union {"power2composite"}
  BY DEF TestInv, Factor
<1>2. PICK a \in Nat, b \in Nat : TrialWith(trial, SmallPrimes[side], a, b)
  BY <1>1 DEF TestInv
<1>3. \E x, y \in Nat : TrialWith(trial', SmallPrimes[side], x, y)
  <2>1. CASE Divides(trial) /\ trial' = Divide(trial)
    <3> DEFINE c == b * trial.prime
    <3>1. TrialWith(Divide(trial), SmallPrimes[side], a, c) /\ c \in Nat
      BY <1>1, <1>2, <2>1, DivideKeeps
    <3>2. TrialWith(trial', SmallPrimes[side], a, c)
      BY <2>1, <3>1
    <3> HIDE DEF c
    <3>3. QED BY <3>1, <3>2
  <2>2. CASE ~Divides(trial) /\ ~Over(trial) /\ trial' = Advance(trial)
    <3>1. TrialWith(Advance(trial), SmallPrimes[side], b, b)
      BY <1>1, <1>2, <2>2, AdvanceKeeps
    <3>2. QED BY <2>2, <3>1
  <2>3. QED BY <2>1, <2>2 DEF Factor
<1>4. trial' \in Trials
  BY <1>3 DEF TrialWith, TrialShape
<1>5. QED BY <1>1, <1>3, <1>4

LEMMA ThreeAndFive == \A x \in {3, 5} : x \in Nat /\ x % 2 = 1
  OBVIOUS

LEMMA TestKeeps == TestInv /\ [TestNext]_testVars => TestInv'
<1> SUFFICES ASSUME TestInv, [TestNext]_testVars PROVE TestInv'
  OBVIOUS
<1>1. /\ side \in {"cpu", "gpu"} /\ sum \in TestedSums
      /\ power2 \in Int /\ odd \in Nat /\ valid \in Nat
      /\ phase \in DOMAIN LeastPart => odd % 2 = 1
      /\ \A k \in composites : k \in Nat /\ k >= 2 /\ TwoTo[k] < sum - 2
      /\ trial # Idle => /\ phase \in DOMAIN LeastPart \union {"power2composite"}
                         /\ \E a, b \in Nat : TrialWith(trial, SmallPrimes[side], a, b)
  BY DEF TestInv
<1>2. DOMAIN LeastPart = {"power2odd", "power2even"}
      /\ LeastPart["power2odd"] = 5 /\ LeastPart["power2even"] = 3
  BY DEF LeastPart
<1>3. CASE Filter
  <2>1. /\ phase' \notin DOMAIN LeastPart /\ trial = Idle
        /\ UNCHANGED <<side, sum, power2, odd, valid, terms, composites, trial>>
    BY <1>1, <1>2, <1>3 DEF Filter
  <2>2. QED BY <1>1, <2>1 DEF TestInv
<1>4. CASE Power2Prime
  <2>1. /\ valid' \in Nat
        /\ \A k \in composites' : k \in Nat /\ k >= 2 /\ TwoTo[k] < sum - 2
    BY <1>4, CountsPrimes
  <2>2. \E next : Enter(next)
    BY <1>4 DEF Power2Prime, Leave
  <2>3. power2' \in Int /\ odd' \in Nat /\ odd' % 2 = 1
    BY <1>1, <2>2, EnterFacts
  <2>4. UNCHANGED <<side, sum, trial>> /\ trial = Idle
    BY <1>1, <1>2, <1>4 DEF Power2Prime
  <2>5. QED BY <1>1, <2>1, <2>3, <2>4 DEF TestInv
<1>5. CASE Pair
  <2>1. Looping /\ power2 >= 2 /\ UNCHANGED <<side, sum, phase, valid, terms, composites>>
    BY <1>5 DEF Pair
  <2>2. phase \in DOMAIN LeastPart /\ trial = Idle /\ odd % 2 = 1 /\ power2 \in Nat /\ power2 >= 1
    BY <1>1, <2>1 DEF Looping
  <2>3. CASE NextRow /\ UNCHANGED trial
    <3>1. power2' \in Int /\ odd' \in {3, 5}
      BY <1>1, <1>2, <2>2, <2>3 DEF NextRow
    <3>2. odd' \in Nat /\ odd' % 2 = 1
      BY <3>1, ThreeAndFive, Zenon
    <3>3. QED BY <1>1, <2>1, <2>2, <2>3, <3>1, <3>2 DEF TestInv
  <2>4. CASE odd' = odd + 2 /\ UNCHANGED <<power2, trial>>
    <3>1. odd' \in Nat /\ odd' % 2 = 1
      BY <1>1, <2>2, <2>4
    <3>2. QED BY <1>1, <2>1, <2>2, <2>4, <3>1 DEF TestInv
  <2>5. CASE FitsUnder(odd, power2) /\ StartTrial(power2, OddProduct) /\ UNCHANGED <<power2, odd>>
    <3>1. odd * TwoTo[power2] < sum - 2
      BY <2>5 DEF FitsUnder
    <3>2. StartTrial(power2, odd * (sum - odd * TwoTo[power2]))
      BY <2>5 DEF OddProduct, OddTerm, EvenTerm
    <3>3. \E a, b \in Nat : TrialWith(trial', SmallPrimes[side], a, b)
      BY <1>1, <2>2, <3>1, <3>2, TrialBegins
    <3>4. QED BY <1>1, <2>1, <2>2, <2>5, <3>3 DEF TestInv
  <2>6. QED BY <1>5, <2>3, <2>4, <2>5 DEF Pair
<1>6. CASE CompositePower
  <2> DEFINE k == CHOOSE x \in composites : \A j \in composites : j <= x
  <2>1. /\ phase = "power2composite" /\ composites # {}
        /\ composites' = composites \ {k} /\ power2' = k /\ StartTrial(k, sum - TwoTo[k])
        /\ UNCHANGED <<side, sum, phase, odd, valid, terms>>
    BY <1>6 DEF CompositePower
  <2>2. \E x \in composites : \A j \in composites : j <= x
    BY <1>1, <2>1, LargestPower
  <2>3. k \in composites
    BY <2>2
  <2> HIDE DEF k
  <2>4. k \in Nat /\ k >= 1 /\ TwoTo[k] < sum - 2
    BY <1>1, <2>3
  <2>5. sum \in Nat /\ TwoTo[k] \in Nat
    BY <1>1, <2>4, Sizes, PowerNat
  <2>6. StartTrial(k, 1 * (sum - 1 * TwoTo[k])) /\ 1 * TwoTo[k] < sum - 2
    <3>1. 1 * TwoTo[k] = TwoTo[k]
      BY <2>5
    <3> DEFINE y == TwoTo[k]
    <3>2. y \in Nat /\ 1 * y = y /\ y < sum - 2
      BY <2>4, <2>5
    <3> HIDE DEF y
    <3>3. 1 * (sum - 1 * y) = sum - y
      BY <2>5, <3>2
    <3>4. QED BY <2>1, <2>4, <3>1, <3>3 DEF y
  <2>7. \E a, b \in Nat : TrialWith(trial', SmallPrimes[side], a, b)
    <3>1. 1 \in Nat /\ 1 % 2 = 1
      OBVIOUS
    <3>2. QED BY <1>1, <2>4, <2>6, <3>1, TrialBegins
  <2>8. QED BY <1>1, <2>1, <2>4, <2>7 DEF TestInv
<1>7. CASE LeavePhase
  <2>1. trial = Idle /\ UNCHANGED <<side, sum, terms, composites, trial, valid>>
    BY <1>7 DEF LeavePhase
  <2>2. \E next : Enter(next)
    BY <1>7 DEF LeavePhase, Leave
  <2>3. power2' \in Int /\ odd' \in Nat /\ odd' % 2 = 1
    BY <1>1, <2>2, EnterFacts
  <2>4. QED BY <1>1, <2>1, <2>3 DEF TestInv
<1>8. CASE Factor
  <2>1. /\ phase \in DOMAIN LeastPart \union {"power2composite"}
        /\ \E a, b \in Nat : TrialWith(trial', SmallPrimes[side], a, b)
    BY <1>8, FactorKeeps
  <2>2. UNCHANGED <<side, sum, phase, power2, odd, valid, terms, composites>>
    BY <1>8 DEF Factor
  <2>3. QED BY <1>1, <2>1, <2>2 DEF TestInv
<1>9. CASE Count
  <2>1. /\ trial # Idle /\ trial' = Idle /\ valid' = valid + Known
        /\ UNCHANGED <<side, sum, phase, composites>>
    BY <1>9 DEF Count
  <2>2. valid' \in Nat
    BY <1>1, <2>1 DEF Known
  <2>3. power2' \in Int /\ odd' \in Nat /\ (phase \in DOMAIN LeastPart => odd' % 2 = 1)
    <3>1. CASE phase = "power2composite"
      <4>1. UNCHANGED <<power2, odd>>
        BY <1>9, <3>1 DEF Count
      <4>2. QED BY <1>1, <4>1
    <3>2. CASE phase # "power2composite"
      <4>1. phase \in {"power2odd", "power2even"} /\ odd % 2 = 1
        BY <1>1, <1>2, <2>1, <3>2
      <4>2. CASE NextRow
        <5>1. power2' \in Int /\ odd' \in {3, 5}
          BY <1>1, <1>2, <4>1, <4>2 DEF NextRow
        <5>2. odd' \in Nat /\ odd' % 2 = 1
          BY <5>1, ThreeAndFive, Zenon
        <5>3. QED BY <5>1, <5>2
      <4>3. CASE odd' = odd + 2 /\ UNCHANGED power2
        BY <1>1, <4>1, <4>3
      <4>4. QED BY <1>9, <3>2, <4>2, <4>3 DEF Count
    <3>3. QED BY <3>1, <3>2
  <2>4. QED BY <1>1, <2>1, <2>2, <2>3 DEF TestInv
<1>10. CASE Ended \/ UNCHANGED testVars
  BY <1>1, <1>10 DEF Ended, testVars, TestInv
<1>11. QED
  BY <1>3, <1>4, <1>5, <1>6, <1>7, <1>8, <1>9, <1>10 DEF TestNext

LEMMA TestAlways == TestSpec => []TestInv
  BY TestBegins, TestKeeps, PTL DEF TestSpec

\* The small primes of a leg last through every trial of every sum of it, on
\* either side: the read of the next prime never leaves the list
\* (cpu_search.cpp:104; gpu_search_kernel.h:396).
THEOREM SmallPrimesLast == TestSpec => []PrimesLast
<1>1. ASSUME TestInv PROVE PrimesLast
  <2>1. SUFFICES ASSUME trial # Idle, WalksTheList(trial)
                 PROVE  trial.index + 1 < Len(SmallPrimes[side])
    BY DEF PrimesLast
  <2>2. /\ side \in {"cpu", "gpu"} /\ sum \in TestedSums
        /\ \E a, b \in Nat : TrialWith(trial, SmallPrimes[side], a, b)
    BY <1>1, <2>1 DEF TestInv
  <2>3. QED BY <2>1, <2>2, WalkGoesOn DEF WalksTheList
<1>2. QED BY <1>1, TestAlways, PTL

\* Larger powers are larger.
LEMMA PowersGrow ==
  ASSUME NEW j \in Nat, NEW k \in Nat, j <= k
  PROVE  TwoTo[j] <= TwoTo[k]
<1> DEFINE S == {m \in Nat : TwoTo[j] <= TwoTo[j + m]}
<1>1. 0 \in S
  <2>1. TwoTo[j] \in Nat /\ j + 0 = j
    BY PowerNat
  <2>2. QED BY <2>1
<1>2. ASSUME NEW m \in 1 .. k - j, m - 1 \in S PROVE m \in S
  <2> DEFINE i == j + (m - 1)
  <2>1. i \in Nat /\ j + m = i + 1 /\ m \in Nat
    OBVIOUS
  <2>2. TwoTo[j] <= TwoTo[i]
    BY <1>2
  <2> HIDE DEF i
  <2>3. TwoTo[i] \in Nat /\ TwoTo[i + 1] = 2 * TwoTo[i] /\ TwoTo[j] \in Nat
    BY <2>1, PowerNat
  <2>4. TwoTo[j] <= TwoTo[i + 1]
    BY <2>2, <2>3
  <2>5. QED BY <2>1, <2>4
<1> HIDE DEF S
<1>3. k - j \in Nat /\ j + (k - j) = k
  OBVIOUS
<1>4. k - j \in S
  BY <1>1, <1>2, <1>3, UpTo
<1>5. QED BY <1>3, <1>4 DEF S

\* The composite powers of a sum fit the CPU's array, whose size is a rounded
\* logarithm, and the bits of the GPU's mask, if no sum is over 2^32 + 2
\* (cpu_search.cpp:127; gpu_search_kernel.h:508-516).
THEOREM CompositesAlwaysFit ==
  ASSUME SumLimit <= TwoTo[32] + 2
  PROVE  TestSpec => []CompositesFit
<1>1. ASSUME TestInv PROVE CompositesFit
  <2>1. /\ side \in {"cpu", "gpu"} /\ sum \in TestedSums
        /\ \A k \in composites : k \in Nat /\ k >= 2 /\ TwoTo[k] < sum - 2
    BY <1>1 DEF TestInv
  <2>2. sum \in Nat /\ 5 <= sum /\ sum <= SumLimit /\ SumLimit \in Nat
    BY <2>1, Sizes
  <2>3. \A k \in composites : k \in Nat /\ k >= 2 /\ TwoTo[k] \in Nat /\ TwoTo[k] < SumLimit - 2
    <3> TAKE k \in composites
    <3>1. k \in Nat /\ k >= 2 /\ TwoTo[k] < sum - 2 /\ TwoTo[k] \in Nat
      BY <2>1, PowerNat
    <3> DEFINE x == TwoTo[k]
    <3>2. x \in Nat /\ x < sum - 2
      BY <3>1
    <3> HIDE DEF x
    <3>3. x < SumLimit - 2
      BY <2>2, <3>2
    <3>4. QED BY <3>1, <3>3 DEF x
  <2>4. ASSUME NEW m \in Nat, SumLimit - 2 <= TwoTo[m] PROVE \A k \in composites : k < m
    <3> TAKE k \in composites
    <3>1. k \in Nat /\ TwoTo[k] \in Nat /\ TwoTo[k] < SumLimit - 2
      BY <2>3
    <3>2. m <= k => TwoTo[m] <= TwoTo[k]
      BY <3>1, PowersGrow
    <3> DEFINE x == TwoTo[k]
               y == TwoTo[m]
    <3>3. y \in Nat /\ x \in Nat /\ x < SumLimit - 2 /\ SumLimit - 2 <= y /\ (m <= k => y <= x)
      BY <2>4, <3>1, <3>2, PowerNat
    <3> HIDE DEF x, y
    <3>4. QED BY <2>2, <3>1, <3>3
  <2>5. CASE side = "cpu"
    <3> DEFINE g == Log2Rounded(SumLimit - 2)
    <3>1. g \in Nat /\ SumLimit - 2 < TwoTo[g + 1]
      <4>1. SumLimit - 2 \in Nat /\ SumLimit - 2 >= 3
        BY <2>2
      <4>2. QED BY <4>1, LogFacts
    <3> HIDE DEF g
    <3>2. g + 1 \in Nat /\ SumLimit - 2 <= TwoTo[g + 1]
      <4> DEFINE x == TwoTo[g + 1]
      <4>1. g + 1 \in Nat
        BY <3>1
      <4>2. x \in Nat /\ SumLimit - 2 < x
        BY <3>1, <4>1, PowerNat
      <4> HIDE DEF x
      <4>3. SumLimit - 2 <= x
        BY <2>2, <4>2
      <4>4. QED BY <4>1, <4>3 DEF x
    <3>3. composites \subseteq 1 .. g
      <4>1. \A k \in composites : k < g + 1
        BY <2>4, <3>2
      <4>2. QED BY <2>3, <3>1, <4>1
    <3>4. IsFiniteSet(1 .. g) /\ Cardinality(1 .. g) = g
      <4>1. 1 \in Int /\ g \in Int
        BY <3>1
      <4>2. IsFiniteSet(1 .. g) /\ Cardinality(1 .. g) = IF 1 > g THEN 0 ELSE g - 1 + 1
        BY <4>1, FS_Interval
      <4>3. QED BY <3>1, <4>2
    <3>5. Cardinality(composites) <= g
      BY <3>3, <3>4, FS_Subset
    <3>6. CompositeSlots.cpu = g
      BY DEF CompositeSlots, g
    <3>7. QED BY <2>5, <3>5, <3>6 DEF CompositesFit
  <2>6. CASE side = "gpu"
    <3>1. SumLimit - 2 <= TwoTo[32]
      <4> DEFINE x == TwoTo[32]
      <4>1. x \in Nat /\ SumLimit <= x + 2
        BY PowerNat
      <4> HIDE DEF x
      <4>2. SumLimit - 2 <= x
        BY <2>2, <4>1
      <4>3. QED BY <4>2 DEF x
    <3>2. \A k \in composites : k < 32
      BY <2>4, <3>1
    <3>3. CompositeSlots.gpu = 32
      BY DEF CompositeSlots
    <3>4. QED BY <2>6, <3>2, <3>3 DEF CompositesFit
  <2>7. QED BY <2>1, <2>5, <2>6
<1>2. QED BY <1>1, TestAlways, PTL

\* A trial counts a product exactly when Peter would know from it, for every leg
\* and every odd sum of it.  That even sums are the sums of two primes is what the
\* code cites, and what the theorem takes (cpu_search.cpp:47-80).
THEOREM TrialsCountRight == ASSUME Goldbach PROVE TestSpec => TrialsAreRight
<1> DEFINE Right == trial # Idle /\ trial' = Idle => (valid' = valid + 1 <=> PeterKnows(Product(trial)))
<1>1. ASSUME TestInv, [TestNext]_testVars PROVE [Right]_testVars
  <2>1. SUFFICES ASSUME TestNext, trial # Idle, trial' = Idle
                 PROVE  valid' = valid + 1 <=> PeterKnows(Product(trial))
    BY <1>1
  <2>2. CASE Count
    <3>1. /\ side \in {"cpu", "gpu"} /\ sum \in TestedSums /\ valid \in Nat
          /\ \E a, b \in Nat : TrialWith(trial, SmallPrimes[side], a, b)
      BY <1>1, <2>1 DEF TestInv
    <3>2. /\ trial.multiple > 1 \/ (~Divides(trial) /\ Over(trial))
          /\ valid' = valid + Known
      BY <2>2 DEF Count
    <3>3. PeterKnows(Product(trial)) <=> trial.multiple = 1
      BY <3>1, <3>2, CountRight
    <3>4. valid' = valid + 1 <=> trial.multiple = 1
      BY <3>1, <3>2 DEF Known
    <3>5. QED BY <3>3, <3>4
  <2>3. CASE Factor
    <3>1. trial' \in Trials
      BY <1>1, <2>3, FactorKeeps
    <3>2. QED BY <2>1, <3>1, TestedAssumption
  <2>4. CASE Pair \/ CompositePower \/ LeavePhase
    BY <2>1, <2>4 DEF Pair, Looping, CompositePower, LeavePhase
  <2>5. CASE Filter \/ Power2Prime \/ Ended
    BY <2>1, <2>5 DEF Filter, Power2Prime, Ended, testVars
  <2>6. QED BY <2>1, <2>2, <2>3, <2>4, <2>5 DEF TestNext
<1>2. QED BY <1>1, TestAlways, PTL DEF TestSpec, TrialsAreRight

=============================================================================
