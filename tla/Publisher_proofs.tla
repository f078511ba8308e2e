-------------------------- MODULE Publisher_proofs --------------------------
(***************************************************************************)
(* What every step of a writer keeps, whatever it is composed with: proofs *)
(* about Publisher for any writers, bounds and initial contents.           *)
(***************************************************************************)
EXTENDS Publisher, TLAPS

(* The assumptions on the constants, under one name.                       *)
LEMMA Constants ==
    /\ Absent \notin Int /\ NoId \notin Int /\ Corrupt \notin Int
    /\ Absent # NoId /\ Absent # Corrupt /\ NoId # Corrupt
    /\ InitialStores \subseteq [Objects -> {Absent, NoId, Corrupt}]
  BY DistinctContents, InitialStoresAssumption

-----------------------------------------------------------------------------
(* Type correctness.                                                       *)

LEMMA WriterInitTyped == StoreInit /\ WriterInit => StoreTypeOK /\ WriterTypeOK
  <1> SUFFICES ASSUME StoreInit, WriterInit PROVE StoreTypeOK /\ WriterTypeOK
    OBVIOUS
  <1>1. StoreTypeOK
    BY Constants DEF StoreInit, StoreTypeOK, Contents
  <1>2. WriterTypeOK
    BY DEF WriterInit, WriterTypeOK, Phases, Reports, NoReport
  <1> QED
    BY <1>1, <1>2

(* A PUT leaves the store and the ghosts typed.                            *)
LEMMA OverwriteTyped ==
    ASSUME StoreTypeOK, NEW o \in Objects, NEW g \in Generations, Overwrite(o, g)
    PROVE  /\ store' \in [Objects -> Contents]
           /\ committed' \in SUBSET Generations
           /\ current' \in Generations \cup {Absent}
  <1>1. store' \in [Objects -> Contents]
    BY DEF StoreTypeOK, Overwrite, Contents
  <1> QED
    BY <1>1 DEF StoreTypeOK, Overwrite, RecordCommit, IsPaired, Objects, Meta

LEMMA UnansweredTyped ==
    ASSUME StoreTypeOK, NEW o \in Objects, NEW g \in Generations, Unanswered(o, g)
    PROVE  StoreTypeOK'
  <1>1. CASE UNCHANGED storeVars
    BY <1>1 DEF StoreTypeOK, storeVars
  <1>2. CASE Overwrite(o, g) /\ UNCHANGED late
    BY <1>2, OverwriteTyped DEF StoreTypeOK
  <1>3. CASE LatePuts /\ late' = late \cup {<<o, g>>} /\ UNCHANGED <<store, committed, current>>
    BY <1>3 DEF StoreTypeOK
  <1> QED
    BY <1>1, <1>2, <1>3 DEF Unanswered

(* What a giving-up cycle writes down.                                     *)
LEMMA GiveUpTyped ==
    ASSUME WriterTypeOK, NEW w \in Writers, GiveUp(w), faults' \in Nat,
           phase[w] \in {"read", "compute", "publish"}
    PROVE  WriterTypeOK'
  <1>1. [phase |-> phase[w], published |-> published[w]] \in Reports
    BY DEF WriterTypeOK, Reports
  <1>2. report' \in [Writers -> Reports]
    BY <1>1 DEF WriterTypeOK, GiveUp
  <1>3. phase' \in [Writers -> Phases]
    BY DEF WriterTypeOK, GiveUp, Phases
  <1> QED
    BY <1>2, <1>3 DEF WriterTypeOK, GiveUp

LEMMA FaultTyped == faults \in Nat /\ FaultAllowed => faults' \in Nat
  BY DEF FaultAllowed

(* The next upload of a writer in its publish phase.                       *)
LEMMA NextObject ==
    ASSUME WriterTypeOK, NEW w \in Writers, published[w] < 3
    PROVE  published[w] + 1 \in Objects
  BY DEF WriterTypeOK, Objects, Workflows, Runs, Meta

LEMMA WriterStepTyped ==
    ASSUME StoreTypeOK, WriterTypeOK, OneCyclePerId, WriterNext
    PROVE  StoreTypeOK' /\ WriterTypeOK'
  <1>g. ASSUME NEW w \in Writers, InCycle(w) PROVE gen[w] \in Generations
    BY <1>g DEF OneCyclePerId, WriterTypeOK, Generations
  <1>1. ASSUME NEW w \in Writers, Start(w) PROVE StoreTypeOK' /\ WriterTypeOK'
    BY <1>1 DEF Start, StoreTypeOK, storeVars, WriterTypeOK, Phases, Reports, NoReport
  <1>2. ASSUME NEW w \in Writers, BeginCycle(w) PROVE StoreTypeOK' /\ WriterTypeOK'
    BY <1>2 DEF BeginCycle, StoreTypeOK, storeVars, WriterTypeOK, Phases, Reports, NoReport
  <1>3. ASSUME NEW w \in Writers, ReadUndecodable(w) PROVE StoreTypeOK' /\ WriterTypeOK'
    <2>1. StoreTypeOK'
      BY <1>3 DEF ReadUndecodable, StoreTypeOK, storeVars
    <2>2. faults' \in Nat /\ GiveUp(w) /\ phase[w] = "read"
      BY <1>3 DEF ReadUndecodable, WriterTypeOK
    <2> QED
      BY <2>1, <2>2, GiveUpTyped
  <1>4. ASSUME NEW w \in Writers, ReadFails(w) PROVE StoreTypeOK' /\ WriterTypeOK'
    <2>1. StoreTypeOK'
      BY <1>4 DEF ReadFails, StoreTypeOK, storeVars
    <2>2. faults' \in Nat /\ GiveUp(w) /\ phase[w] = "read"
      BY <1>4, FaultTyped DEF ReadFails, WriterTypeOK
    <2> QED
      BY <2>1, <2>2, GiveUpTyped
  <1>5. ASSUME NEW w \in Writers, ReadCompletes(w) PROVE StoreTypeOK' /\ WriterTypeOK'
    BY <1>5 DEF ReadCompletes, StoreTypeOK, storeVars, WriterTypeOK, Phases
  <1>6. ASSUME NEW w \in Writers, ComputeFails(w) PROVE StoreTypeOK' /\ WriterTypeOK'
    <2>1. StoreTypeOK'
      BY <1>6 DEF ComputeFails, StoreTypeOK, storeVars
    <2>2. faults' \in Nat /\ GiveUp(w) /\ phase[w] = "compute"
      BY <1>6, FaultTyped DEF ComputeFails, WriterTypeOK
    <2> QED
      BY <2>1, <2>2, GiveUpTyped
  <1>7. ASSUME NEW w \in Writers, ComputeCompletes(w) PROVE StoreTypeOK' /\ WriterTypeOK'
    BY <1>7 DEF ComputeCompletes, StoreTypeOK, storeVars, WriterTypeOK, Phases
  <1>8. ASSUME NEW w \in Writers, Put(w) PROVE StoreTypeOK' /\ WriterTypeOK'
    <2>1. published[w] + 1 \in Objects /\ gen[w] \in Generations
      BY <1>8, <1>g, NextObject DEF Put, InCycle
    <2>2. StoreTypeOK'
      BY <1>8, <2>1, OverwriteTyped DEF Put, StoreTypeOK
    <2>3. published' \in [Writers -> 0..3]
      BY <1>8 DEF Put, WriterTypeOK
    <2> QED
      BY <1>8, <2>2, <2>3 DEF Put, WriterTypeOK
  <1>9. ASSUME NEW w \in Writers, PutFails(w) PROVE StoreTypeOK' /\ WriterTypeOK'
    <2>1. published[w] + 1 \in Objects /\ gen[w] \in Generations
      BY <1>9, <1>g, NextObject DEF PutFails, InCycle
    <2>2. StoreTypeOK'
      BY <1>9, <2>1, UnansweredTyped DEF PutFails
    <2>3. faults' \in Nat /\ GiveUp(w) /\ phase[w] = "publish"
      BY <1>9, FaultTyped DEF PutFails, WriterTypeOK
    <2> QED
      BY <2>2, <2>3, GiveUpTyped
  <1>10. ASSUME NEW w \in Writers, Finish(w) PROVE StoreTypeOK' /\ WriterTypeOK'
    BY <1>10 DEF Finish, StoreTypeOK, storeVars, WriterTypeOK, Phases
  <1>11. ASSUME NEW w \in Writers, Crash(w) PROVE StoreTypeOK' /\ WriterTypeOK'
    <2>1. StoreTypeOK'
      <3>1. CASE phase[w] = "publish" /\ published[w] < 3
        <4>1. published[w] + 1 \in Objects /\ gen[w] \in Generations
          BY <3>1, <1>g, NextObject DEF InCycle
        <4> QED
          BY <1>11, <3>1, <4>1, UnansweredTyped DEF Crash
      <3>2. CASE ~ (phase[w] = "publish" /\ published[w] < 3)
        BY <1>11, <3>2 DEF Crash, StoreTypeOK, storeVars
      <3> QED
        BY <3>1, <3>2
    <2>2. faults' \in Nat
      BY <1>11, FaultTyped DEF Crash, WriterTypeOK
    <2> QED
      BY <1>11, <2>1, <2>2 DEF Crash, WriterTypeOK, Phases
  <1>12. ASSUME LateLanding PROVE StoreTypeOK' /\ WriterTypeOK'
    <2>1. PICK put \in late : Land(put)
      BY <1>12 DEF LateLanding
    <2>2. put[1] \in Objects /\ put[2] \in Generations
      BY <2>1 DEF StoreTypeOK
    <2>3. StoreTypeOK'
      BY <2>1, <2>2, OverwriteTyped DEF Land, StoreTypeOK
    <2>4. faults' \in Nat
      BY <1>12, FaultTyped DEF LateLanding, WriterTypeOK
    <2> QED
      BY <1>12, <2>3, <2>4 DEF LateLanding, WriterTypeOK
  <1> QED
    BY <1>1, <1>2, <1>3, <1>4, <1>5, <1>6, <1>7, <1>8, <1>9, <1>10, <1>11, <1>12
    DEF WriterNext, WriterProgress, WriterFault
-----------------------------------------------------------------------------
(* Every writer step, reduced to what the readers depend on: it changes    *)
(* the store by at most one PUT that could still land, and lets no PUT of  *)
(* a generation begun before it become possible again.                     *)

NoNewPut ==
    /\ cycles' \in Nat /\ cycles <= cycles'
    /\ \A o \in Objects, g \in Generations :
          MayLand(o, g)' => MayLand(o, g) \/ g > cycles

(* The only PUT of its generation that has yet to land, if it is a marker. *)
PutLands(o, g) ==
    /\ Overwrite(o, g)
    /\ MayLand(o, g) /\ g <= cycles
    /\ ~ MayLand(o, g)'
    /\ o = Meta => ~ MayLand(Workflows, g) /\ ~ MayLand(Runs, g)

StoreStep ==
    /\ NoNewPut
    /\ \/ UNCHANGED <<store, committed, current>>
       \/ \E o \in Objects, g \in Generations : PutLands(o, g)

(* The effect of an unanswered PUT on the pending PUTs, when its writer    *)
(* leaves the cycle.                                                       *)
LEMMA UnansweredIsStoreStep ==
    ASSUME StoreTypeOK, WriterTypeOK, OneCyclePerId,
           NEW w \in Writers, phase[w] = "publish", published[w] < 3,
           phase'[w] \notin {"read", "compute", "publish"},
           \A v \in Writers : v # w => phase'[v] = phase[v],
           UNCHANGED <<gen, published, cycles>>,
           Unanswered(published[w] + 1, gen[w])
    PROVE  StoreStep /\ OneCyclePerId'
  <1> DEFINE o == published[w] + 1
             g == gen[w]
  <1>0. o \in Objects /\ g \in Generations /\ g <= cycles /\ cycles \in Nat
    BY NextObject DEF WriterTypeOK, OneCyclePerId, InCycle, Generations
  <1>1. MayLand(o, g)
    BY DEF MayLand, InCycle, WriterTypeOK
  <1>2. <<o, g>> \notin late /\ \A put \in late : put[2] # g
    BY DEF OneCyclePerId, InCycle
  <1>3. \A v \in Writers : InCycle(v)' => InCycle(v) /\ v # w /\ gen[v] # g
    BY DEF OneCyclePerId, InCycle
  <1>4. \A put \in late' : put \in late \/ put = <<o, g>>
    BY DEF Unanswered, storeVars
  <1>5. NoNewPut
    BY <1>0, <1>1, <1>3, <1>4 DEF NoNewPut, MayLand
  <1>8. StoreStep
    <2>a. CASE UNCHANGED <<store, committed, current>>
      BY <1>5, <2>a DEF StoreStep
    <2>b. CASE Overwrite(o, g) /\ UNCHANGED late
      <3>1. ~ MayLand(o, g)'
        BY <1>2, <1>3, <2>b DEF MayLand
      <3>2. ASSUME o = Meta PROVE ~ MayLand(Workflows, g) /\ ~ MayLand(Runs, g)
        <4>1. published[w] = 2
          BY <3>2 DEF WriterTypeOK, Meta
        <4>2. \A v \in Writers : InCycle(v) /\ gen[v] = g => v = w
          BY DEF OneCyclePerId, InCycle
        <4> QED
          BY <1>2, <4>1, <4>2 DEF MayLand, Workflows, Runs
      <3>3. PutLands(o, g)
        BY <1>0, <1>1, <2>b, <3>1, <3>2 DEF PutLands
      <3> HIDE DEF o, g
      <3> QED
        BY <1>0, <1>5, <3>3 DEF StoreStep
    <2> QED
      BY <2>a, <2>b DEF Unanswered, storeVars
  <1>9. OneCyclePerId'
    <2>1. \A v \in Writers : gen'[v] <= cycles' /\ (InCycle(v)' => gen'[v] > 0)
      BY <1>3 DEF OneCyclePerId
    <2>2. \A u, v \in Writers : InCycle(u)' /\ InCycle(v)' /\ gen'[u] = gen'[v] => u = v
      BY <1>3 DEF OneCyclePerId
    <2>3. \A put \in late' : put[2] <= cycles'
      BY <1>0, <1>4 DEF OneCyclePerId
    <2>4. \A put \in late' : \A v \in Writers : InCycle(v)' => gen'[v] # put[2]
      BY <1>3, <1>4 DEF OneCyclePerId
    <2>5. \A put \in late' : \A other \in late' : other[2] = put[2] => other = put
      BY <1>2, <1>4 DEF OneCyclePerId
    <2> QED
      BY <2>1, <2>2, <2>3, <2>4, <2>5 DEF OneCyclePerId
  <1> QED
    BY <1>8, <1>9

(* Steps that touch neither the store nor the abandoned PUTs, and begin no *)
(* cycle.                                                                  *)
LEMMA QuietStep ==
    ASSUME StoreTypeOK, WriterTypeOK, OneCyclePerId,
           UNCHANGED <<store, late, committed, current, gen, published, cycles>>,
           \A v \in Writers : InCycle(v)' => InCycle(v)
    PROVE  StoreStep /\ OneCyclePerId'
  <1>1. NoNewPut
    BY DEF NoNewPut, MayLand, WriterTypeOK
  <1>2. StoreStep
    BY <1>1 DEF StoreStep
  <1>3. OneCyclePerId'
    BY DEF OneCyclePerId
  <1> QED
    BY <1>2, <1>3

LEMMA WriterStepIsStoreStep ==
    ASSUME StoreTypeOK, WriterTypeOK, OneCyclePerId, WriterNext
    PROVE  StoreStep /\ OneCyclePerId'
  <1>1. ASSUME NEW w \in Writers,
               Start(w) \/ ReadUndecodable(w) \/ ReadFails(w) \/ ReadCompletes(w)
                 \/ ComputeFails(w) \/ ComputeCompletes(w) \/ Finish(w)
        PROVE  StoreStep /\ OneCyclePerId'
    <2>1. UNCHANGED <<store, late, committed, current, gen, published, cycles>>
      BY <1>1 DEF Start, ReadUndecodable, ReadFails, ReadCompletes, ComputeFails,
                  ComputeCompletes, Finish, GiveUp, storeVars
    <2>2. \A v \in Writers : InCycle(v)' => InCycle(v)
      BY <1>1 DEF Start, ReadUndecodable, ReadFails, ReadCompletes, ComputeFails,
                  ComputeCompletes, Finish, GiveUp, InCycle, WriterTypeOK
    <2> QED
      BY <2>1, <2>2, QuietStep
  <1>2. ASSUME NEW w \in Writers, BeginCycle(w) PROVE StoreStep /\ OneCyclePerId'
    <2>0. cycles \in Nat /\ cycles' = cycles + 1
      BY <1>2 DEF BeginCycle, WriterTypeOK
    <2>1. \A v \in Writers : v # w => phase'[v] = phase[v] /\ gen'[v] = gen[v]
                                       /\ published'[v] = published[v]
      BY <1>2 DEF BeginCycle, WriterTypeOK
    <2>2. gen'[w] = cycles + 1
      BY <1>2 DEF BeginCycle, WriterTypeOK
    <2>3. UNCHANGED <<store, late, committed, current>>
      BY <1>2 DEF BeginCycle, storeVars
    <2>4. NoNewPut
      BY <2>0, <2>1, <2>2, <2>3 DEF NoNewPut, MayLand, InCycle
    <2>5. StoreStep
      BY <2>3, <2>4 DEF StoreStep
    <2>6. OneCyclePerId'
      <3>0. \A v \in Writers : gen[v] \in Nat
        BY DEF WriterTypeOK
      <3>1. \A v \in Writers : gen'[v] <= cycles' /\ (InCycle(v)' => gen'[v] > 0)
        BY <2>0, <2>1, <2>2, <3>0 DEF OneCyclePerId, InCycle
      <3>2. \A u, v \in Writers : InCycle(u)' /\ InCycle(v)' /\ gen'[u] = gen'[v] => u = v
        BY <2>0, <2>1, <2>2, <3>0 DEF OneCyclePerId, InCycle
      <3>t. \A put \in late : put[2] \in Nat
        BY DEF StoreTypeOK, Generations
      <3>3. \A put \in late' : put[2] <= cycles'
        BY <2>0, <2>3, <3>t DEF OneCyclePerId
      <3>4. \A put \in late' : \A v \in Writers : InCycle(v)' => gen'[v] # put[2]
        BY <2>0, <2>1, <2>2, <2>3, <3>t DEF OneCyclePerId, InCycle
      <3>5. \A put \in late' : \A other \in late' : other[2] = put[2] => other = put
        BY <2>3 DEF OneCyclePerId
      <3> QED
        BY <3>1, <3>2, <3>3, <3>4, <3>5 DEF OneCyclePerId
    <2> QED
      BY <2>5, <2>6
  <1>3. ASSUME NEW w \in Writers, Put(w) PROVE StoreStep /\ OneCyclePerId'
    <2>o. PICK o \in Objects : o = published[w] + 1
      BY <1>3, NextObject DEF Put
    <2>g. PICK g \in Generations : g = gen[w]
      BY <1>3 DEF Put, WriterTypeOK, OneCyclePerId, InCycle, Generations
    <2> USE <2>o, <2>g
    <2>0. o \in Objects /\ g \in Generations /\ g <= cycles /\ cycles \in Nat
      BY <1>3, NextObject DEF Put, WriterTypeOK, OneCyclePerId, InCycle, Generations
    <2>1. MayLand(o, g)
      BY <1>3 DEF Put, MayLand, InCycle, WriterTypeOK
    <2>2. \A put \in late : put[2] # g
      BY <1>3 DEF Put, OneCyclePerId, InCycle
    <2>3. \A v \in Writers : InCycle(v) /\ gen[v] = g => v = w
      BY <1>3 DEF Put, OneCyclePerId, InCycle
    <2>4. published' = [published EXCEPT ![w] = o] /\ UNCHANGED <<phase, gen, cycles, late>>
      BY <1>3 DEF Put
    <2>a. published'[w] = o /\ \A v \in Writers : v # w => published'[v] = published[v]
      BY <2>4 DEF WriterTypeOK
    <2>b. \A v \in Writers, p \in Objects : published'[v] < p => published[v] < p
      BY <2>a DEF WriterTypeOK, Objects, Workflows, Runs, Meta
    <2>5. NoNewPut
      BY <2>0, <2>4, <2>b DEF NoNewPut, MayLand, InCycle
    <2>6. ~ MayLand(o, g)'
      <3>1. \A put \in late' : put[2] # g
        BY <2>2, <2>4
      <3>2. \A v \in Writers : InCycle(v)' /\ gen'[v] = g => v = w
        BY <2>3, <2>4 DEF InCycle
      <3> QED
        BY <2>0, <2>a, <3>1, <3>2 DEF MayLand, Objects, Workflows, Runs, Meta
    <2>7. ASSUME o = Meta PROVE ~ MayLand(Workflows, g) /\ ~ MayLand(Runs, g)
      <3>1. published[w] = 2
        BY <2>7 DEF WriterTypeOK, Meta
      <3> QED
        BY <2>2, <2>3, <3>1 DEF MayLand, Workflows, Runs
    <2>8. PutLands(o, g)
      BY <1>3, <2>0, <2>1, <2>6, <2>7 DEF PutLands, Put
    <2>9. OneCyclePerId'
      BY <2>4 DEF OneCyclePerId, InCycle
    <2> QED
      BY <2>0, <2>5, <2>8, <2>9 DEF StoreStep
  <1>4. ASSUME NEW w \in Writers, PutFails(w) PROVE StoreStep /\ OneCyclePerId'
    <2>1. phase' = [phase EXCEPT ![w] = "wait"] /\ UNCHANGED <<gen, published, cycles>>
      BY <1>4 DEF PutFails, GiveUp
    <2>2. phase'[w] \notin {"read", "compute", "publish"}
      BY <2>1 DEF WriterTypeOK
    <2>3. \A v \in Writers : v # w => phase'[v] = phase[v]
      BY <2>1 DEF WriterTypeOK
    <2> QED
      BY <1>4, <2>1, <2>2, <2>3, UnansweredIsStoreStep DEF PutFails
  <1>5. ASSUME NEW w \in Writers, Crash(w) PROVE StoreStep /\ OneCyclePerId'
    <2>1. phase' = [phase EXCEPT ![w] = "down"] /\ UNCHANGED <<gen, published, cycles>>
      BY <1>5 DEF Crash
    <2>2. phase'[w] \notin {"read", "compute", "publish"}
      BY <2>1 DEF WriterTypeOK
    <2>3. \A v \in Writers : v # w => phase'[v] = phase[v]
      BY <2>1 DEF WriterTypeOK
    <2>4. CASE phase[w] = "publish" /\ published[w] < 3
      BY <1>5, <2>1, <2>2, <2>3, <2>4, UnansweredIsStoreStep DEF Crash
    <2>5. CASE ~ (phase[w] = "publish" /\ published[w] < 3)
      <3>1. UNCHANGED <<store, late, committed, current>>
        BY <1>5, <2>5 DEF Crash, storeVars
      <3>2. \A v \in Writers : InCycle(v)' => InCycle(v)
        BY <2>2, <2>3 DEF InCycle
      <3> QED
        BY <2>1, <3>1, <3>2, QuietStep
    <2> QED
      BY <2>4, <2>5
  <1>6. ASSUME LateLanding PROVE StoreStep /\ OneCyclePerId'
    <2>1. PICK put \in late : Land(put)
      BY <1>6 DEF LateLanding
    <2> DEFINE o == put[1]
               g == put[2]
    <2>2. o \in Objects /\ g \in Generations /\ put = <<o, g>> /\ cycles \in Nat
      BY <2>1 DEF StoreTypeOK, WriterTypeOK
    <2>3. g <= cycles /\ MayLand(o, g)
      BY <2>2 DEF MayLand, OneCyclePerId
    <2>4. UNCHANGED <<phase, gen, published, cycles>> /\ late' = late \ {put}
      BY <1>6, <2>1 DEF LateLanding, Land
    <2>5. \A w \in Writers : InCycle(w) => gen[w] # g
      BY DEF OneCyclePerId
    <2>6. \A other \in late : other[2] = g => other = put
      BY DEF OneCyclePerId
    <2>7. ~ MayLand(o, g)'
      BY <2>2, <2>4, <2>5 DEF MayLand, InCycle
    <2>8. ASSUME o = Meta PROVE ~ MayLand(Workflows, g) /\ ~ MayLand(Runs, g)
      BY <2>2, <2>5, <2>6, <2>8 DEF MayLand, Workflows, Runs, Meta
    <2>9. PutLands(o, g)
      BY <2>1, <2>2, <2>3, <2>7, <2>8 DEF PutLands, Land
    <2>10. NoNewPut
      BY <2>2, <2>4 DEF NoNewPut, MayLand, InCycle
    <2>11. OneCyclePerId'
      BY <2>4 DEF OneCyclePerId, InCycle
    <2> HIDE DEF o, g
    <2> QED
      BY <2>2, <2>9, <2>10, <2>11 DEF StoreStep
  <1> QED
    BY <1>1, <1>2, <1>3, <1>4, <1>5, <1>6 DEF WriterNext, WriterProgress, WriterFault

-----------------------------------------------------------------------------
(* What a store step keeps.                                                *)

(* A settled generation stays settled.                                     *)
LEMMA SettledStays ==
    ASSUME NoNewPut, NEW g \in Generations, Settled(g), cycles \in Nat
    PROVE  Settled(g)'
  <1>1. g <= cycles'
    BY DEF NoNewPut, Settled, Generations
  <1>2. ASSUME NEW o \in Objects PROVE ~ MayLand(o, g)'
    BY DEF NoNewPut, Settled, Generations
  <1> QED
    BY <1>1, <1>2 DEF Settled

(* A PUT that can still land belongs to no settled generation; when it     *)
(* makes the three objects agree, it commits a generation for the first    *)
(* time.                                                                   *)
LEMMA LandingCommitsOnce ==
    ASSUME StoreTypeOK, WriterTypeOK, CommittedIsSettled, NEW o \in Objects, NEW g \in Generations,
           PutLands(o, g), IsPaired(store')
    PROVE  /\ g \notin committed
           /\ store'[Meta] = g /\ current' = g /\ committed' = committed \cup {g}
  <1>1. g \notin committed
    BY DEF PutLands, CommittedIsSettled, Settled
  <1>2. store'[o] = g
    BY DEF PutLands, Overwrite, StoreTypeOK
  <1>3. store'[Meta] = g
    BY <1>2 DEF IsPaired, Objects
  <1> QED
    BY <1>1, <1>3 DEF PutLands, Overwrite, RecordCommit

LEMMA StoreStepKeepsStore ==
    ASSUME StoreTypeOK, WriterTypeOK, CommittedIsSettled, StoreStep, cycles \in Nat
    PROVE  CommittedIsSettled'
  <1>1. CASE UNCHANGED <<store, committed, current>>
    <2>1. \A g \in Generations : Settled(g) => Settled(g)'
      BY SettledStays DEF StoreStep
    <2>2. committed \subseteq Generations
      BY DEF StoreTypeOK
    <2> QED
      BY <1>1, <2>1, <2>2 DEF CommittedIsSettled, IsPaired
  <1>2. ASSUME NEW o \in Objects, NEW g \in Generations, PutLands(o, g)
        PROVE  CommittedIsSettled'
    <2>0. store' = [store EXCEPT ![o] = g] /\ RecordCommit /\ NoNewPut
      BY <1>2 DEF PutLands, Overwrite, StoreStep
    <2>1. \A h \in Generations : Settled(h) => Settled(h)'
      BY SettledStays DEF StoreStep
    <2>2. (store[Meta] \in Generations => Settled(store[Meta]))'
      <3>1. CASE o = Meta
        <4>1. store'[Meta] = g
          BY <2>0, <3>1 DEF StoreTypeOK
        <4>2. \A p \in Objects : ~ MayLand(p, g)'
          BY <1>2, <2>0, <3>1 DEF PutLands, NoNewPut, Objects, Generations
        <4>3. g <= cycles'
          BY <1>2, <2>0 DEF PutLands, NoNewPut, Generations
        <4> QED
          BY <4>1, <4>2, <4>3 DEF Settled
      <3>2. CASE o # Meta
        <4>1. store'[Meta] = store[Meta]
          BY <2>0, <3>2 DEF StoreTypeOK
        <4> QED
          BY <2>1, <4>1 DEF CommittedIsSettled
      <3> QED
        BY <3>1, <3>2
    <2>3. CASE IsPaired(store')
      <3>1. store'[Meta] = g /\ current' = g /\ committed' = committed \cup {g}
        BY <1>2, <2>3, LandingCommitsOnce
      <3>2. committed \subseteq Generations
        BY DEF StoreTypeOK
      <3> QED
        BY <2>1, <2>2, <3>1, <3>2 DEF CommittedIsSettled
    <2>4. CASE ~ IsPaired(store')
      <3>1. UNCHANGED <<committed, current>>
        BY <2>0, <2>4 DEF RecordCommit
      <3>2. committed \subseteq Generations
        BY DEF StoreTypeOK
      <3> QED
        BY <2>1, <2>2, <2>4, <3>1, <3>2 DEF CommittedIsSettled, IsPaired
    <2> QED
      BY <2>3, <2>4
  <1> QED
    BY <1>1, <1>2 DEF StoreStep

-----------------------------------------------------------------------------

LEMMA WriterInitSafe == StoreInit /\ WriterInit => PublisherInv
  <1> SUFFICES ASSUME StoreInit, WriterInit PROVE PublisherInv
    OBVIOUS
  <1>1. StoreTypeOK /\ WriterTypeOK
    BY WriterInitTyped
  <1>2. OneCyclePerId
    BY DEF StoreInit, WriterInit, OneCyclePerId, InCycle
  <1>3. store[Meta] \notin Generations
    BY Constants DEF StoreInit, Objects, Meta, Generations
  <1>4. CommittedIsSettled
    BY <1>3 DEF StoreInit, CommittedIsSettled, IsPaired
  <1> QED
    BY <1>1, <1>2, <1>4 DEF PublisherInv

LEMMA WriterStepSafe == PublisherInv /\ WriterNext => PublisherInv'
  <1> SUFFICES ASSUME PublisherInv, WriterNext PROVE PublisherInv'
    OBVIOUS
  <1> USE DEF PublisherInv
  <1>1. StoreTypeOK' /\ WriterTypeOK'
    BY WriterStepTyped
  <1>2. StoreStep /\ OneCyclePerId'
    BY WriterStepIsStoreStep
  <1>3. CommittedIsSettled'
    BY <1>2, StoreStepKeepsStore DEF WriterTypeOK
  <1> QED
    BY <1>1, <1>2, <1>3

-----------------------------------------------------------------------------
(* One writer.                                                             *)

(* What is on storage is an id or has none.                                *)
LEMMA AgeIsNat ==
    ASSUME StoreTypeOK, NEW o \in Objects
    PROVE  Age(store[o]) \in Nat /\ (Age(store[o]) > 0 => store[o] = Age(store[o]))
  BY DEF StoreTypeOK, Age, Generations

(* Where an id has landed, object by object.                               *)
LEMMA LandedIs ==
    ASSUME NEW w \in Writers, NEW n \in 0..3
    PROVE  Landed(w) = 1..n <=> \A o \in Objects : store[o] = gen[w] <=> o <= n
  BY DEF Landed, Objects, Workflows, Runs, Meta

(* The next upload, answered or not: the object carries the youngest id,   *)
(* as those before it do, and the marker commits.                          *)
LEMMA PutInOrder ==
    ASSUME PublisherInv, OneWriterInv, NEW w \in Writers,
           phase[w] = "publish", published[w] < 3,
           Overwrite(published[w] + 1, gen[w]), UNCHANGED <<gen, cycles>>
    PROVE  /\ \A o \in Objects : Age(store[o])' <= cycles'
           /\ (\A g \in committed : g <= Age(current))'
           /\ DataNeverBehindMarker'
           /\ Landed(w)' = 1..(published[w] + 1)
           /\ committed \subseteq committed'
           /\ store'[Meta] # store[Meta] => IsPaired(store')
<1> DEFINE n == published[w]
           g == gen[w]
<1>1. n \in 0..2 /\ n + 1 \in Objects /\ g \in Generations /\ g = cycles
  BY NextObject DEF PublisherInv, WriterTypeOK, OneCyclePerId, OneWriterInv,
     AccountIsTrue, InCycle, Generations
<1>2. \A o \in Objects : store[o] = g <=> o <= n
  <2>1. Landed(w) = 1..n
    BY DEF OneWriterInv, AccountIsTrue, InCycle
  <2>. QED
    BY <1>1, <2>1, LandedIs
<1>3. \A o \in Objects : store'[o] = IF o = n + 1 THEN g ELSE store[o]
  BY <1>1 DEF Overwrite, PublisherInv, StoreTypeOK
<1>4. \A o \in Objects : store'[o] = g <=> o <= n + 1
  BY <1>1, <1>2, <1>3 DEF Objects, Workflows, Runs, Meta
<1>5. \A o \in Objects : Age(store[o])' = IF o <= n + 1 THEN g ELSE Age(store[o])
  BY <1>1, <1>2, <1>3, <1>4 DEF Age, Objects, Workflows, Runs, Meta
<1>6. \A o \in Objects : Age(store[o]) \in Nat /\ Age(store[o]) <= g
  BY <1>1, AgeIsNat DEF PublisherInv, OneWriterInv
<1>7. \A o \in Objects : Age(store[o])' <= cycles'
  BY <1>1, <1>5, <1>6 DEF Generations
<1>8. DataNeverBehindMarker'
  <2>1. Age(store[Workflows])' >= Age(store[Runs])'
    BY <1>1, <1>5, <1>6 DEF Objects, Workflows, Runs, Meta, Generations,
       OneWriterInv, DataNeverBehindMarker
  <2>2. Age(store[Runs])' >= Age(store[Meta])'
    BY <1>1, <1>5, <1>6 DEF Objects, Workflows, Runs, Meta, Generations,
       OneWriterInv, DataNeverBehindMarker
  <2>. QED
    BY <2>1, <2>2 DEF DataNeverBehindMarker
<1>9. Landed(w)' = 1..(n + 1)
  <2>1. Landed(w)' = {o \in Objects : o <= n + 1}
    BY <1>4 DEF Landed
  <2>. QED
    BY <1>1, <2>1 DEF Objects, Workflows, Runs, Meta
<1>10. store'[Meta] # store[Meta] => IsPaired(store')
  BY <1>1, <1>3, <1>4 DEF IsPaired, Objects, Workflows, Runs, Meta
<1>11. committed \subseteq committed'
  BY DEF Overwrite, RecordCommit
<1>12. (\A h \in committed : h <= Age(current))'
  <2>1. \A h \in committed : h \in Nat /\ h <= cycles
    BY DEF PublisherInv, StoreTypeOK, CommittedIsSettled, Settled, Generations
  <2>2. CASE IsPaired(store')
    <3>1. store'[Meta] = g
      BY <1>1, <1>4, <2>2 DEF IsPaired, Objects, Workflows, Runs, Meta, DistinctContents
    <3>2. committed' = committed \cup {g} /\ current' = g
      BY <2>2, <3>1 DEF Overwrite, RecordCommit
    <3>. QED
      BY <1>1, <2>1, <3>2 DEF Age, Generations
  <2>3. CASE ~ IsPaired(store')
    BY <2>3 DEF Overwrite, RecordCommit, OneWriterInv
  <2>. QED
    BY <2>2, <2>3
<1>. QED
  BY <1>7, <1>8, <1>9, <1>10, <1>11, <1>12

(* A step that leaves the store alone keeps what is said of it.            *)
LEMMA StoreAtRest ==
    ASSUME PublisherInv, OneWriterInv, UNCHANGED storeVars, cycles' \in {cycles, cycles + 1}
    PROVE  /\ late' = {}
           /\ \A o \in Objects : Age(store[o])' <= cycles'
           /\ (\A g \in committed : g <= Age(current))'
           /\ DataNeverBehindMarker'
           /\ committed' = committed
           /\ store'[Meta] = store[Meta]
<1>1. \A o \in Objects : Age(store[o]) \in Nat /\ cycles \in Nat
  BY AgeIsNat DEF PublisherInv, WriterTypeOK
<1>2. \A o \in Objects : Age(store[o])' = Age(store[o])
  BY DEF storeVars, Age
<1>3. \A o \in Objects : Age(store[o])' <= cycles'
  BY <1>1, <1>2 DEF OneWriterInv
<1>4. DataNeverBehindMarker'
  BY <1>2 DEF OneWriterInv, DataNeverBehindMarker, Objects
<1>. QED
  BY <1>3, <1>4 DEF OneWriterInv, storeVars, Age

(* The account of the one writer is all that is left to prove of a step.   *)
LEMMA OneWriterSuffices ==
    ASSUME SoleWriter, OneWriterInv, NEW w \in Writers,
           late' = {},
           \A o \in Objects : Age(store[o])' <= cycles',
           (\A g \in committed : g <= Age(current))',
           DataNeverBehindMarker',
           AccountIsTrue(w)',
           heartbeat'[w] # 0 => heartbeat'[w] \in committed',
           Failed(w)' => \E n \in {report'[w].published, report'[w].published + 1} :
                            Landed(w)' = 1..n
    PROVE  OneWriterInv'
<1>1. \A v \in Writers : v = w
  BY DEF SoleWriter
<1>2. HeartbeatIsCommitted' /\ (\A v \in Writers : AccountIsTrue(v))'
  BY <1>1 DEF HeartbeatIsCommitted
<1>3. ReportIsOffByAtMostOne'
  BY <1>1 DEF ReportIsOffByAtMostOne
<1>. QED
  BY <1>2, <1>3 DEF OneWriterInv

LEMMA WriterStepKeepsOneWriter ==
    ASSUME SoleWriter, PublisherInv, OneWriterInv, WriterNext
    PROVE  OneWriterInv' /\ (store'[Meta] # store[Meta] => IsPaired(store'))
<1>1. ~ LateLanding
  BY DEF OneWriterInv, LateLanding, Land
<1>2. PICK w \in Writers : WriterProgress(w) \/ WriterFault(w)
  BY <1>1 DEF WriterNext
<1>3. /\ gen[w] = cycles /\ cycles \in Nat /\ published[w] \in 0..3
      /\ InCycle(w) => Landed(w) = 1..published[w] /\ report[w] = NoReport
      /\ phase[w] \in {"read", "compute"} => published[w] = 0
      /\ late = {} /\ ~ LatePuts
      /\ heartbeat[w] # 0 => heartbeat[w] \in committed
  BY DEF PublisherInv, WriterTypeOK, OneWriterInv, AccountIsTrue, SoleWriter,
     HeartbeatIsCommitted
<1>t. /\ phase \in [Writers -> Phases] /\ gen \in [Writers -> Nat]
      /\ published \in [Writers -> 0..3] /\ report \in [Writers -> Reports]
      /\ heartbeat \in [Writers -> Nat]
  BY DEF PublisherInv, WriterTypeOK
<1>4. CASE Start(w)
  <2>1. phase'[w] = "wait" /\ report'[w] = NoReport /\ heartbeat'[w] = 0
    BY <1>4, <1>t DEF Start
  <2>2. UNCHANGED <<storeVars, gen, published, cycles>>
    BY <1>4 DEF Start
  <2>3. AccountIsTrue(w)' /\ ~ Failed(w)'
    BY <1>3, <2>1, <2>2 DEF AccountIsTrue, InCycle, Failed
  <2>. QED
    BY <1>3, <2>1, <2>2, <2>3, StoreAtRest, OneWriterSuffices
<1>5. CASE BeginCycle(w)
  <2>1. /\ phase'[w] = "read" /\ report'[w] = NoReport /\ gen'[w] = cycles'
        /\ published'[w] = 0 /\ cycles' = cycles + 1
    BY <1>3, <1>5, <1>t DEF BeginCycle
  <2>2. UNCHANGED <<storeVars, heartbeat>>
    BY <1>5 DEF BeginCycle
  <2>3. \A o \in Objects : store'[o] # gen'[w]
    <3>1. \A o \in Objects : Age(store[o]) <= cycles
      BY DEF OneWriterInv
    <3>. QED
      BY <1>3, <2>1, <2>2, <3>1 DEF Age, Generations, storeVars
  <2>4. Landed(w)' = 1..0
    BY <2>3 DEF Landed
  <2>5. AccountIsTrue(w)' /\ ~ Failed(w)'
    BY <2>1, <2>4 DEF AccountIsTrue, Failed
  <2>. QED
    BY <1>3, <2>1, <2>2, <2>5, StoreAtRest, OneWriterSuffices
<1>6. ASSUME GiveUp(w), InCycle(w), UNCHANGED storeVars
      PROVE  OneWriterInv' /\ store'[Meta] = store[Meta]
  <2>1. phase'[w] = "wait" /\ report'[w].published = published[w]
    BY <1>6, <1>t DEF GiveUp
  <2>2. UNCHANGED <<gen, published, heartbeat, cycles>>
    BY <1>6 DEF GiveUp
  <2>3. AccountIsTrue(w)' /\ Landed(w)' = 1..published[w]
    BY <1>3, <1>6, <2>1, <2>2 DEF AccountIsTrue, InCycle, Landed, storeVars
  <2>. QED
    BY <1>3, <1>6, <2>1, <2>2, <2>3, StoreAtRest, OneWriterSuffices
<1>7. CASE ReadUndecodable(w) \/ ReadFails(w) \/ ComputeFails(w)
  BY <1>6, <1>7 DEF ReadUndecodable, ReadFails, ComputeFails, InCycle
<1>8. CASE ReadCompletes(w) \/ ComputeCompletes(w)
  <2>1. /\ InCycle(w) /\ published[w] = 0
        /\ phase'[w] \in {"compute", "publish"}
        /\ UNCHANGED <<storeVars, gen, published, report, heartbeat, cycles>>
    BY <1>3, <1>8, <1>t DEF ReadCompletes, ComputeCompletes, InCycle
  <2>2. AccountIsTrue(w)' /\ ~ Failed(w)'
    BY <1>3, <2>1 DEF AccountIsTrue, InCycle, Landed, storeVars, Failed
  <2>. QED
    BY <1>3, <2>1, <2>2, StoreAtRest, OneWriterSuffices
<1>9. CASE Put(w)
  <2>1. /\ phase[w] = "publish" /\ published[w] < 3
        /\ Overwrite(published[w] + 1, gen[w])
        /\ UNCHANGED <<phase, gen, report, heartbeat, cycles, late>>
        /\ published'[w] = published[w] + 1
    BY <1>9, <1>t DEF Put
  <2>2. AccountIsTrue(w)' /\ ~ Failed(w)'
    BY <1>3, <2>1, PutInOrder DEF AccountIsTrue, InCycle, Failed
  <2>. QED
    BY <1>3, <2>1, <2>2, PutInOrder, OneWriterSuffices
<1>10. CASE PutFails(w)
  <2>1. phase[w] = "publish" /\ published[w] < 3 /\ GiveUp(w)
    BY <1>10 DEF PutFails
  <2>2. CASE UNCHANGED storeVars
    BY <1>6, <2>1, <2>2 DEF InCycle
  <2>3. CASE Overwrite(published[w] + 1, gen[w]) /\ UNCHANGED late
    <3>1. phase'[w] = "wait" /\ report'[w].published = published[w]
      BY <2>1, <1>t DEF GiveUp
    <3>2. UNCHANGED <<gen, published, heartbeat, cycles>>
      BY <2>1 DEF GiveUp
    <3>3. AccountIsTrue(w)'
      BY <1>3, <3>1, <3>2 DEF AccountIsTrue, InCycle
    <3>4. Landed(w)' = 1..(report'[w].published + 1)
      BY <2>1, <2>3, <3>1, <3>2, PutInOrder
    <3>. QED
      BY <1>3, <2>1, <2>3, <3>2, <3>3, <3>4, PutInOrder, OneWriterSuffices
  <2>. QED
    BY <1>3, <1>10, <2>2, <2>3 DEF PutFails, Unanswered
<1>11. CASE Finish(w)
  <2>1. /\ phase[w] = "publish" /\ published[w] = 3 /\ phase'[w] = "wait"
        /\ heartbeat'[w] = gen[w]
        /\ UNCHANGED <<storeVars, gen, published, report, cycles>>
    BY <1>11, <1>t DEF Finish
  <2>2. report[w] = NoReport /\ Landed(w) = 1..3 /\ gen[w] \in Generations
    BY <1>3, <2>1 DEF InCycle, PublisherInv, OneCyclePerId, Generations
  <2>3. \A o \in Objects : store[o] = gen[w]
    BY <2>2, LandedIs DEF Objects, Workflows, Runs, Meta
  <2>4. IsPaired(store) /\ store[Meta] = gen[w]
    BY <2>2, <2>3 DEF IsPaired, Objects
  <2>5. heartbeat'[w] \in committed'
    BY <2>1, <2>4 DEF PublisherInv, CommittedIsSettled, storeVars
  <2>6. AccountIsTrue(w)' /\ ~ Failed(w)'
    BY <1>3, <2>1, <2>2 DEF AccountIsTrue, InCycle, Failed
  <2>. QED
    BY <1>3, <2>1, <2>5, <2>6, StoreAtRest, OneWriterSuffices
<1>12. CASE Crash(w)
  <2>1. phase'[w] = "down" /\ UNCHANGED <<gen, published, report, heartbeat, cycles>>
    BY <1>12, <1>t DEF Crash
  <2>2. AccountIsTrue(w)'
    BY <1>3, <2>1 DEF AccountIsTrue, InCycle
  <2>3. CASE UNCHANGED storeVars
    <3>1. Failed(w)' => Failed(w)
      BY <1>3, <1>12, <2>1, <1>t DEF Failed, InCycle, Crash, Phases
    <3>2. Landed(w)' = Landed(w)
      BY <2>1, <2>3 DEF Landed, storeVars
    <3>3. Failed(w)' => \E n \in {report'[w].published, report'[w].published + 1} :
                            Landed(w)' = 1..n
      BY <2>1, <3>1, <3>2 DEF OneWriterInv, ReportIsOffByAtMostOne
    <3>. QED
      BY <1>3, <2>1, <2>2, <2>3, <3>3, StoreAtRest, OneWriterSuffices
  <2>4. CASE /\ phase[w] = "publish" /\ published[w] < 3
             /\ Overwrite(published[w] + 1, gen[w]) /\ UNCHANGED late
    <3>1. ~ Failed(w)'
      BY <1>3, <2>1, <2>4 DEF Failed, InCycle
    <3>. QED
      BY <1>3, <2>1, <2>2, <2>4, <3>1, PutInOrder, OneWriterSuffices
  <2>. QED
    BY <1>3, <1>12, <2>3, <2>4 DEF Crash, Unanswered
<1>. QED
  BY <1>2, <1>4, <1>5, <1>7, <1>8, <1>9, <1>10, <1>11, <1>12
     DEF WriterProgress, WriterFault

(* Readers and clusters change nothing that the writer's account is about. *)
LEMMA OneWriterAtRest ==
    ASSUME OneWriterInv, UNCHANGED <<storeVars, writerVars>>
    PROVE  OneWriterInv'
<1>. USE DEF storeVars, writerVars
<1>1. (\A w \in Writers : AccountIsTrue(w))'
  BY DEF OneWriterInv, AccountIsTrue, InCycle, Landed
<1>2. DataNeverBehindMarker' /\ HeartbeatIsCommitted'
  BY DEF OneWriterInv, DataNeverBehindMarker, HeartbeatIsCommitted, Age
<1>3. ReportIsOffByAtMostOne'
  BY DEF OneWriterInv, ReportIsOffByAtMostOne, Failed, Landed
<1>. QED
  BY <1>1, <1>2, <1>3 DEF OneWriterInv, Age

LEMMA OneWriterInit == StoreInit /\ WriterInit => OneWriterInv
<1>1. SUFFICES ASSUME StoreInit, WriterInit PROVE OneWriterInv
  OBVIOUS
<1>2. \A o \in Objects : Age(store[o]) = 0
  BY <1>1, Constants DEF StoreInit, Age, Generations
<1>3. DataNeverBehindMarker
  BY <1>2 DEF DataNeverBehindMarker, Objects
<1>4. \A w \in Writers : AccountIsTrue(w) /\ ~ Failed(w) /\ heartbeat[w] = 0
  BY <1>1 DEF WriterInit, AccountIsTrue, InCycle, Failed
<1>. QED
  BY <1>1, <1>2, <1>3, <1>4 DEF StoreInit, WriterInit, OneWriterInv,
     HeartbeatIsCommitted, ReportIsOffByAtMostOne

=============================================================================
