------------------------- MODULE Publication_proofs -------------------------
(***************************************************************************)
(* Proofs about Publication for any writers, readers, bounds and initial   *)
(* contents of the prefix.                                                 *)
(***************************************************************************)
EXTENDS Publication, Publisher_proofs

-----------------------------------------------------------------------------
(* Type correctness.                                                       *)

LEMMA InitTyped == Init => TypeOK
  <1> SUFFICES ASSUME Init PROVE TypeOK
    OBVIOUS
  <1> USE DEF Init
  <1>1. StoreTypeOK /\ WriterTypeOK
    BY WriterInitTyped
  <1>3. ReaderTypeOK
    BY DEF ReaderInit, ReaderTypeOK, Nothing, Contents, Results, Reasons
  <1> QED
    BY <1>1, <1>3 DEF TypeOK

LEMMA ReaderStepTyped ==
    ASSUME TypeOK, NEW r \in Readers, ReaderProgress(r) \/ ReadError(r)
    PROVE  StoreTypeOK' /\ ReaderTypeOK'
  <1> USE DEF TypeOK
  <1>0. UNCHANGED storeVars
    BY DEF ReaderProgress, MarkerMissing, MarkerInvalid, MarkerStale, Reject,
           MarkerAccepted, ReadWorkflows, Select, ReadError
  <1>1. StoreTypeOK'
    BY <1>0 DEF StoreTypeOK, storeVars
  <1>2. ASSUME NEW reason \in Reasons \cup {"none"}
        PROVE  Retained(held[r], reason) \in Results
    BY DEF Retained, Results
  <1>3. ASSUME NEW reason \in Reasons, Reject(r, reason) PROVE ReaderTypeOK'
    BY <1>2, <1>3 DEF Reject, ReaderTypeOK
  <1>4. CASE MarkerMissing(r) \/ MarkerInvalid(r) \/ MarkerStale(r)
    BY <1>1, <1>3, <1>4 DEF MarkerMissing, MarkerInvalid, MarkerStale, Reasons
  <1>5. Nothing \in [Objects -> Contents]
    BY DEF Nothing, Contents
  <1>6. CASE MarkerAccepted(r)
    <2>1. [Nothing EXCEPT ![Meta] = store[Meta]] \in [Objects -> Contents]
      BY <1>5 DEF StoreTypeOK, Objects, Meta
    <2> QED
      BY <1>1, <1>6, <2>1 DEF MarkerAccepted, ReaderTypeOK
  <1>7. CASE ReadWorkflows(r)
    <2>1. [cand[r] EXCEPT ![Workflows] = store[Workflows]] \in [Objects -> Contents]
      BY DEF ReaderTypeOK, StoreTypeOK, Objects, Workflows
    <2> QED
      BY <1>1, <1>7, <2>1 DEF ReadWorkflows, ReaderTypeOK
  <1>8. CASE Select(r)
    <2> DEFINE c == [cand[r] EXCEPT ![Runs] = store[Runs]]
    <2>1. c \in [Objects -> Contents]
      BY DEF ReaderTypeOK, StoreTypeOK, Objects, Runs
    <2>2. RejectionReason(c) \in Reasons \cup {"none"}
      BY DEF RejectionReason, Reasons
    <2>3. held' \in [Readers -> [Objects -> Contents]]
      BY <1>8, <2>1 DEF Select, ReaderTypeOK
    <2>4. result' \in [Readers -> Results]
      BY <1>2, <1>8, <2>2 DEF Select, ReaderTypeOK, Results, Fresh
    <2> QED
      BY <1>1, <1>5, <1>8, <2>3, <2>4 DEF Select, ReaderTypeOK
  <1>9. CASE ReadError(r)
    BY <1>1, <1>5, <1>9 DEF ReadError, ReaderTypeOK
  <1> QED
    BY <1>4, <1>6, <1>7, <1>8, <1>9 DEF ReaderProgress

LEMMA NextTyped == PublicationInv /\ [Next]_vars => TypeOK'
  <1> SUFFICES ASSUME PublicationInv, [Next]_vars PROVE TypeOK'
    OBVIOUS
  <1> USE DEF PublicationInv, TypeOK
  <1>1. CASE WriterNext /\ UNCHANGED readerVars
    <2>1. StoreTypeOK' /\ WriterTypeOK'
      BY <1>1, WriterStepTyped
    <2>2. ReaderTypeOK'
      BY <1>1 DEF readerVars, ReaderTypeOK
    <2> QED
      BY <2>1, <2>2
  <1>2. CASE ReaderNext /\ UNCHANGED writerVars
    <2>1. StoreTypeOK' /\ ReaderTypeOK'
      BY <1>2, ReaderStepTyped DEF ReaderNext
    <2>2. WriterTypeOK'
      BY <1>2 DEF writerVars, WriterTypeOK
    <2> QED
      BY <2>1, <2>2
  <1>3. CASE UNCHANGED vars
    BY <1>3 DEF vars, storeVars, writerVars, readerVars, StoreTypeOK, WriterTypeOK, ReaderTypeOK
  <1> QED
    BY <1>1, <1>2, <1>3 DEF Next

LEMMA StoreStepKeepsReaders ==
    ASSUME TypeOK, CommittedIsSettled, ReadersAreSound, SelectedIsSnapshot,
           StoreStep, cycles \in Nat, UNCHANGED readerVars
    PROVE  ReadersAreSound' /\ SelectedIsSnapshot'
  <1> USE DEF readerVars
  <1>1. committed \subseteq committed'
    BY DEF StoreStep, PutLands, Overwrite, RecordCommit
  <1>2. SelectedIsSnapshot'
    BY <1>1 DEF SelectedIsSnapshot
  <1>3. ASSUME NEW r \in Readers, rpc[r] # "idle" PROVE CandidateIsCurrent(r)'
    <2>0. CandidateIsCurrent(r)
      BY <1>3 DEF ReadersAreSound
    <2>g. PICK g \in Generations : g = cand[r][Meta] /\ Settled(g)
      BY <2>0 DEF CandidateIsCurrent
    <2>1. Settled(g)'
      BY <2>g, SettledStays DEF StoreStep
    <2>2. cand'[r][Meta] = g
      BY <2>g
    <2>3. CASE UNCHANGED <<store, committed, current>>
      BY <2>0, <2>g, <2>1, <2>3 DEF CandidateIsCurrent
    <2>4. ASSUME NEW o \in Objects, NEW h \in Generations, PutLands(o, h)
          PROVE  CandidateIsCurrent(r)'
      <3>1. h # g
        BY <2>4, <2>g DEF PutLands, Settled
      <3>2. store'[o] = h /\ \A p \in Objects : p # o => store'[p] = store[p]
        BY <2>4 DEF PutLands, Overwrite, TypeOK, StoreTypeOK
      <3>3. store'[Runs] = g => store[Runs] = g
        BY <3>1, <3>2 DEF Objects
      <3>4. store'[Workflows] = g => store[Workflows] = g
        BY <3>1, <3>2 DEF Objects
      <3>5. current' # current => store'[Runs] = h
        <4>1. current' # current => IsPaired(store')
          BY <2>4 DEF PutLands, Overwrite, RecordCommit
        <4> QED
          BY <2>4, <4>1, LandingCommitsOnce DEF IsPaired, TypeOK
      <3> QED
        BY <2>0, <2>g, <2>1, <2>2, <3>1, <3>3, <3>4, <3>5 DEF CandidateIsCurrent
    <2> QED
      BY <2>3, <2>4 DEF StoreStep
  <1> QED
    BY <1>2, <1>3 DEF ReadersAreSound

-----------------------------------------------------------------------------
(* What a reader step keeps.                                               *)

LEMMA ReaderStepKeeps ==
    ASSUME TypeOK, OneCyclePerId, CommittedIsSettled, ReadersAreSound, SelectedIsSnapshot,
           NEW r \in Readers, ReaderProgress(r) \/ ReadError(r), UNCHANGED writerVars
    PROVE  /\ OneCyclePerId' /\ CommittedIsSettled'
           /\ ReadersAreSound' /\ SelectedIsSnapshot'
           /\ \/ held' = held
              \/ /\ current # Absent
                 /\ held' = [held EXCEPT ![r] = held'[r]]
                 /\ held'[r][Meta] = current
  <1>0. UNCHANGED storeVars
    BY DEF ReaderProgress, MarkerMissing, MarkerInvalid, MarkerStale, Reject,
           MarkerAccepted, ReadWorkflows, Select, ReadError
  <1> USE <1>0 DEF storeVars, writerVars
  <1>1. OneCyclePerId' /\ CommittedIsSettled'
    BY DEF OneCyclePerId, CommittedIsSettled, InCycle, Settled, MayLand
  <1>2. \A g : Settled(g) => Settled(g)'
    BY DEF Settled, MayLand, InCycle
  <1>3. ASSUME NEW q \in Readers, rpc[q] # "idle", rpc'[q] = rpc[q], cand'[q] = cand[q]
        PROVE  CandidateIsCurrent(q)'
    BY <1>2, <1>3 DEF ReadersAreSound, CandidateIsCurrent
  <1>4. CASE MarkerMissing(r) \/ MarkerInvalid(r) \/ MarkerStale(r)
    <2>1. UNCHANGED <<rpc, cand, held>>
      BY <1>4 DEF MarkerMissing, MarkerInvalid, MarkerStale, Reject
    <2> QED
      BY <1>1, <1>3, <2>1 DEF ReadersAreSound, SelectedIsSnapshot
  <1>5. CASE ReadError(r)
    <2>1. \A q \in Readers : rpc'[q] # "idle" => rpc[q] # "idle" /\ rpc'[q] = rpc[q] /\ cand'[q] = cand[q]
      BY <1>5 DEF ReadError, TypeOK, ReaderTypeOK
    <2>2. held' = held
      BY <1>5 DEF ReadError
    <2> QED
      BY <1>1, <1>3, <2>1, <2>2 DEF ReadersAreSound, SelectedIsSnapshot
  <1>6. CASE MarkerAccepted(r)
    <2>1. \A q \in Readers : q # r => rpc'[q] = rpc[q] /\ cand'[q] = cand[q]
      BY <1>6 DEF MarkerAccepted, TypeOK, ReaderTypeOK
    <2>2. rpc'[r] = "workflows" /\ cand'[r][Meta] = store[Meta] /\ held' = held
      BY <1>6 DEF MarkerAccepted, TypeOK, ReaderTypeOK, Nothing, Objects, Meta
    <2>3. store[Meta] \in Generations /\ Settled(store[Meta])
      BY <1>6 DEF MarkerAccepted, Identified, CommittedIsSettled
    <2>4. store[Workflows] = store[Meta] /\ store[Runs] = store[Meta] => current = store[Meta]
      BY <2>3 DEF CommittedIsSettled, IsPaired
    <2>5. CandidateIsCurrent(r)'
      BY <1>2, <2>2, <2>3, <2>4 DEF CandidateIsCurrent
    <2> QED
      BY <1>1, <1>3, <2>1, <2>2, <2>5 DEF ReadersAreSound, SelectedIsSnapshot
  <1>7. CASE ReadWorkflows(r)
    <2>1. \A q \in Readers : q # r => rpc'[q] = rpc[q] /\ cand'[q] = cand[q]
      BY <1>7 DEF ReadWorkflows, TypeOK, ReaderTypeOK
    <2>2. /\ rpc'[r] = "runs" /\ cand'[r][Meta] = cand[r][Meta]
          /\ cand'[r][Workflows] = store[Workflows] /\ held' = held
      BY <1>7 DEF ReadWorkflows, TypeOK, ReaderTypeOK, Objects, Workflows, Meta
    <2>3. rpc[r] = "workflows" /\ CandidateIsCurrent(r)
      BY <1>7 DEF ReadWorkflows, ReadersAreSound
    <2>4. CandidateIsCurrent(r)'
      BY <1>2, <2>2, <2>3 DEF CandidateIsCurrent
    <2> QED
      BY <1>1, <1>3, <2>1, <2>2, <2>4 DEF ReadersAreSound, SelectedIsSnapshot
  <1>8. CASE Select(r)
    <2> DEFINE c == [cand[r] EXCEPT ![Runs] = store[Runs]]
    <2>1. \A q \in Readers : q # r => rpc'[q] = rpc[q] /\ cand'[q] = cand[q]
      BY <1>8 DEF Select, TypeOK, ReaderTypeOK
    <2>2. rpc'[r] = "idle"
      BY <1>8 DEF Select, TypeOK, ReaderTypeOK
    <2>3. ReadersAreSound'
      BY <1>3, <2>1, <2>2 DEF ReadersAreSound
    <2>4. CASE RejectionReason(c) # "none"
      <3>1. held' = held
        BY <1>8, <2>4 DEF Select
      <3> QED
        BY <1>1, <2>3, <3>1 DEF SelectedIsSnapshot
    <2>5. CASE RejectionReason(c) = "none"
      <3>1. IsPaired(c) /\ held' = [held EXCEPT ![r] = c]
        BY <1>8, <2>5 DEF Select, RejectionReason
      <3>2. c[Meta] = cand[r][Meta] /\ c[Workflows] = cand[r][Workflows] /\ c[Runs] = store[Runs]
        BY DEF TypeOK, ReaderTypeOK, Objects, Workflows, Runs, Meta
      <3>3. rpc[r] = "runs" /\ CandidateIsCurrent(r)
        BY <1>8 DEF Select, ReadersAreSound
      <3>4. current = c[Meta] /\ c[Meta] \in Generations
        BY <3>1, <3>2, <3>3 DEF CandidateIsCurrent, IsPaired
      <3>5. current # Absent /\ current \in committed
        BY <3>4, Constants DEF CommittedIsSettled, Generations
      <3>6. held'[r] = c /\ \A q \in Readers : q # r => held'[q] = held[q]
        BY <3>1 DEF TypeOK, ReaderTypeOK
      <3>7. SelectedIsSnapshot'
        BY <3>1, <3>4, <3>5, <3>6 DEF SelectedIsSnapshot
      <3> QED
        BY <1>1, <2>3, <3>1, <3>4, <3>5, <3>6, <3>7
    <2> QED
      BY <2>4, <2>5
  <1> QED
    BY <1>4, <1>5, <1>6, <1>7, <1>8 DEF ReaderProgress

-----------------------------------------------------------------------------
(* The invariant is inductive.                                             *)

LEMMA InitInv == Init => PublicationInv
  <1> SUFFICES ASSUME Init PROVE PublicationInv
    OBVIOUS
  <1>1. TypeOK
    BY InitTyped
  <1>2. OneCyclePerId
    BY DEF Init, WriterInit, StoreInit, OneCyclePerId, InCycle
  <1>3. CommittedIsSettled
    <2>1. store[Meta] \notin Generations
      BY Constants DEF Init, StoreInit, Objects, Meta, Generations
    <2> QED
      BY <2>1 DEF Init, StoreInit, CommittedIsSettled, IsPaired
  <1>4. ReadersAreSound /\ SelectedIsSnapshot
    BY DEF Init, ReaderInit, ReadersAreSound, SelectedIsSnapshot
  <1> QED
    BY <1>1, <1>2, <1>3, <1>4 DEF PublicationInv

LEMMA NextInv == PublicationInv /\ [Next]_vars => PublicationInv'
  <1> SUFFICES ASSUME PublicationInv, [Next]_vars PROVE PublicationInv'
    OBVIOUS
  <1>0. TypeOK'
    BY NextTyped
  <1>c. cycles \in Nat
    BY DEF PublicationInv, TypeOK, WriterTypeOK
  <1>1. CASE WriterNext /\ UNCHANGED readerVars
    <2>1. StoreStep /\ OneCyclePerId'
      BY <1>1, WriterStepIsStoreStep DEF PublicationInv, TypeOK
    <2>2. CommittedIsSettled'
      BY <1>c, <2>1, StoreStepKeepsStore DEF PublicationInv, TypeOK
    <2>3. ReadersAreSound' /\ SelectedIsSnapshot'
      BY <1>1, <1>c, <2>1, StoreStepKeepsReaders DEF PublicationInv
    <2> QED
      BY <1>0, <2>1, <2>2, <2>3 DEF PublicationInv
  <1>2. CASE ReaderNext /\ UNCHANGED writerVars
    BY <1>0, <1>2, ReaderStepKeeps DEF PublicationInv, ReaderNext
  <1>3. CASE UNCHANGED vars
    <2> USE <1>3 DEF vars, storeVars, writerVars, readerVars
    <2>1. OneCyclePerId' /\ CommittedIsSettled'
      BY DEF PublicationInv, OneCyclePerId, CommittedIsSettled, InCycle, Settled, MayLand
    <2>2. ReadersAreSound' /\ SelectedIsSnapshot'
      BY DEF PublicationInv, ReadersAreSound, CandidateIsCurrent, SelectedIsSnapshot, Settled,
             MayLand, InCycle
    <2> QED
      BY <1>0, <2>1, <2>2 DEF PublicationInv
  <1> QED
    BY <1>1, <1>2, <1>3 DEF Next

THEOREM Invariance == Spec => []PublicationInv
  BY InitInv, NextInv, PTL DEF Spec

(* Every reachable state is typed: phases, upload counters, failure        *)
(* records, candidates and results are what main.py and consumer.py make.  *)
THEOREM TypeCorrect == Spec => []TypeOK
  <1>1. PublicationInv => TypeOK
    BY DEF PublicationInv
  <1> QED
    BY <1>1, Invariance, PTL

(* The publication read_generation_result returns is one generation that   *)
(* the prefix held whole at one instant, for any number of writers and     *)
(* readers and whatever becomes of unanswered uploads.                     *)
THEOREM SelectionIsSound == Spec => []SelectedIsSnapshot
  <1>1. PublicationInv => SelectedIsSnapshot
    BY DEF PublicationInv
  <1> QED
    BY <1>1, Invariance, PTL

-----------------------------------------------------------------------------
(* The refinement of AtomicGenerations.                                    *)

LEMMA InitRefines == Init => Atomic!Init
  BY DEF Init, StoreInit, ReaderInit, Nothing, Objects, Meta, Atomic!Init

LEMMA StepRefines == PublicationInv /\ [Next]_vars => [Atomic!Next]_(Atomic!vars)
  <1> SUFFICES ASSUME PublicationInv, [Next]_vars PROVE [Atomic!Next]_(Atomic!vars)
    OBVIOUS
  <1>1. CASE WriterNext /\ UNCHANGED readerVars
    <2>1. StoreStep
      BY <1>1, WriterStepIsStoreStep DEF PublicationInv, TypeOK
    <2>2. CASE UNCHANGED <<store, committed, current>>
      BY <1>1, <2>2 DEF readerVars, Atomic!vars
    <2>3. ASSUME NEW o \in Objects, NEW g \in Generations, PutLands(o, g)
          PROVE  [Atomic!Next]_(Atomic!vars)
      <3>1. CASE IsPaired(store')
        <4>1. /\ g \notin committed
              /\ current' = g /\ committed' = committed \cup {g}
          BY <2>3, <3>1, LandingCommitsOnce DEF PublicationInv, TypeOK
        <4>2. Atomic!Commit
          BY <1>1, <4>1 DEF Atomic!Commit, readerVars, Generations
        <4> QED
          BY <4>2 DEF Atomic!Next
      <3>2. CASE ~ IsPaired(store')
        <4>1. UNCHANGED <<committed, current>>
          BY <2>3, <3>2 DEF PutLands, Overwrite, RecordCommit
        <4> QED
          BY <1>1, <4>1 DEF readerVars, Atomic!vars
      <3> QED
        BY <3>1, <3>2
    <2> QED
      BY <2>1, <2>2, <2>3 DEF StoreStep
  <1>2. ASSUME NEW r \in Readers, ReaderProgress(r) \/ ReadError(r), UNCHANGED writerVars
        PROVE  [Atomic!Next]_(Atomic!vars)
    <2>1. UNCHANGED storeVars
      BY <1>2 DEF ReaderProgress, MarkerMissing, MarkerInvalid, MarkerStale, Reject,
             MarkerAccepted, ReadWorkflows, Select, ReadError
    <2>2. CASE held' = held
      BY <2>1, <2>2 DEF storeVars, Atomic!vars
    <2>3. CASE /\ current # Absent
               /\ held' = [held EXCEPT ![r] = held'[r]]
               /\ held'[r][Meta] = current
      <3>1. [q \in Readers |-> held'[q][Meta]]
              = [[q \in Readers |-> held[q][Meta]] EXCEPT ![r] = current]
        BY <2>3 DEF PublicationInv, TypeOK, ReaderTypeOK
      <3>2. Atomic!Adopt(r)
        BY <2>1, <2>3, <3>1 DEF storeVars, Atomic!Adopt
      <3> QED
        BY <3>2 DEF Atomic!Next
    <2> QED
      BY <1>2, <2>2, <2>3, ReaderStepKeeps DEF PublicationInv
  <1>3. CASE UNCHANGED vars
    BY <1>3 DEF vars, storeVars, readerVars, Atomic!vars
  <1> QED
    BY <1>1, <1>2, <1>3 DEF Next, ReaderNext

(* The three-object protocol implements a store with one atomic object:    *)
(* every generation appears at one instant and only once, and a reader     *)
(* moves only to the generation that is current as its read ends.          *)
THEOREM ReadsAreAtomic == Spec => AtomicSpec
  <1>1. Spec => Atomic!Init /\ [][Atomic!Next]_(Atomic!vars)
    BY InitRefines, StepRefines, Invariance, PTL DEF Spec
  <1> QED
    BY <1>1 DEF AtomicSpec, Atomic!Spec

-----------------------------------------------------------------------------
(* What the deployment's one writer adds: the order of the prefix, the     *)
(* truth of the heartbeat and of the failure record, and readers that      *)
(* never go back.  A ledger that cannot be decoded is safe from any number *)
(* of writers.                                                             *)

LEMMA ReaderStepIsQuiet ==
    ASSUME ReaderNext PROVE UNCHANGED storeVars
  BY DEF ReaderNext, ReaderProgress, MarkerMissing, MarkerInvalid, MarkerStale,
         Reject, MarkerAccepted, ReadWorkflows, Select, ReadError

LEMMA OneWriterNext ==
    ASSUME SoleWriter, PublicationInv, OneWriterInv, [Next]_vars
    PROVE  OneWriterInv' /\ (store'[Meta] # store[Meta] => IsPaired(store'))
<1>1. CASE WriterNext /\ UNCHANGED readerVars
  BY <1>1, WriterStepKeepsOneWriter DEF PublicationInv, TypeOK, PublisherInv
<1>2. CASE ReaderNext /\ UNCHANGED writerVars
  BY <1>2, ReaderStepIsQuiet, OneWriterAtRest DEF storeVars
<1>3. CASE UNCHANGED vars
  BY <1>3, OneWriterAtRest DEF vars, storeVars
<1>. QED
  BY <1>1, <1>2, <1>3 DEF Next

(* A held publication is exchanged for the current one, which is younger   *)
(* than all that were committed before it.                                 *)
LEMMA HeldIsExchangedForYounger ==
    ASSUME PublicationInv, PublicationInv', OneWriterInv, [Next]_vars,
           NEW r \in Readers, held'[r] # held[r]
    PROVE  Age(held'[r][Meta]) > Age(held[r][Meta])
<1>1. PICK q \in Readers : ReaderProgress(q) \/ ReadError(q)
  BY DEF Next, ReaderNext, vars, readerVars
<1>2. UNCHANGED <<writerVars, storeVars>>
  BY ReaderStepIsQuiet DEF Next, vars, readerVars
<1>3. current # Absent /\ held' = [held EXCEPT ![q] = held'[q]] /\ held'[q][Meta] = current
  BY <1>1, <1>2, ReaderStepKeeps DEF PublicationInv
<1>4. q = r
  BY <1>3 DEF PublicationInv, TypeOK, ReaderTypeOK
<1>5. current \in Generations /\ current \in committed
  BY <1>3 DEF PublicationInv, TypeOK, StoreTypeOK, CommittedIsSettled
<1>6. held[r] \in [Objects -> Contents] /\ held'[r] \in [Objects -> Contents]
  BY DEF PublicationInv, TypeOK, ReaderTypeOK
<1>7. held'[r] # Nothing
  BY <1>3, <1>4 DEF Nothing, Objects
<1>8. IsPaired(held'[r])
  BY <1>7 DEF PublicationInv, SelectedIsSnapshot
<1>9. Age(held'[r][Meta]) = current /\ Age(current) = current
  BY <1>3, <1>4, <1>5 DEF Age
<1>10. CASE held[r] = Nothing
  <2>1. Age(held[r][Meta]) = 0
    BY <1>10, Constants DEF Nothing, Objects, Age, Generations
  <2>. QED
    BY <1>5, <1>9, <2>1 DEF Generations
<1>11. CASE held[r] # Nothing
  <2>1. IsPaired(held[r]) /\ held[r][Meta] \in committed
    BY <1>11 DEF PublicationInv, SelectedIsSnapshot
  <2>2. held[r][Meta] \in Generations /\ held[r][Meta] <= current
    BY <1>9, <2>1 DEF IsPaired, OneWriterInv
  <2>3. held[r][Meta] # held'[r][Meta]
    BY <1>6, <1>8, <2>1 DEF IsPaired, Objects
  <2>. QED
    BY <1>3, <1>4, <1>5, <1>9, <2>2, <2>3 DEF Age, Generations
<1>. QED
  BY <1>10, <1>11

(* One writer's account of its latest cycle is true in every state.        *)
THEOREM OneWriterInvariance == ASSUME SoleWriter PROVE Spec => []OneWriterInv
<1>1. SoleWriter
  OBVIOUS
<1>2. PublicationInv /\ OneWriterInv /\ [Next]_vars => OneWriterInv'
  BY <1>1, OneWriterNext
<1>3. Init => OneWriterInv
  BY OneWriterInit DEF Init
<1>. QED
  BY <1>2, <1>3, Invariance, PTL DEF Spec

(* With one writer the objects only get older along the order of the       *)
(* uploads: data may outrun the marker, and never lags behind it.          *)
THEOREM DataLeads == ASSUME SoleWriter PROVE Spec => []DataNeverBehindMarker
<1>1. OneWriterInv => DataNeverBehindMarker
  BY DEF OneWriterInv
<1>. QED
  BY <1>1, OneWriterInvariance, PTL

(* With one writer record_success is called for whole generations only.    *)
THEOREM HeartbeatVouches == ASSUME SoleWriter PROVE Spec => []HeartbeatIsCommitted
<1>1. OneWriterInv => HeartbeatIsCommitted
  BY DEF OneWriterInv
<1>. QED
  BY <1>1, OneWriterInvariance, PTL

(* With one writer the failure record is off by the upload that failed, at *)
(* most.                                                                   *)
THEOREM ReportIsNearlyExact == ASSUME SoleWriter PROVE Spec => []ReportIsOffByAtMostOne
<1>1. OneWriterInv => ReportIsOffByAtMostOne
  BY DEF OneWriterInv
<1>. QED
  BY <1>1, OneWriterInvariance, PTL

(* With one writer the PUT of meta.json makes a generation whole.          *)
THEOREM MarkerIsCommit == ASSUME SoleWriter PROVE Spec => MarkerCommits
<1>1. SoleWriter
  OBVIOUS
<1>2. PublicationInv /\ OneWriterInv /\ [Next]_vars
        => [store'[Meta] # store[Meta] => IsPaired(store')]_vars
  BY <1>1, OneWriterNext
<1>. QED
  BY <1>2, Invariance, OneWriterInvariance, PTL DEF Spec, MarkerCommits

(* With one writer no reader ever exchanges its publication for an older   *)
(* one.                                                                    *)
THEOREM NoReaderGoesBack == ASSUME SoleWriter PROVE Spec => ReadersNeverGoBack
<1>1. PublicationInv /\ PublicationInv' /\ OneWriterInv /\ [Next]_vars
        => [\A r \in Readers :
              held'[r] # held[r] => Age(held'[r][Meta]) > Age(held[r][Meta])]_vars
  BY HeldIsExchangedForYounger
<1>. QED
  BY <1>1, Invariance, OneWriterInvariance, PTL DEF Spec, ReadersNeverGoBack

-----------------------------------------------------------------------------
(* The ledger that cannot be decoded.                                      *)

(* A ledger that cannot be decoded was there before every writer, and none *)
(* has got past its read phase.                                            *)
UndecodableStopsAll ==
    store[Runs] = Corrupt =>
        late = {} /\ \A w \in Writers : phase[w] \notin {"compute", "publish"}

(* A PUT does not make an object undecodable.                              *)
LEMMA CorruptIsOld ==
    ASSUME PublicationInv, [Next]_vars, store'[Runs] = Corrupt
    PROVE  store[Runs] = Corrupt
<1>1. CASE WriterNext /\ UNCHANGED readerVars
  <2>1. StoreStep
    BY <1>1, WriterStepIsStoreStep DEF PublicationInv, TypeOK
  <2>2. ASSUME NEW o \in Objects, NEW g \in Generations, PutLands(o, g)
        PROVE  store'[Runs] = g \/ store'[Runs] = store[Runs]
    BY <2>2 DEF PutLands, Overwrite, PublicationInv, TypeOK, StoreTypeOK, Objects
  <2>. QED
    BY <2>1, <2>2, Constants DEF StoreStep, Generations
<1>2. CASE ReaderNext
  BY <1>2, ReaderStepIsQuiet DEF storeVars
<1>. QED
  BY <1>1, <1>2 DEF Next, vars, storeVars

LEMMA UndecodableNext ==
    ASSUME PublicationInv, UndecodableStopsAll, [Next]_vars
    PROVE  UndecodableStopsAll' /\ (store[Runs] = Corrupt => UNCHANGED store)
<1>1. SUFFICES ASSUME store[Runs] = Corrupt
               PROVE  UndecodableStopsAll' /\ UNCHANGED store
  BY CorruptIsOld DEF UndecodableStopsAll
<1>2. late = {} /\ \A v \in Writers : phase[v] \notin {"compute", "publish"}
  BY <1>1 DEF UndecodableStopsAll
<1>3. CASE WriterNext /\ UNCHANGED readerVars
  <2>1. PICK w \in Writers : WriterProgress(w) \/ WriterFault(w)
    BY <1>2, <1>3 DEF WriterNext, LateLanding, Land
  <2>2. Start(w) \/ BeginCycle(w) \/ ReadUndecodable(w) \/ ReadFails(w) \/ Crash(w)
    BY <1>1, <1>2, <2>1 DEF WriterProgress, WriterFault, ReadCompletes,
       ComputeCompletes, Put, Finish, ComputeFails, PutFails
  <2>3. UNCHANGED storeVars
    BY <1>2, <2>2 DEF Start, BeginCycle, ReadUndecodable, ReadFails, Crash
  <2>4. phase \in [Writers -> Phases]
    BY DEF PublicationInv, TypeOK, WriterTypeOK
  <2>5. \A v \in Writers : phase'[v] \notin {"compute", "publish"}
    BY <1>2, <2>2, <2>4 DEF Start, BeginCycle, ReadUndecodable, ReadFails, Crash, GiveUp
  <2>. QED
    BY <1>2, <2>3, <2>5 DEF UndecodableStopsAll, storeVars
<1>4. CASE ReaderNext /\ UNCHANGED writerVars
  BY <1>2, <1>4, ReaderStepIsQuiet DEF UndecodableStopsAll, storeVars, writerVars
<1>5. CASE UNCHANGED vars
  BY <1>2, <1>5 DEF UndecodableStopsAll, vars, storeVars, writerVars
<1>. QED
  BY <1>3, <1>4, <1>5 DEF Next

(* A ledger that cannot be decoded, and all that lies beside it, is never  *)
(* overwritten, by any number of writers.                                  *)
THEOREM DamagedLedgerIsSafe == Spec => UndecodableLedgerIsKept
<1>1. Init => UndecodableStopsAll
  BY DEF Init, StoreInit, WriterInit, UndecodableStopsAll
<1>2. PublicationInv /\ UndecodableStopsAll /\ [Next]_vars => UndecodableStopsAll'
  BY UndecodableNext
<1>3. PublicationInv /\ UndecodableStopsAll /\ [Next]_vars
        => [store[Runs] = Corrupt => UNCHANGED store]_vars
  BY UndecodableNext
<1>. QED
  BY <1>1, <1>2, <1>3, Invariance, PTL DEF Spec, UndecodableLedgerIsKept

=============================================================================
