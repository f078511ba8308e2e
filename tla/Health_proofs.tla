--------------------------- MODULE Health_proofs ---------------------------
(***************************************************************************)
(* What the endpoint answers was true, and at most one cycle begins after  *)
(* a signal, for any threshold and any number of request threads.          *)
(***************************************************************************)
EXTENDS Health, TLAPS

(* A verdict is a status, whatever the instants.                           *)
LEMMA VerdictType == \A t, last : Verdict(t, last) \in Statuses
  BY DEF Verdict, Statuses

(* Nothing has happened yet.                                               *)
LEMMA InvInit == Init => HealthInv
<1>1. SUFFICES ASSUME Init PROVE HealthInv
  OBVIOUS
<1>2. TypeOK
  <2>1. [pc |-> "idle", now |-> 0, last |-> None, reply |-> "starting", truths |-> {}]
          \in Request
    BY DEF Request, Statuses
  <2>2. request \in [Requests -> Request]
    BY <1>1, <2>1 DEF Init
  <2>3. 0 \in 0..MaxTime /\ 0 \in 0..MaxCycles /\ 0 \in 0..0
    BY HealthAssumption
  <2>. QED
    BY <1>1, <2>2, <2>3, Zenon DEF Init, TypeOK
<1>3. StoredInTime /\ OneLateCycle
  BY <1>1 DEF Init, StoredInTime, OneLateCycle, AtMostOneCycleAfterStop
<1>4. (\A r \in Requests : VerdictWasTrue(r)) /\ ReplyWasTrue
  BY <1>1 DEF Init, VerdictWasTrue, ReplyWasTrue
<1>. QED
  BY <1>2, <1>3, <1>4 DEF HealthInv

(* A step of the main thread that records nothing leaves every request as  *)
(* it was.                                                                 *)
LEMMA QuietStep ==
    ASSUME HealthInv, UNCHANGED <<now, lastSuccess, request>>
    PROVE  (\A r \in Requests : VerdictWasTrue(r))' /\ ReplyWasTrue'
  BY DEF HealthInv, VerdictWasTrue, ReplyWasTrue, Verdict

(* Where a request is witnessing, the new verdict becomes one of its       *)
(* truths, and nothing else about it changes.                              *)
LEMMA WitnessStep ==
    ASSUME HealthInv, NEW t, NEW last, Witness(t, last)
    PROVE  /\ request' \in [Requests -> Request]
           /\ \A r \in Requests :
                 /\ request'[r].pc = request[r].pc
                 /\ request'[r].now = request[r].now
                 /\ request'[r].last = request[r].last
                 /\ request'[r].reply = request[r].reply
                 /\ request[r].truths \subseteq request'[r].truths
                 /\ Active(r) => Verdict(t, last) \in request'[r].truths
<1>. USE VerdictType DEF HealthInv, TypeOK
<1>1. ASSUME NEW r \in Requests, Active(r)
      PROVE  request'[r] = [request[r] EXCEPT !.truths = @ \cup {Verdict(t, last)}]
  BY <1>1 DEF Witness
<1>2. ASSUME NEW r \in Requests, ~ Active(r)
      PROVE  request'[r] = request[r]
  BY <1>2 DEF Witness
<1>3. \A r \in Requests : request'[r] \in Request
  <2>1. \A r \in Requests : request[r] \in Request
    OBVIOUS
  <2>2. ASSUME NEW req \in Request
        PROVE  [req EXCEPT !.truths = @ \cup {Verdict(t, last)}] \in Request
    <3>1. req.truths \cup {Verdict(t, last)} \in SUBSET Statuses
      BY <2>2 DEF Request
    <3>. QED
      BY <2>2, <3>1 DEF Request
  <2>. QED
    BY <1>1, <1>2, <2>1, <2>2
<1>4. request' \in [Requests -> Request]
  BY <1>3 DEF Witness
<1>. QED
  BY <1>1, <1>2, <1>4 DEF Request

(* The clock: every verdict still to be read was witnessed.                *)
LEMMA TickStep == HealthInv /\ Tick => HealthInv'
<1>1. SUFFICES ASSUME HealthInv, Tick PROVE HealthInv'
  OBVIOUS
<1>. USE <1>1, HealthAssumption
<1>2. Witness(now + 1, lastSuccess) /\ now' = now + 1
  BY DEF Tick
<1>3. TypeOK'
  BY <1>2, WitnessStep DEF HealthInv, TypeOK, Tick, loopVars, serverVars
<1>4. StoredInTime'
  BY DEF HealthInv, TypeOK, StoredInTime, Tick, loopVars
<1>5. OneLateCycle'
  BY DEF HealthInv, OneLateCycle, AtMostOneCycleAfterStop, Tick, loopVars
<1>6. lastSuccess' = lastSuccess
  BY DEF Tick, loopVars
<1>7. ASSUME NEW r \in Requests PROVE VerdictWasTrue(r)'
  <2>1. /\ request'[r].pc = request[r].pc
        /\ request'[r].now = request[r].now
        /\ request'[r].last = request[r].last
        /\ request[r].truths \subseteq request'[r].truths
        /\ Active(r) => Verdict(now + 1, lastSuccess) \in request'[r].truths
    BY <1>2, WitnessStep
  <2>2. VerdictWasTrue(r) /\ request[r].now \in Nat /\ now \in Nat
    BY DEF HealthInv, TypeOK, Request
  <2>. QED
    BY <1>2, <1>6, <2>1, <2>2 DEF VerdictWasTrue, Active, Verdict
<1>8. ReplyWasTrue'
  BY <1>2, WitnessStep DEF HealthInv, ReplyWasTrue
<1>. QED
  BY <1>3, <1>4, <1>5, <1>7, <1>8 DEF HealthInv

(* record_success stores a success: an answer that combines an older clock *)
(* with it says ok, and so does the verdict of this instant.               *)
LEMMA StoreStep == HealthInv /\ StoreSuccess => HealthInv'
<1>1. SUFFICES ASSUME HealthInv, StoreSuccess PROVE HealthInv'
  OBVIOUS
<1>. USE <1>1, HealthAssumption
<1>2. Witness(now, mark) /\ now' = now /\ lastSuccess' = mark
  BY DEF StoreSuccess
<1>3. TypeOK'
  BY <1>2, WitnessStep DEF HealthInv, TypeOK, StoreSuccess, serverVars
<1>4. StoredInTime'
  BY DEF StoredInTime, StoreSuccess
<1>5. OneLateCycle'
  BY DEF HealthInv, OneLateCycle, AtMostOneCycleAfterStop, StoreSuccess
<1>6. /\ now \in Nat /\ mark \in Nat /\ mark # None
      /\ StaleAfter \in Nat /\ now < mark + StaleAfter
  BY DEF HealthInv, TypeOK, StoredInTime, StoreSuccess, None
<1>7. ASSUME NEW r \in Requests PROVE VerdictWasTrue(r)'
  <2>1. /\ request'[r].pc = request[r].pc
        /\ request'[r].now = request[r].now
        /\ request'[r].last = request[r].last
        /\ request[r].truths \subseteq request'[r].truths
        /\ Active(r) => Verdict(now, mark) \in request'[r].truths
    BY <1>2, WitnessStep
  <2>2. VerdictWasTrue(r) /\ request[r].now \in Nat
    BY DEF HealthInv, TypeOK, Request
  <2>3. ASSUME NEW t \in Nat, t <= now PROVE Verdict(t, mark) = "ok"
    BY <1>6, <2>3 DEF Verdict
  <2>4. request[r].pc = "lock" => Verdict(request[r].now, mark) = Verdict(now, mark)
    BY <1>6, <2>2, <2>3 DEF VerdictWasTrue
  <2>. QED
    BY <1>2, <2>1, <2>2, <2>4 DEF VerdictWasTrue, Active
<1>8. ReplyWasTrue'
  BY <1>2, WitnessStep DEF HealthInv, ReplyWasTrue
<1>. QED
  BY <1>3, <1>4, <1>5, <1>7, <1>8 DEF HealthInv

(* The other steps of the main thread, and a signal.                       *)
LEMMA MainStepInv == HealthInv /\ MainStep => HealthInv'
<1>1. SUFFICES ASSUME HealthInv, MainStep, ~ StoreSuccess PROVE HealthInv'
  BY StoreStep
<1>. USE <1>1, HealthAssumption
<1>2. UNCHANGED <<now, lastSuccess, request>>
  BY DEF MainStep, Boot, ServerIsUp, ServerIsLate, CheckStop, BeginCycle, NoCycleLeft,
         CycleFails, CycleSucceeds, AnnounceSuccess, WaitEnds, StopServer, CloseServer,
         JoinServer
<1>3. TypeOK'
  <2>1. CASE Boot \/ ServerIsUp \/ ServerIsLate
    BY <2>1 DEF HealthInv, TypeOK, Boot, ServerIsUp, ServerIsLate, serverVars
  <2>2. CASE CheckStop \/ BeginCycle \/ NoCycleLeft
    BY <2>2 DEF HealthInv, TypeOK, CheckStop, BeginCycle, NoCycleLeft, serverVars
  <2>3. CASE CycleFails \/ CycleSucceeds \/ AnnounceSuccess \/ WaitEnds
    BY <2>3 DEF HealthInv, TypeOK, CycleFails, CycleSucceeds, AnnounceSuccess, WaitEnds, serverVars
  <2>4. CASE StopServer \/ CloseServer \/ JoinServer
    BY <2>4 DEF HealthInv, TypeOK, StopServer, CloseServer, JoinServer, serverVars
  <2>. QED
    BY <2>1, <2>2, <2>3, <2>4 DEF MainStep
<1>4. StoredInTime'
  BY DEF HealthInv, TypeOK, StoredInTime, MainStep, Boot, ServerIsUp, ServerIsLate, CheckStop,
         BeginCycle, NoCycleLeft, CycleFails, CycleSucceeds, AnnounceSuccess, WaitEnds,
         StopServer, CloseServer, JoinServer
<1>5. OneLateCycle'
  BY DEF HealthInv, TypeOK, OneLateCycle, AtMostOneCycleAfterStop, MainStep, Boot, ServerIsUp,
         ServerIsLate, CheckStop, BeginCycle, NoCycleLeft, CycleFails, CycleSucceeds,
         AnnounceSuccess, WaitEnds, StopServer, CloseServer, JoinServer
<1>. QED
  BY <1>2, <1>3, <1>4, <1>5, QuietStep DEF HealthInv

LEMMA SignalStep == HealthInv /\ Signal => HealthInv'
<1>1. SUFFICES ASSUME HealthInv, Signal PROVE HealthInv'
  OBVIOUS
<1>2. TypeOK' /\ StoredInTime' /\ OneLateCycle'
  BY <1>1 DEF HealthInv, TypeOK, StoredInTime, OneLateCycle, AtMostOneCycleAfterStop, Signal,
              serverVars
<1>. QED
  BY <1>1, <1>2, QuietStep DEF HealthInv, Signal

LEMMA ServerInv == HealthInv /\ (ServerStep \/ ServerRaises) => HealthInv'
<1>1. SUFFICES ASSUME HealthInv, ServerStep \/ ServerRaises PROVE HealthInv'
  OBVIOUS
<1>2. UNCHANGED <<now, loopVars, ready, request>>
  BY <1>1 DEF ServerStep, ServerRaises, AnnounceStart, ServeForever, Leave, ThreadEnds
<1>3. TypeOK'
  BY <1>1, <1>2 DEF HealthInv, TypeOK, loopVars, ServerStep, ServerRaises, AnnounceStart,
                    ServeForever, Leave, ThreadEnds
<1>4. StoredInTime' /\ OneLateCycle'
  BY <1>1, <1>2 DEF HealthInv, StoredInTime, OneLateCycle, AtMostOneCycleAfterStop, loopVars
<1>. QED
  BY <1>1, <1>2, <1>3, <1>4, QuietStep DEF HealthInv, loopVars

(* A request touches itself, and the readiness event.                      *)
LEMMA RequestInv ==
    ASSUME HealthInv, NEW q \in Requests, RequestStep(q)
    PROVE  HealthInv'
<1>1. UNCHANGED <<now, loopVars, serverVars>> /\ ready' \in BOOLEAN
  BY DEF HealthInv, TypeOK, RequestStep, Arrive, ReadClock, ReadState, Answer
<1>2. now \in Nat /\ lastSuccess \in Nat \cup {None} /\ request \in [Requests -> Request]
  BY HealthAssumption DEF HealthInv, TypeOK
<1>3. /\ request' \in [Requests -> Request]
      /\ \A r \in Requests \ {q} : request'[r] = request[r]
  BY <1>2, VerdictType DEF RequestStep, Arrive, ReadClock, ReadState, Answer, Request
<1>4. TypeOK'
  BY <1>1, <1>3 DEF HealthInv, TypeOK, loopVars, serverVars
<1>5. StoredInTime' /\ OneLateCycle'
  BY <1>1 DEF HealthInv, StoredInTime, OneLateCycle, AtMostOneCycleAfterStop, loopVars
<1>6. VerdictWasTrue(q)' /\ (request'[q].pc = "answered" => request'[q].reply \in request'[q].truths)
  <2>1. VerdictWasTrue(q) /\ now' = now /\ lastSuccess' = lastSuccess
    BY <1>1 DEF HealthInv, loopVars
  <2>2. CASE Arrive(q)
    BY <1>2, <2>1, <2>2 DEF Arrive, VerdictWasTrue, Request
  <2>3. CASE ReadClock(q)
    BY <1>2, <2>1, <2>3 DEF ReadClock, VerdictWasTrue, Request
  <2>4. CASE ReadState(q)
    BY <1>2, <2>1, <2>4 DEF ReadState, VerdictWasTrue, Request
  <2>5. CASE Answer(q)
    BY <1>2, <2>1, <2>5 DEF Answer, VerdictWasTrue, Request
  <2>. QED
    BY <2>2, <2>3, <2>4, <2>5 DEF RequestStep
<1>7. \A r \in Requests \ {q} : VerdictWasTrue(r)'
  BY <1>1, <1>3 DEF HealthInv, VerdictWasTrue, loopVars
<1>8. ReplyWasTrue'
  BY <1>3, <1>6 DEF HealthInv, ReplyWasTrue
<1>. QED
  BY <1>4, <1>5, <1>6, <1>7, <1>8 DEF HealthInv

LEMMA InvNext == HealthInv /\ [Next]_vars => HealthInv'
<1>1. ASSUME HealthInv, UNCHANGED vars PROVE HealthInv'
  BY <1>1, QuietStep DEF HealthInv, TypeOK, StoredInTime, OneLateCycle, AtMostOneCycleAfterStop,
                         vars, loopVars, serverVars
<1>. QED
  BY <1>1, TickStep, MainStepInv, SignalStep, ServerInv, RequestInv DEF Next

(* The inductive invariant of the process.                                 *)
THEOREM HealthInvariance == Spec => []HealthInv
  BY InvInit, InvNext, PTL DEF Spec

(* Every reply of the health endpoint was true at some instant while the   *)
(* request was served, although record_success may come between the two    *)
(* readings of snapshot.                                                   *)
THEOREM RepliesAreTrue == Spec => []ReplyWasTrue
<1>1. HealthInv => ReplyWasTrue
  BY DEF HealthInv
<1>. QED
  BY <1>1, HealthInvariance, PTL

(* A signal, wherever it finds the main thread, lets at most one further   *)
(* cycle begin.                                                            *)
THEOREM StopIsSoon == Spec => []AtMostOneCycleAfterStop
<1>1. HealthInv => AtMostOneCycleAfterStop
  BY DEF HealthInv, OneLateCycle
<1>. QED
  BY <1>1, HealthInvariance, PTL

=============================================================================
