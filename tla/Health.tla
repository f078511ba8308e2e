------------------------------- MODULE Health -------------------------------
(***************************************************************************)
(* The process of src/main.py: its main thread, which runs the poll loop,  *)
(* the thread of the health server, the threads of its requests, and the   *)
(* signal handler.  They share _HealthState, the readiness event and the   *)
(* stop event.  Of a cycle only its outcome matters here.                  *)
(***************************************************************************)
EXTENDS Integers

CONSTANTS
    Requests,      \* request threads of the health server
    StaleAfter,    \* stale_after_seconds, in ticks
    MaxTime,       \* bound on the monotonic clock
    MaxCycles      \* bound on the cycles begun

VARIABLES
    now,           \* time.monotonic
    main,          \* where the main thread is
    mark,          \* record_success: the instant it read
    lastSuccess,   \* _last_success, or None
    ready,         \* the readiness event is set
    stop,          \* the stop event is set
    cycles,        \* cycles begun
    lateCycles,    \* ghost: those of them begun after the stop event was set
    thread,        \* where the health server's thread is
    quit,          \* shutdown has asked serve_forever to return
    returned,      \* serve_forever has
    request        \* where each request thread is, and what it has read

loopVars == <<main, mark, lastSuccess, stop, cycles, lateCycles>>
serverVars == <<thread, quit, returned>>
vars == <<now, loopVars, ready, serverVars, request>>

None == -1

Statuses == {"starting", "ok", "stale"}

(* truths is a ghost: what has been true while the request was served.     *)
Request ==
    [pc : {"idle", "clock", "lock", "answer", "answered"}, now : Nat,
     last : Nat \cup {None}, reply : Statuses, truths : SUBSET Statuses]

ASSUME HealthAssumption ==
    StaleAfter \in Nat \ {0} /\ MaxTime \in Nat /\ MaxCycles \in Nat

TypeOK ==
    /\ now \in 0..MaxTime
    /\ main \in {"boot", "await", "check", "enter", "cycle", "store", "announce", "wait",
                 "stopping", "shutdown", "join", "exited"}
    /\ mark \in 0..MaxTime
    /\ lastSuccess \in (0..MaxTime) \cup {None}
    /\ ready \in BOOLEAN /\ stop \in BOOLEAN /\ quit \in BOOLEAN /\ returned \in BOOLEAN
    /\ cycles \in 0..MaxCycles
    /\ lateCycles \in 0..cycles
    /\ thread \in {"none", "new", "up", "serving", "left", "dead"}
    /\ request \in [Requests -> Request]

Init ==
    /\ now = 0
    /\ main = "boot"
    /\ mark = 0
    /\ lastSuccess = None
    /\ ready = FALSE
    /\ stop = FALSE
    /\ cycles = 0
    /\ lateCycles = 0
    /\ thread = "none"
    /\ quit = FALSE
    /\ returned = FALSE
    /\ request = [r \in Requests |-> [pc |-> "idle", now |-> 0, last |-> None,
                                      reply |-> "starting", truths |-> {}]]

-----------------------------------------------------------------------------

(* The verdict on a success at instant last, seen from instant t; an age   *)
(* below zero counts as zero.                                              *)
Verdict(t, last) ==
    IF last = None THEN "starting"
    ELSE IF t - last >= StaleAfter THEN "stale"
    ELSE "ok"

Active(r) == request[r].pc \in {"clock", "lock", "answer"}

(* Every request under way witnesses the new verdict.                      *)
Witness(t, last) ==
    request' = [r \in Requests |->
                  IF Active(r)
                    THEN [request[r] EXCEPT
                            !.truths = @ \cup {Verdict(t, last)}]
                    ELSE request[r]]

(* Between reading the clock and storing what it read, record_success does *)
(* not take so long that the success would be stale when it is stored.     *)
Tick ==
    /\ now < MaxTime
    /\ main = "store" => now + 1 < mark + StaleAfter
    /\ now' = now + 1
    /\ Witness(now + 1, lastSuccess)
    /\ UNCHANGED <<loopVars, ready, serverVars>>

-----------------------------------------------------------------------------
(* The main thread.                                                        *)

(* main and _serve_health, up to the start of the server's thread.         *)
Boot ==
    /\ main = "boot"
    /\ main' = "await"
    /\ ready' = FALSE
    /\ thread' = "new"
    /\ UNCHANGED <<now, mark, lastSuccess, stop, cycles, lateCycles, quit, returned, request>>

ServerIsUp ==
    /\ main = "await"
    /\ thread # "new"
    /\ main' = "check"
    /\ UNCHANGED <<now, mark, lastSuccess, ready, stop, cycles, lateCycles, serverVars, request>>

(* started.wait timed out: the socket is closed, and main raises.  The     *)
(* process ends and takes the daemon thread with it.                       *)
ServerIsLate ==
    /\ main = "await"
    /\ thread = "new"
    /\ main' = "exited"
    /\ thread' = "dead"
    /\ stop' = TRUE
    /\ UNCHANGED <<now, mark, lastSuccess, ready, cycles, lateCycles, quit, returned, request>>

(* Mistake: the loop does not look at the stop event.                      *)
CheckStop_Ignored ==
    /\ main = "check"
    /\ main' = IF cycles = MaxCycles THEN "stopping" ELSE "enter"
    /\ UNCHANGED <<now, mark, lastSuccess, ready, stop, cycles, lateCycles, serverVars, request>>

(* The head of the poll loop.                                              *)
CheckStop ==
    /\ main = "check"
    /\ main' = IF stop THEN "stopping" ELSE "enter"
    /\ UNCHANGED <<now, mark, lastSuccess, ready, stop, cycles, lateCycles, serverVars, request>>

BeginCycle ==
    /\ main = "enter"
    /\ cycles < MaxCycles
    /\ main' = "cycle"
    /\ cycles' = cycles + 1
    /\ lateCycles' = IF stop THEN lateCycles + 1 ELSE lateCycles
    /\ UNCHANGED <<now, mark, lastSuccess, ready, stop, serverVars, request>>

(* The bound on cycles: a signal may come, and the loop begins none.       *)
NoCycleLeft ==
    /\ main = "enter"
    /\ cycles = MaxCycles
    /\ main' = "wait"
    /\ UNCHANGED <<now, mark, lastSuccess, ready, stop, cycles, lateCycles, serverVars, request>>

(* _run_cycle returned False or raised.                                    *)
CycleFails ==
    /\ main = "cycle"
    /\ main' = "wait"
    /\ UNCHANGED <<now, mark, lastSuccess, ready, stop, cycles, lateCycles, serverVars, request>>

(* Mistake: the instant at which the success expires is taken for it.      *)
CycleSucceeds_Expiry ==
    /\ main = "cycle"
    /\ main' = "store"
    /\ mark' = now + StaleAfter
    /\ UNCHANGED <<now, lastSuccess, ready, stop, cycles, lateCycles, serverVars, request>>

(* It returned True; record_success reads the clock, ...                   *)
CycleSucceeds ==
    /\ main = "cycle"
    /\ main' = "store"
    /\ mark' = now
    /\ UNCHANGED <<now, lastSuccess, ready, stop, cycles, lateCycles, serverVars, request>>

(* ... stores the success under the lock, ...                              *)
StoreSuccess ==
    /\ main = "store"
    /\ main' = "announce"
    /\ lastSuccess' = mark
    /\ Witness(now, mark)
    /\ UNCHANGED <<now, mark, ready, stop, cycles, lateCycles, serverVars>>

(* ... and sets the readiness event.                                       *)
AnnounceSuccess ==
    /\ main = "announce"
    /\ main' = "wait"
    /\ ready' = TRUE
    /\ UNCHANGED <<now, mark, lastSuccess, stop, cycles, lateCycles, serverVars, request>>

(* stop.wait: the interval is over, or the stop event was set.             *)
WaitEnds ==
    /\ main = "wait"
    /\ main' = "check"
    /\ UNCHANGED <<now, mark, lastSuccess, ready, stop, cycles, lateCycles, serverVars, request>>

(* Mistake: the thread is joined without having been asked to return.      *)
StopServer_OnlyJoins ==
    /\ main = "stopping"
    /\ stop' = TRUE
    /\ main' = "join"
    /\ UNCHANGED <<now, mark, lastSuccess, ready, cycles, lateCycles, serverVars, request>>

(* The finally clause of main, _stop_health: unless the thread has died,   *)
(* shutdown asks serve_forever to return, and waits until it has.          *)
StopServer ==
    /\ main = "stopping"
    /\ stop' = TRUE
    /\ IF thread = "dead"
         THEN main' = "join" /\ UNCHANGED quit
         ELSE main' = "shutdown" /\ quit' = TRUE
    /\ UNCHANGED <<now, mark, lastSuccess, ready, cycles, lateCycles, thread, returned, request>>

CloseServer ==
    /\ main = "shutdown"
    /\ returned
    /\ main' = "join"
    /\ UNCHANGED <<now, mark, lastSuccess, ready, stop, cycles, lateCycles, serverVars, request>>

JoinServer ==
    /\ main = "join"
    /\ thread = "dead"
    /\ main' = "exited"
    /\ UNCHANGED <<now, mark, lastSuccess, ready, stop, cycles, lateCycles, serverVars, request>>

MainStep ==
    \/ Boot \/ ServerIsUp \/ ServerIsLate
    \/ CheckStop \/ BeginCycle \/ NoCycleLeft
    \/ CycleFails \/ CycleSucceeds \/ StoreSuccess \/ AnnounceSuccess
    \/ WaitEnds
    \/ StopServer \/ CloseServer \/ JoinServer

(* SIGTERM or SIGINT, at any point of the main thread.                     *)
Signal ==
    /\ main # "exited"
    /\ stop' = TRUE
    /\ UNCHANGED <<now, main, mark, lastSuccess, cycles, lateCycles, ready, serverVars, request>>

-----------------------------------------------------------------------------
(* The health server's thread: socketserver's serve_forever.               *)

AnnounceStart ==
    /\ thread = "new"
    /\ thread' = "up"
    /\ UNCHANGED <<now, loopVars, ready, quit, returned, request>>

ServeForever ==
    /\ thread = "up"
    /\ thread' = "serving"
    /\ returned' = FALSE
    /\ UNCHANGED <<now, loopVars, ready, quit, request>>

(* serve_forever returns because it was asked to, or raises; either way it *)
(* clears the request to quit and says that it is over.                    *)
Leave ==
    /\ thread = "serving"
    /\ thread' = "left"
    /\ quit' = FALSE
    /\ returned' = TRUE
    /\ UNCHANGED <<now, loopVars, ready, request>>

ThreadEnds ==
    /\ thread = "left"
    /\ thread' = "dead"
    /\ UNCHANGED <<now, loopVars, ready, quit, returned, request>>

ServerStep == AnnounceStart \/ ServeForever \/ (quit /\ Leave) \/ ThreadEnds

ServerRaises == ~ quit /\ Leave

-----------------------------------------------------------------------------
(* A request thread: snapshot reads the clock, then the state under the    *)
(* lock, and answers from the two.                                         *)

Arrive(r) ==
    /\ thread = "serving"
    /\ ~ Active(r)
    /\ request' = [request EXCEPT ![r].pc = "clock",
                                  ![r].truths = {Verdict(now, lastSuccess)}]
    /\ UNCHANGED <<now, loopVars, ready, serverVars>>

ReadClock(r) ==
    /\ request[r].pc = "clock"
    /\ request' = [request EXCEPT ![r].pc = "lock", ![r].now = now]
    /\ UNCHANGED <<now, loopVars, ready, serverVars>>

ReadState(r) ==
    /\ request[r].pc = "lock"
    /\ request' = [request EXCEPT ![r].pc = "answer", ![r].last = lastSuccess]
    /\ UNCHANGED <<now, loopVars, ready, serverVars>>

(* Mistake: the answer is taken from the readiness event.                  *)
Answer_FromEvent(r) ==
    /\ request[r].pc = "answer"
    /\ request' = [request EXCEPT ![r].pc = "answered",
                                  ![r].reply = IF ready THEN "ok" ELSE "starting"]
    /\ UNCHANGED <<now, loopVars, ready, serverVars>>

(* A verdict other than ok clears the readiness event, after the lock has  *)
(* been released.                                                          *)
Answer(r) ==
    LET verdict == Verdict(request[r].now, request[r].last)
    IN  /\ request[r].pc = "answer"
        /\ request' = [request EXCEPT ![r].pc = "answered", ![r].reply = verdict]
        /\ ready' = (ready /\ verdict = "ok")
        /\ UNCHANGED <<now, loopVars, serverVars>>

RequestStep(r) == Arrive(r) \/ ReadClock(r) \/ ReadState(r) \/ Answer(r)

Running == main # "exited"

Next ==
    \/ Running /\ Tick
    \/ Running /\ MainStep
    \/ Running /\ Signal
    \/ Running /\ ServerStep
    \/ Running /\ ServerRaises
    \/ Running /\ \E r \in Requests : RequestStep(r)

Spec == Init /\ [][Next]_vars

(* The scheduler runs both threads.  That a cycle comes to its end is an   *)
(* assumption: every request it makes has a timeout, but one on each wait  *)
(* for bytes, and a listing may have any number of pages (see ListingEnds).*)
FairSpec ==
    /\ Spec
    /\ WF_vars(Running /\ MainStep)
    /\ WF_vars(Running /\ ServerStep)

-----------------------------------------------------------------------------

(* What a request is answered was so at some instant while it was served,  *)
(* although the clock and the state are read at two instants and the loop  *)
(* may record a success between them.                                      *)
ReplyWasTrue ==
    \A r \in Requests :
        request[r].pc = "answered" => request[r].reply \in request[r].truths

(* A signal may just miss the test at the head of the loop, but it never   *)
(* lets more than one further cycle begin.                                 *)
AtMostOneCycleAfterStop == lateCycles <= 1

(* The inductive invariant.  A success is not stale when it is stored.     *)
StoredInTime == main = "store" => now < mark + StaleAfter

(* The loop never comes past its head again once it has begun a late cycle.*)
OneLateCycle ==
    /\ AtMostOneCycleAfterStop
    /\ lateCycles = 1 => stop /\ main # "enter"

(* What a request would be answered if nothing more happened was true.     *)
VerdictWasTrue(r) ==
    LET req == request[r]
    IN  /\ req.pc = "clock" => Verdict(now, lastSuccess) \in req.truths
        /\ req.pc = "lock" =>
              req.now <= now /\ Verdict(req.now, lastSuccess) \in req.truths
        /\ req.pc = "answer" => Verdict(req.now, req.last) \in req.truths

HealthInv ==
    /\ TypeOK
    /\ StoredInTime
    /\ OneLateCycle
    /\ \A r \in Requests : VerdictWasTrue(r)
    /\ ReplyWasTrue

(* A signal ends the process, whether it comes before the server is up, in *)
(* a cycle or in the wait, and also when the server's thread has died:     *)
(* neither shutdown nor join waits for ever.                               *)
StopIsHonoured == stop ~> main = "exited"

=============================================================================
