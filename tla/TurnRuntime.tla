---------------------------- MODULE TurnRuntime ----------------------------
(***************************************************************************)
(* The turns of one session on one replica: the local registry of active   *)
(* turns, the runtime adapter with its map of warm runtimes, and the       *)
(* handler of POST /messages that admits a turn, prepares the runtime,     *)
(* runs it and releases everything again.  The row of session_executions   *)
(* is reduced to the turn it is current for; ExecutionLease models it.     *)
(*                                                                         *)
(* A step is what the event loop does between two awaits.  A query is a    *)
(* step of its own, before the step that uses its answer, wherever the     *)
(* answer can be late.  The runtime that a turn builds has the turn's name,*)
(* since a turn builds at most one.                                        *)
(***************************************************************************)
EXTENDS FiniteSets

CONSTANTS
  Turns,    \* the requests; each is also its execution and its registry entry
  Warm,     \* the runtime that earlier turns left
  Earlier,  \* the execution of those turns, which is over
  Stale,    \* the turns that the registry may see as dead while they run
  None

ASSUME NameAssumption ==
  /\ Warm \notin Turns /\ Earlier \notin Turns /\ None \notin Turns \cup {Warm, Earlier}
  /\ Stale \subseteq Turns

Runtimes == Turns \cup {Warm}

VARIABLES
  shared,     \* whether the session belongs to a project
  entry,      \* ActiveTurnsRegistry.entries: the turn that owns the entry
  entryExec,  \* its executionId
  log,        \* eventLogs: the turn whose log it is
  closed,     \* the turns whose log is closed
  cancelled,  \* the entries whose controller is aborted
  current,    \* the turn that isCurrent accepts
  bound,      \* runtime_id of the current row
  session,    \* DeepAgentsRuntimeAdapter.sessions: the runtime of the session
  execOf,     \* state.execution, per runtime
  aborted,    \* the runtimes whose abortController is aborted
  disposing,  \* the runtimes whose abortSession waits for dispose
  armed,      \* the runtimes whose idle timer runs
  pending,    \* pendingSessionCreations: the turn that creates
  active,     \* activeTurns.has(session)
  invalid,    \* pendingIntegrationInvalidations.has(session)
  pc,         \* per turn: where its handler is
  adm,        \* per turn: its admission
  ref,        \* per turn: the runtime it was given
  sig,        \* per turn: the entry whose cancel signal it got
  halted,     \* the turns that an interrupt or the watchdog aborted
  stopping,   \* the stopped executions whose local cancel may still come
  old,        \* history: the runtimes a change had outdated, at the admission
  outdated,   \* history: the runtimes that an integration change outdated
  strayed,    \* history: the turns that called the model as another execution
  late,       \* history: the turns that lost the lease in their bindRuntime
  evicted,    \* history: the entries that snapshot() removed
  broken      \* history: the running turns that others ended

registryVars == <<entry, entryExec, log, closed, cancelled>>
leaseVars == <<current, bound>>
adapterVars == <<session, execOf, aborted, disposing, armed, pending, active, invalid>>
turnVars == <<pc, adm, ref, sig, halted, stopping>>
historyVars == <<old, outdated, strayed, late, evicted, broken>>
vars == <<shared, registryVars, leaseVars, adapterVars, turnVars, historyVars>>

Init ==
  /\ shared \in BOOLEAN
  /\ entry = None /\ entryExec = None /\ log = None /\ closed = {} /\ cancelled = {}
  /\ current = None /\ bound = None
  /\ session = Warm
  /\ \E e \in {Earlier, None} : execOf = [r \in Runtimes |-> IF r = Warm THEN e ELSE None]
  /\ aborted = {} /\ disposing = {} /\ armed = {Warm}
  /\ pending = None /\ active = FALSE /\ invalid = FALSE
  /\ pc = [t \in Turns |-> "idle"] /\ adm = [t \in Turns |-> "none"]
  /\ ref = [t \in Turns |-> None] /\ sig = [t \in Turns |-> None]
  /\ halted = {} /\ stopping = {}
  /\ old = [t \in Turns |-> {}] /\ outdated = {} /\ strayed = {}
  /\ late = {} /\ evicted = {} /\ broken = {}

Go(t, place) == pc' = [pc EXCEPT ![t] = place]

Running(t) == pc[t] = "running"
InSlot(t) == pc[t] \in {"running", "closing"}
\* turnAbort.signal of a turn in the slot.
TurnAborted(t) == ref[t] \in aborted \/ sig[t] \in cancelled \/ t \in halted
\* isCurrent, for the execution that the runtime's state names now.
StateCurrent(r) == execOf[r] # None /\ current = execOf[r] /\ bound = r

-----------------------------------------------------------------------------
(* abortSession: the part before its first await, and the end              *)

\* It acts on the runtime that the map holds now, whoever asked.
AbortSession ==
  /\ invalid' = FALSE
  /\ armed' = armed \ {session}
  /\ aborted' = aborted \cup ({session} \ {None})
  /\ disposing' = disposing \cup ({session} \ {None})

\* The turns that an abort by somebody else would end.
Victims == {t \in Turns : Running(t) /\ ref[t] = session /\ ~TurnAborted(t)}

Disposed(r) ==
  /\ r \in disposing
  /\ disposing' = disposing \ {r}
  /\ session' = IF session = r THEN None ELSE session
  /\ execOf' = [execOf EXCEPT ![r] = None]
  /\ UNCHANGED <<registryVars, leaseVars, aborted, armed, pending, active, invalid,
                 turnVars, historyVars>>

-----------------------------------------------------------------------------
(* Admission                                                               *)

\* The busy checks and mark, with no await between them.
Admit(t) ==
  /\ pc[t] = "idle" /\ ~active /\ entry = None
  /\ entry' = t /\ entryExec' = None /\ log' = t
  /\ adm' = [adm EXCEPT ![t] = "held"]
  /\ old' = [old EXCEPT ![t] = outdated]
  /\ Go(t, "marked")
  /\ UNCHANGED <<closed, cancelled, leaseVars, adapterVars, ref, sig, halted, stopping,
                 outdated, strayed, late, evicted, broken>>

\* The transaction of acquire commits and setExecution marks the entry of the
\* session, or the turn is refused.  A Stop between the two cancels nothing here.
Acquire(t) ==
  /\ pc[t] = "marked"
  /\ \/ /\ current = None /\ current' = t /\ bound' = None
        /\ entryExec' = IF entry = None THEN None ELSE t
        /\ Go(t, "gates")
     \/ Go(t, "ending") /\ UNCHANGED <<current, bound, entryExec>>
  /\ UNCHANGED <<entry, log, closed, cancelled, adapterVars, adm, ref, sig, halted, stopping, historyVars>>

\* A step before the slot that throws: a limit, a blocked prompt, a stopped
\* setup, a refused execution, a database error.
Fail(t) ==
  /\ pc[t] \in {"gates", "created", "entering", "entered"}
  /\ Go(t, "ending")
  /\ UNCHANGED <<registryVars, leaseVars, adapterVars, adm, ref, sig, halted, stopping, historyVars>>

-----------------------------------------------------------------------------
(* createSession                                                           *)

\* The gates pass, the writer takes the cancel signal of the session's entry and
\* calls createSession.  A creation for another execution refuses this one.
CreateCall(t) ==
  /\ pc[t] = "gates" /\ entry \notin cancelled /\ pending = None
  /\ sig' = [sig EXCEPT ![t] = entry]
  /\ pending' = t
  /\ Go(t, "checking")
  /\ UNCHANGED <<registryVars, leaseVars, session, execOf, aborted, disposing, armed, active, invalid,
                 adm, ref, halted, stopping, historyVars>>

CreateFails(t) ==
  /\ pending' = None
  /\ Go(t, "ending")
  /\ UNCHANGED <<registryVars, leaseVars, session, execOf, aborted, disposing, armed, active, invalid,
                 adm, ref, sig, halted, stopping, historyVars>>

CreateError(t) ==
  /\ \/ pc[t] \in {"checking", "binding", "bound", "refreshing", "building"}
     \/ pc[t] = "unwinding" /\ session \notin disposing
  /\ CreateFails(t)

\* isCurrent accepts the turn.  Its answer can be late: the bind that follows
\* on every path asks again.  A project session, and a runtime without an
\* execution, is built again.
Replaced == session # None /\ (shared \/ execOf[session] = None)

ClearPrevious(t) ==
  /\ pc[t] = "checking" /\ current = t /\ ~active /\ Replaced
  /\ AbortSession
  /\ broken' = broken \cup Victims
  /\ Go(t, "clearing")
  /\ UNCHANGED <<registryVars, leaseVars, session, execOf, pending, active, adm, ref, sig, halted, stopping,
                 old, outdated, strayed, late, evicted>>

KeepPrevious(t) ==
  /\ pc[t] = "checking" /\ current = t /\ ~active /\ ~Replaced
  /\ IF session # None /\ session \notin aborted
       THEN ref' = [ref EXCEPT ![t] = session] /\ Go(t, "binding")
       ELSE Go(t, "building") /\ UNCHANGED ref
  /\ UNCHANGED <<registryVars, leaseVars, adapterVars, adm, sig, halted, stopping, historyVars>>

Cleared(t) ==
  /\ pc[t] = "clearing" /\ session \notin disposing
  /\ Go(t, "building")
  /\ UNCHANGED <<registryVars, leaseVars, adapterVars, adm, ref, sig, halted, stopping, historyVars>>

\* bindRuntime commits for the warm runtime.
BindWarm(t) ==
  /\ pc[t] = "binding" /\ current = t /\ bound \in {None, ref[t]}
  /\ bound' = ref[t]
  /\ Go(t, "bound")
  /\ UNCHANGED <<registryVars, current, adapterVars, adm, ref, sig, halted, stopping, historyVars>>

\* Its answer: the state gets the execution, and the map is read again.
WarmBound(t) ==
  /\ pc[t] = "bound"
  /\ execOf' = [execOf EXCEPT ![ref[t]] = t]
  /\ IF session = None \/ session \in aborted THEN Go(t, "building") /\ UNCHANGED pending
     ELSE IF active THEN Go(t, "ending") /\ pending' = None
     ELSE Go(t, "refreshing") /\ UNCHANGED pending
  /\ UNCHANGED <<registryVars, leaseVars, session, aborted, disposing, armed, active, invalid,
                 adm, ref, sig, halted, stopping, historyVars>>

Refreshed(t) ==
  /\ pc[t] = "refreshing"
  /\ pending' = None
  /\ Go(t, "created")
  /\ UNCHANGED <<registryVars, leaseVars, session, execOf, aborted, disposing, armed, active, invalid,
                 adm, ref, sig, halted, stopping, historyVars>>

\* buildSession up to sessions.set: the configuration was compiled before.
Build(t) ==
  /\ pc[t] = "building"
  /\ session' = t
  /\ execOf' = [execOf EXCEPT ![t] = t]
  /\ ref' = [ref EXCEPT ![t] = t]
  /\ Go(t, "upserting")
  /\ UNCHANGED <<registryVars, leaseVars, aborted, disposing, armed, pending, active, invalid,
                 adm, sig, halted, stopping, historyVars>>

BindNew(t) ==
  /\ pc[t] = "upserting" /\ current = t
  /\ bound' = t
  /\ Go(t, "boundNew")
  /\ UNCHANGED <<registryVars, current, adapterVars, adm, ref, sig, halted, stopping, historyVars>>

\* The bind is refused, or its answer is an error: the runtime is torn down.
BindNewFails(t) ==
  /\ pc[t] \in {"upserting", "boundNew"}
  /\ AbortSession
  /\ Go(t, "unwinding")
  /\ UNCHANGED <<registryVars, leaseVars, session, execOf, pending, active, adm, ref, sig, halted, stopping,
                 historyVars>>

\* scheduleIdleTeardown: not for a busy session or a torn-down runtime.
Rearm(r, busy) == IF r \in aborted \/ busy THEN armed \ {r} ELSE armed \cup {r}

NewBound(t) ==
  /\ pc[t] = "boundNew"
  /\ armed' = Rearm(t, active)
  /\ pending' = None
  /\ Go(t, "created")
  /\ UNCHANGED <<registryVars, leaseVars, session, execOf, aborted, disposing, active, invalid,
                 adm, ref, sig, halted, stopping, historyVars>>

-----------------------------------------------------------------------------
(* runMessageAGUI                                                          *)

\* The writer's tool context is there; the reference must still be the session.
Enter(t) ==
  /\ pc[t] = "created" /\ sig[t] \notin cancelled
  /\ session = ref[t] /\ ref[t] \notin aborted
  /\ Go(t, "entering")
  /\ UNCHANGED <<registryVars, leaseVars, adapterVars, adm, ref, sig, halted, stopping, historyVars>>

EnterCheck(t) ==
  /\ pc[t] = "entering" /\ StateCurrent(ref[t])
  /\ Go(t, "entered")
  /\ UNCHANGED <<registryVars, leaseVars, adapterVars, adm, ref, sig, halted, stopping, historyVars>>

\* The last checks and the reservation of the slot, with no await between them.
StartDuringCreation(t) ==
  /\ pc[t] = "entered" /\ sig[t] \notin cancelled
  /\ session = ref[t] /\ ref[t] \notin aborted
  /\ ~active
  /\ active' = TRUE
  /\ armed' = armed \ {ref[t]}
  /\ Go(t, "running")
  /\ UNCHANGED <<registryVars, leaseVars, session, execOf, aborted, disposing, pending, invalid,
                 adm, ref, sig, halted, stopping, historyVars>>
Start(t) ==
  /\ pc[t] = "entered" /\ sig[t] \notin cancelled
  /\ session = ref[t] /\ ref[t] \notin aborted
  /\ pending = None /\ ~active
  /\ active' = TRUE
  /\ armed' = armed \ {ref[t]}
  /\ Go(t, "running")
  /\ UNCHANGED <<registryVars, leaseVars, session, execOf, aborted, disposing, pending, invalid,
                 adm, ref, sig, halted, stopping, historyVars>>

\* A dispatch of the graph: requireExecution reads the execution of the state.
Work(t) ==
  /\ Running(t) /\ ~TurnAborted(t)
  /\ session = ref[t] /\ StateCurrent(ref[t])
  /\ strayed' = IF execOf[ref[t]] = t THEN strayed ELSE strayed \cup {t}
  /\ UNCHANGED <<registryVars, leaseVars, adapterVars, turnVars, old, outdated, late, evicted, broken>>

\* A step of the setup fails, the run ends by itself, or a dispatch is refused.
FinishRun(t) ==
  /\ Running(t)
  /\ Go(t, "closing")
  /\ UNCHANGED <<registryVars, leaseVars, adapterVars, adm, ref, sig, halted, stopping, historyVars>>

WatchdogFires(t) ==
  /\ Running(t)
  /\ halted' = halted \cup {t}
  /\ UNCHANGED <<registryVars, leaseVars, adapterVars, pc, adm, ref, sig, stopping, historyVars>>

\* The usage is flushed: the slot is free, and a postponed change is applied.
FreeSlot(t) ==
  /\ pc[t] = "closing"
  /\ active' = FALSE
  /\ halted' = halted \ {t}
  /\ IF invalid
       THEN AbortSession /\ Go(t, "tearing") /\ broken' = broken \cup (Victims \ {t})
       ELSE /\ armed' = Rearm(ref[t], FALSE) /\ Go(t, "ending")
            /\ UNCHANGED <<aborted, disposing, invalid, broken>>
  /\ UNCHANGED <<registryVars, leaseVars, session, execOf, pending, adm, ref, sig, stopping,
                 old, outdated, strayed, late, evicted>>

TornDown(t) ==
  /\ pc[t] = "tearing" /\ session \notin disposing
  /\ Go(t, "ending")
  /\ UNCHANGED <<registryVars, leaseVars, adapterVars, adm, ref, sig, halted, stopping, historyVars>>

-----------------------------------------------------------------------------
(* The end of the admission                                                *)

\* onLost of the heartbeat: abort the runtime of this execution, and release.
LeaseLostKeepsRuntime(t) ==
  /\ adm[t] = "held" /\ current # t
  /\ pc[t] # "marked"
  /\ adm' = [adm EXCEPT ![t] = "releasing"]
  /\ UNCHANGED <<registryVars, leaseVars, adapterVars, pc, ref, sig, halted, stopping, historyVars>>
LeaseLost(t) ==
  /\ adm[t] = "held" /\ current # t
  /\ pc[t] # "marked"
  /\ IF session # None /\ execOf[session] = t
       THEN AbortSession /\ broken' = broken \cup (Victims \ {t}) /\ UNCHANGED late
       ELSE /\ late' = IF pc[t] = "bound" THEN late \cup {t} ELSE late
            /\ UNCHANGED <<invalid, armed, aborted, disposing, broken>>
  /\ adm' = [adm EXCEPT ![t] = "releasing"]
  /\ UNCHANGED <<registryVars, leaseVars, session, execOf, pending, active, pc, ref, sig, halted, stopping,
                 old, outdated, strayed, evicted>>

\* releaseSlot: the entry of the session goes, whoever's it is by now.
ClearSlot(t) ==
  /\ entry' = None /\ entryExec' = None
  /\ adm' = [adm EXCEPT ![t] = "ended"]
  /\ UNCHANGED <<log, closed, cancelled>>

\* releaseAdmission, after the final write or after onLost: the lease is
\* released (a failure is logged), then finishTurnAdmission applies a change
\* that came during the turn and waits for the disposal, then the slot goes.
Releasing(t) == adm[t] = "releasing" \/ (adm[t] = "held" /\ pc[t] = "ending")
ReleaseLease(t) ==
  \/ current = t /\ current' = None /\ bound' = None
  \/ UNCHANGED leaseVars

ReleaseWithoutInvalidation(t) ==
  /\ Releasing(t)
  /\ ReleaseLease(t) /\ ClearSlot(t)
  /\ UNCHANGED <<adapterVars, pc, ref, sig, halted, stopping, historyVars>>
ReleaseAdmission(t) ==
  /\ Releasing(t)
  /\ ReleaseLease(t)
  /\ IF session # None /\ ~active /\ invalid
       THEN /\ AbortSession /\ broken' = broken \cup Victims
            /\ adm' = [adm EXCEPT ![t] = "disposing"]
            /\ UNCHANGED registryVars
       ELSE /\ invalid' = (invalid /\ session # None)
            /\ ClearSlot(t)
            /\ UNCHANGED <<armed, aborted, disposing, broken>>
  /\ UNCHANGED <<session, execOf, pending, active, pc, ref, sig, halted, stopping,
                 old, outdated, strayed, late, evicted>>

AdmissionDisposed(t) ==
  /\ adm[t] = "disposing" /\ session \notin disposing
  /\ ClearSlot(t)
  /\ UNCHANGED <<leaseVars, adapterVars, pc, ref, sig, halted, stopping, historyVars>>

\* The terminal event is written, and the request closes its own log and ends.
CloseLog(t) ==
  /\ pc[t] = "ending" /\ adm[t] = "ended"
  /\ Go(t, "done")
  /\ closed' = closed \cup {t}
  /\ log' = IF log = t THEN None ELSE log
  /\ ref' = [ref EXCEPT ![t] = None] /\ sig' = [sig EXCEPT ![t] = None]
  /\ stopping' = stopping \ {t}
  /\ UNCHANGED <<entry, entryExec, cancelled, leaseVars, adapterVars, adm, halted, historyVars>>

-----------------------------------------------------------------------------
(* What happens beside the turns                                           *)

\* Expiry, a revoked access: the row is no longer current.
LoseLease ==
  /\ current # None
  /\ current' = None /\ bound' = None
  /\ UNCHANGED <<registryVars, adapterVars, turnVars, historyVars>>

\* Stop: stopAndGetOwner ends the row; the local signal follows its answer.
StopExecution ==
  /\ current # None
  /\ stopping' = stopping \cup {current}
  /\ current' = None /\ bound' = None
  /\ UNCHANGED <<registryVars, adapterVars, pc, adm, ref, sig, halted, historyVars>>

\* requestCancelExecution, then interruptTurn, in one synchronous step.
DeliverStop(t) ==
  /\ t \in stopping
  /\ stopping' = stopping \ {t}
  /\ IF entry # None /\ entryExec = t
       THEN /\ cancelled' = cancelled \cup {entry}
            /\ halted' = halted \cup {x \in Turns : Running(x) /\ ref[x] = session}
       ELSE UNCHANGED <<cancelled, halted>>
  /\ UNCHANGED <<entry, entryExec, log, closed, leaseVars, adapterVars, pc, adm, ref, sig, historyVars>>

\* requestCancelUnadmitted, when the database held no execution to stop.
StopUnadmitted ==
  /\ entry # None /\ entryExec = None /\ entry \notin cancelled
  /\ cancelled' = cancelled \cup {entry}
  /\ UNCHANGED <<entry, entryExec, log, closed, leaseVars, adapterVars, turnVars, historyVars>>

IdleTimerFires(r) ==
  /\ r \in armed
  /\ AbortSession
  /\ broken' = broken \cup Victims
  /\ UNCHANGED <<registryVars, leaseVars, session, execOf, pending, active, turnVars,
                 old, outdated, strayed, late, evicted>>

\* An admin action with idleOnly passes over a running turn.
InvalidateIdle ==
  /\ session # None /\ session \notin aborted /\ ~active
  /\ AbortSession
  /\ broken' = broken \cup Victims
  /\ UNCHANGED <<registryVars, leaseVars, session, execOf, pending, active, turnVars,
                 old, outdated, strayed, late, evicted>>

\* A security change of the account stops its turns at once.
InvalidateUser ==
  /\ session # None /\ session \notin aborted
  /\ AbortSession
  /\ UNCHANGED <<registryVars, leaseVars, session, execOf, pending, active, turnVars, historyVars>>

\* A changed integration waits for a turn that runs or is admitted.
InvalidateIntegrationAtOnce ==
  /\ session # None /\ session \notin outdated
  /\ outdated' = outdated \cup {session}
  /\ AbortSession /\ broken' = broken \cup Victims
  /\ UNCHANGED <<registryVars, leaseVars, session, execOf, pending, active, turnVars,
                 old, strayed, late, evicted>>
InvalidateIntegration ==
  /\ session # None /\ session \notin outdated
  /\ outdated' = outdated \cup {session}
  /\ IF invalid \/ active \/ entry # None
       THEN invalid' = TRUE /\ UNCHANGED <<armed, aborted, disposing, broken>>
       ELSE AbortSession /\ broken' = broken \cup Victims
  /\ UNCHANGED <<registryVars, leaseVars, session, execOf, pending, active, turnVars,
                 old, strayed, late, evicted>>

\* snapshot() removes an entry that was not seen for the stale window.  A run
\* keeps its entry alive at each approval; a final write that hangs does not.
Evict ==
  /\ entry \in Stale /\ pc[entry] = "ending"
  /\ evicted' = evicted \cup {entry}
  /\ entry' = None /\ entryExec' = None
  /\ closed' = closed \cup ({log} \ {None}) /\ log' = None
  /\ UNCHANGED <<cancelled, leaseVars, adapterVars, turnVars, old, outdated, strayed, late, broken>>

-----------------------------------------------------------------------------
Admission(t) == Admit(t) \/ Acquire(t) \/ Fail(t)
Creation(t) ==
  \/ CreateCall(t) \/ CreateError(t) \/ ClearPrevious(t) \/ KeepPrevious(t)
  \/ Cleared(t) \/ BindWarm(t) \/ WarmBound(t) \/ Refreshed(t)
  \/ Build(t) \/ BindNew(t) \/ BindNewFails(t) \/ NewBound(t)
Run(t) == Enter(t) \/ EnterCheck(t) \/ Start(t) \/ Work(t) \/ FinishRun(t) \/ FreeSlot(t) \/ TornDown(t)
Release(t) == ReleaseAdmission(t) \/ AdmissionDisposed(t) \/ CloseLog(t)
Environment ==
  \/ LoseLease \/ StopExecution \/ StopUnadmitted
  \/ InvalidateIdle \/ InvalidateUser \/ InvalidateIntegration \/ Evict

Finished == \A t \in Turns : pc[t] = "done"

Step ==
  \/ \E t \in Turns :
       \/ Admission(t) \/ Creation(t) \/ Run(t) \/ Release(t)
       \/ LeaseLost(t) \/ WatchdogFires(t) \/ DeliverStop(t)
  \/ \E r \in Runtimes : Disposed(r) \/ IdleTimerFires(r)
  \/ Environment

Next ==
  \/ Step /\ UNCHANGED shared
  \/ Finished /\ UNCHANGED vars

Spec == Init /\ [][Next]_vars

-----------------------------------------------------------------------------
(* Properties                                                              *)

TypeOK ==
  /\ shared \in BOOLEAN
  /\ pc \in [Turns -> {"idle", "marked", "gates", "checking", "clearing", "binding", "bound", "refreshing",
                        "building", "upserting", "boundNew", "unwinding", "created", "entering", "entered",
                        "running", "closing", "tearing", "ending", "done"}]
  /\ adm \in [Turns -> {"none", "held", "releasing", "disposing", "ended"}]
  /\ {entry, entryExec, log, current, pending} \subseteq Turns \cup {None}
  /\ session \in Runtimes \cup {None}
  /\ closed \cup cancelled \cup halted \cup stopping \cup late \cup evicted \cup broken \cup strayed \subseteq Turns
  /\ aborted \cup disposing \cup armed \cup outdated \subseteq Runtimes
  /\ bound \in Runtimes \cup {None} /\ ref \in [Turns -> Runtimes \cup {None}]
  /\ sig \in [Turns -> Turns \cup {None}] /\ old \in [Turns -> SUBSET Runtimes]
  /\ execOf \in [Runtimes -> Turns \cup {Earlier, None}]

\* The slot is taken exactly while one turn uses it: no second turn runs beside
\* it, and no turn's end frees the slot of another.
OneStream == Cardinality({t \in Turns : InSlot(t)}) = IF active THEN 1 ELSE 0

\* createSession never rebinds, refreshes or replaces the runtime of a session
\* while a turn has its slot.
CreationExcludesTurn ==
  active => \A t \in Turns :
    pc[t] \notin {"binding", "bound", "refreshing", "clearing", "building", "upserting", "boundNew"}

\* An idle timer runs only for the runtime that the map holds, that is not
\* torn down, and never during a turn.
TimerIsSafe == \A r \in armed : r = session /\ r \notin aborted /\ ~active

\* The log that readers get by the entry is the one that its turn writes.
LogIsLive == entry # None => log = entry /\ log \notin closed

\* The state has its shape, the slot, the creation of runtimes and the idle timers exclude
\* one another, and readers get the log of the turn.
RuntimeInvariant == TypeOK /\ OneStream /\ CreationExcludesTurn /\ TimerIsSafe /\ LogIsLive

\* An idle timer, an admin's idle reset, a changed integration, another turn's
\* creation, end or lost lease never ends a running turn.  The exceptions are
\* those of WorkIsFenced.
RunningTurnKept == evicted = {} => broken \subseteq late

\* A turn calls the model only as its own execution, unless its lease was lost
\* while the answer of its bindRuntime was under way, or an entry was evicted:
\* then a third turn can bind the runtime of a second that is still held.
WorkIsFenced == evicted = {} => strayed \subseteq late

\* A turn that is admitted after an integration changed does not run on the
\* runtime that the change outdated, unless an entry was evicted.
IntegrationApplied ==
  evicted = {} => \A t \in Turns : Running(t) => ref[t] \notin old[t]
=============================================================================
