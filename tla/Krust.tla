--------------------------------- MODULE Krust ---------------------------------
(***************************************************************************)
(* The Krust kernel core: module Capabilities together with the scheduler  *)
(* (ipc/scheduler.rs), the endpoint queues (kernel/transport.rs), blocking *)
(* receive with timeouts, sleep, preemption and endpoint quotas.  One CPU: *)
(* a system call or an interrupt handler runs to completion, so each is    *)
(* one action, taken by the current process.                               *)
(*                                                                         *)
(* Every action that touches capabilities is the action of Capabilities of *)
(* the same name conjoined with what the handler does to the scheduler.    *)
(***************************************************************************)
EXTENDS Capabilities

CONSTANTS
  QueueCapacity,    \* MESSAGE_QUEUE_CAPACITY
  Timeouts,         \* timeouts and sleeps asked for, in ticks
  InitQuota         \* max_endpoints of ProcessQuota::initial

ASSUME SchedulerAssumption ==
  QueueCapacity \in Nat /\ Timeouts \subseteq Nat /\ InitQuota \in Nat

VARIABLES
  run,              \* scheduling state of each process, "None" unless Live
  current,          \* ProcessTable.current
  queue,            \* queue[e]: senders of the messages queued at endpoint e
  quota,            \* Process.quota: max_endpoints and used_endpoints
  initialQuota,     \* Process.initial_quota.max_endpoints
  exitStatus,       \* Process.exit_status, "none" until the process exits
  cause             \* history, read by the properties only: how long the last
                    \* step idled and which receivers it handed a message to

vars == <<capVars, run, current, queue, quota, initialQuota, exitStatus, cause>>
schedVars == <<run, current, queue, quota, initialQuota, exitStatus>>
-----------------------------------------------------------------------------
(* Scheduling states *)

Plain(kind) == [kind |-> kind, endpoint |-> 0, cap |-> 0, timed |-> FALSE, left |-> 0]
None == Plain("None")
Ready == Plain("Ready")
Running == Plain("Running")

\* A deadline is kept as the time left until it is reached.
BlockedOnEndpoint(e, cap, timed, left) ==
  [kind |-> "BlockedOnEndpoint", endpoint |-> e, cap |-> cap, timed |-> timed, left |-> left]
Sleeping(left) == [Plain("Sleeping") EXCEPT !.timed = TRUE, !.left = left]

RunStates ==
  [kind : {"None", "Ready", "Running", "BlockedOnEndpoint", "Sleeping"},
   endpoint : 0 .. MaxObjects, cap : 0 .. MaxLineage, timed : BOOLEAN, left : Nat]

Receiving(r, p) == r[p].kind = "BlockedOnEndpoint"
ReadyIn(r) == {p \in Pids : r[p].kind = "Ready"}
TimedIn(r) == {p \in Pids : r[p].timed}

\* What a step leaves in the history variable cause.
Idled(d) == [idled |-> d, handed |-> {}]
HandedTo(S) == [idled |-> 0, handed |-> S]
Quiet == Idled(0)
-----------------------------------------------------------------------------
(* Time *)

Elapse(r, d) ==
  [p \in Pids |-> [r[p] EXCEPT !.left = IF r[p].left > d THEN r[p].left - d ELSE 0]]

\* Broken on purpose: only sleepers are woken, and off by one.
WakeSleepers(r) ==
  [p \in Pids |-> IF r[p].kind = "Sleeping" /\ r[p].left = 0 THEN Ready ELSE r[p]]

WakeOneTickEarly(r) == [p \in Pids |-> IF r[p].timed /\ r[p].left <= 1 THEN Ready ELSE r[p]]

\* wake_timed_processes: every sleeper and timed receiver whose deadline has
\* been reached becomes ready.
WakeTimed(r) == [p \in Pids |-> IF r[p].timed /\ r[p].left = 0 THEN Ready ELSE r[p]]

\* How long wait_until_deadline may idle: to the nearest deadline, which the
\* next timer interrupt may overshoot.
IdleTimes(r) ==
  {d \in {r[p].left : p \in TimedIn(r)} \cup Timeouts :
     \E p \in TimedIn(r) : /\ r[p].left <= d
                           /\ \A q \in TimedIn(r) : r[p].left <= r[q].left}
-----------------------------------------------------------------------------
(* Picking the next process *)

\* Broken on purpose: the scan always starts at the first entry.
LowestPid(c, S) == CHOOSE p \in S : \A q \in S : p <= q

\* next_ready_index_round_robin: the process table is in pid order, so the
\* scan from the entry after the current one is by increasing pid, wrapping.
NextAfter(c, S) ==
  IF \E p \in S : p > c
  THEN CHOOSE p \in S : p > c /\ \A q \in S : q > c => p <= q
  ELSE CHOOSE p \in S : \A q \in S : p <= q

Candidates(r, includeCurrent) ==
  IF includeCurrent THEN ReadyIn(r) ELSE ReadyIn(r) \ {current}

Switch(r, candidates) ==
  LET next == NextAfter(current, candidates) IN
  /\ candidates # {}
  /\ current' = next
  /\ run' = [r EXCEPT ![next] = Running]

\* schedule_next_ready_inner, waiting for the nearest deadline when nothing
\* is ready.  It finds no process only if nothing is ready and no deadline
\* is pending: NothingToRun.
ScheduleNext(r, includeCurrent) ==
  LET woken == WakeTimed(r) IN
  \/ Switch(woken, Candidates(woken, includeCurrent)) /\ cause' = Quiet
  \/ /\ Candidates(woken, includeCurrent) = {}
     /\ \E d \in IdleTimes(woken) :
          LET later == WakeTimed(Elapse(woken, d)) IN
          Switch(later, Candidates(later, includeCurrent)) /\ cause' = Idled(d)

NothingToRun(r, includeCurrent) ==
  Candidates(WakeTimed(r), includeCurrent) = {} /\ TimedIn(WakeTimed(r)) = {}

\* The caller blocks in state s; if there is nothing else to run or to wait
\* for it stays running and the call fails (IpcError::Empty).
Block(s) ==
  LET r == [run EXCEPT ![current] = s] IN
  \/ ScheduleNext(r, TRUE)
  \/ /\ NothingToRun(r, TRUE) /\ run' = [r EXCEPT ![current] = Running]
     /\ cause' = Quiet /\ UNCHANGED current
-----------------------------------------------------------------------------
(* Endpoint queues *)

HasMessageFor(q, p) == \E i \in 1 .. Len(q) : q[i] # p
FirstFor(q, p) == CHOOSE i \in 1 .. Len(q) : q[i] # p /\ \A j \in 1 .. i - 1 : q[j] = p
RemoveAt(q, i) == [j \in 1 .. Len(q) - 1 |-> IF j < i THEN q[j] ELSE q[j + 1]]
DequeueFor(q, p) == RemoveAt(q, FirstFor(q, p))

\* Queues of endpoints that left the object table go with them.
DropDeadQueues ==
  queue' = [e \in 1 .. MaxObjects |->
              IF e \in 1 .. Len(objects') /\ ~objects'[e].live THEN <<>> ELSE queue[e]]

\* process_has_live_endpoint_cap: the endpoints p may receive from, each with
\* the id of the capability that says so.
EndpointAuthority(p) ==
  {<<caps[p][s].object, caps[p][s].id>> :
     s \in {u \in Slots : LookupKind(p, u, {"receive"}, "endpoint")}}

Authorized(r, p) == <<r[p].endpoint, r[p].cap>> \in EndpointAuthority(p)

\* Broken on purpose: a receive with a timeout, whoever owns the endpoint.
CancelTimed(r, owner) == [p \in Pids |-> IF Receiving(r, p) /\ r[p].timed THEN Ready ELSE r[p]]

\* cancel_blocked_receivers_for_endpoint_owner
CancelOwner(r, owner) ==
  [p \in Pids |->
     IF Receiving(r, p) /\ (\/ ~objects[r[p].endpoint].live
                            \/ objects[r[p].endpoint].owner = owner)
     THEN Ready ELSE r[p]]
-----------------------------------------------------------------------------
(* IPC system calls *)

\* Broken on purpose: off by one.
CanEnqueueOneMore(q) == Len(q) <= QueueCapacity

CanEnqueue(q) == Len(q) < QueueCapacity

\* Broken on purpose: the scan misses the last message.
WaitersOffByOne(r, e, q) ==
  {p \in Pids : /\ Receiving(r, p) /\ r[p].endpoint = e
                /\ \E i \in 1 .. Len(q) - 1 : q[i] # p}

\* blocked_receiver_index: who could take a message of queue q.
Waiters(r, e, q) ==
  {p \in Pids : Receiving(r, p) /\ r[p].endpoint = e /\ HasMessageFor(q, p)}

Least(S) == CHOOSE p \in S : \A x \in S : p <= x

\* Broken on purpose: everyone who could take the message.
WokenAll(r, waiters) == waiters

\* wake_blocked_receiver runs down the waiters in table order, cancelling
\* those whose authority is gone, until one takes the message.
Woken(r, waiters) ==
  LET takers == {p \in waiters : Authorized(r, p)} IN
  {p \in waiters : takers = {} \/ p <= Least(takers)}

\* send: the message is queued, then a blocked receiver is woken with it.
Send(s) ==
  LET e == ObjectOf(current, s)
      q == Append(queue[e], current)
      r == WakeTimed(run)
      waiters == Waiters(r, e, q)
      takers == {p \in waiters : Authorized(r, p)}
  IN /\ LookupKind(current, s, {"send"}, "endpoint")
     /\ CanEnqueue(queue[e])
     /\ run' = [p \in Pids |-> IF p \in Woken(r, waiters) THEN Ready ELSE r[p]]
     /\ queue' = [queue EXCEPT ![e] = IF takers = {} THEN q ELSE DequeueFor(q, Least(takers))]
     /\ cause' = HandedTo(Woken(r, waiters) \cap takers)
     /\ UNCHANGED <<capVars, current, quota, initialQuota, exitStatus>>

\* receive_with_timeout: the first message of another sender, or block.
Receive(s, timed, t) ==
  LET e == ObjectOf(current, s) IN
  /\ LookupKind(current, s, {"receive"}, "endpoint")
  /\ \/ /\ HasMessageFor(queue[e], current)
        /\ queue' = [queue EXCEPT ![e] = DequeueFor(queue[e], current)]
        /\ cause' = Quiet /\ UNCHANGED <<run, current>>
     \/ /\ ~HasMessageFor(queue[e], current)
        /\ Block(BlockedOnEndpoint(e, caps[current][s].id, timed, t))
        /\ UNCHANGED queue
  /\ UNCHANGED <<capVars, quota, initialQuota, exitStatus>>

\* sleep_ms with a nonzero time; with zero it returns at once.
Sleep(s, t) ==
  /\ LookupKind(current, s, {"control"}, "timer") /\ t > 0
  /\ Block(Sleeping(t))
  /\ UNCHANGED <<capVars, queue, quota, initialQuota, exitStatus>>

\* yield_current_process
Yield ==
  LET r == [run EXCEPT ![current] = Ready] IN
  /\ \/ ScheduleNext(r, FALSE)
     \/ NothingToRun(r, FALSE) /\ cause' = Quiet /\ UNCHANGED <<run, current>>
  /\ UNCHANGED <<capVars, queue, quota, initialQuota, exitStatus>>

\* Broken on purpose: the preempted process is left Running.
PreemptKeepsRunning ==
  LET woken == WakeTimed(run)
      others == Candidates(woken, FALSE) IN
  /\ \/ others = {} /\ run' = woken /\ UNCHANGED current
     \/ Switch(woken, others)
  /\ cause' = Quiet /\ UNCHANGED <<capVars, queue, quota, initialQuota, exitStatus>>

\* preempt_current_process, from the timer interrupt of a user process.
Preempt ==
  LET woken == WakeTimed(run)
      others == Candidates(woken, FALSE) IN
  /\ \/ others = {} /\ run' = woken /\ UNCHANGED current
     \/ Switch([woken EXCEPT ![current] = Ready], others)
  /\ cause' = Quiet /\ UNCHANGED <<capVars, queue, quota, initialQuota, exitStatus>>

\* The time-stamp counter advances while user code runs.
Tick ==
  /\ \E p \in Pids : run[p].left > 0
  /\ run' = Elapse(run, 1)
  /\ cause' = Quiet /\ UNCHANGED <<capVars, current, queue, quota, initialQuota, exitStatus>>
-----------------------------------------------------------------------------
(* Capability system calls *)

\* Calls that leave the scheduler alone.
CapabilityCall ==
  /\ \/ \E s \in Slots : CapDrop(current, s)
     \/ \E s, u \in Slots : CapMove(current, s, u) \/ VfsDeriveRoot(current, s, u)
     \/ \E s, u \in Slots, m \in Masks :
          CapDerive(current, s, u, m) \/ CapCopy(current, s, u, m)
     \/ \E s, u \in Slots, e \in NamespaceEntries : NamespaceResolve(current, s, u, e)
     \/ \E s, u \in Slots, q \in Pids, m \in Masks : CapTransfer(current, s, q, u, m)
  /\ UNCHANGED schedVars

\* Broken on purpose: blocked receivers are left alone.
RevokeLeavesWaiters(s) ==
  CapRevoke(current, s) /\ UNCHANGED <<run, current, queue, quota, initialQuota, exitStatus>>

\* cap_revoke ends with cancel_unauthorized_blocked_receivers.
Revoke(s) ==
  /\ CapRevoke(current, s)
  /\ run' = [p \in Pids |->
               IF Receiving(run, p) /\ <<run[p].endpoint, run[p].cap>> \notin EndpointAuthority(p)'
               THEN Ready ELSE run[p]]
  /\ UNCHANGED <<current, queue, quota, initialQuota, exitStatus>>

\* endpoint_create, charged to the quota of the caller.
CreateEndpoint(s) ==
  /\ quota[current].used < quota[current].max
  /\ EndpointCreate(current, s)
  /\ quota' = [quota EXCEPT ![current].used = @ + 1]
  /\ UNCHANGED <<run, current, queue, initialQuota, exitStatus>>

\* quota_delegate: no more than the caller's own maximum; a Declared process
\* also gets it as its restart baseline.
QuotaDelegate(q, n) ==
  /\ HoldsControl(current, "delegate") /\ q \in Processes /\ n <= quota[current].max
  /\ quota' = [quota EXCEPT ![q] = [max |-> n,
                                    used |-> IF lifecycle[q] = "Declared" THEN 0 ELSE @.used]]
  /\ initialQuota' = [initialQuota EXCEPT ![q] = IF lifecycle[q] = "Declared" THEN n ELSE @]
  /\ UNCHANGED <<capVars, run, current, queue, exitStatus>>
-----------------------------------------------------------------------------
(* Process system calls *)

ServiceQuota == [max |-> 0, used |-> 0]

\* create_process: the new process waits in Declared, with no endpoint quota.
Create(t) ==
  /\ CreateProcess(current, t)
  /\ run' = IF templatePid[t] = NoPid THEN run ELSE CancelOwner(run, templatePid[t])
  /\ quota' = [quota EXCEPT ![nextPid] = ServiceQuota]
  /\ initialQuota' = [initialQuota EXCEPT ![nextPid] = 0]
  /\ exitStatus' = [exitStatus EXCEPT ![nextPid] = "none"]
  /\ DropDeadQueues
  /\ UNCHANGED <<current>>

CreateFails(t, n) ==
  /\ CreateProcessFails(current, t, n)
  /\ run' = IF templatePid[t] = NoPid THEN run ELSE CancelOwner(run, templatePid[t])
  /\ DropDeadQueues
  /\ UNCHANGED <<current, quota, initialQuota, exitStatus>>

\* Broken on purpose: the endpoints of the last run stay charged.
RestartQuotaKeepsUsed(q) == [max |-> initialQuota[q], used |-> quota[q].used]

RestartQuota(q) == [max |-> initialQuota[q], used |-> 0]

\* start_process: a restart also brings back the quota baseline.
Start(q) ==
  /\ StartProcess(current, q)
  /\ run' = [IF lifecycle[q] = "Exited" THEN CancelOwner(run, q) ELSE run EXCEPT ![q] = Ready]
  /\ quota' = IF lifecycle[q] = "Exited"
              THEN [quota EXCEPT ![q] = RestartQuota(q)] ELSE quota
  /\ exitStatus' = [exitStatus EXCEPT ![q] = "none"]
  /\ DropDeadQueues
  /\ UNCHANGED <<current, initialQuota>>

\* start_process of an exited process that fails after the reap.
StartFails(q) ==
  /\ HoldsControl(current, "start") /\ ReapExited(current, q)
  /\ run' = CancelOwner(run, q)
  /\ DropDeadQueues
  /\ UNCHANGED <<current, quota, initialQuota, exitStatus>>

\* process_wait: timed processes are woken before the authority is checked,
\* so also when the call is refused or the process has not exited.  An exited
\* process is reaped.
Wait(q) ==
  /\ HoldsControl(current, "wait") /\ ReapExited(current, q)
  /\ run' = CancelOwner(WakeTimed(run), q)
  /\ DropDeadQueues
  /\ UNCHANGED <<current, quota, initialQuota, exitStatus>>

WaitRefused ==
  /\ run' = WakeTimed(run)
  /\ UNCHANGED <<capVars, current, queue, quota, initialQuota, exitStatus>>

\* kill_process
Kill(q) ==
  /\ KillProcess(current, q)
  /\ run' = CancelOwner([run EXCEPT ![q] = None], q)
  /\ exitStatus' = [exitStatus EXCEPT ![q] = "failed"]
  /\ DropDeadQueues
  /\ UNCHANGED <<current, quota, initialQuota>>

\* all_exited_successfully, once the caller has exited with status.
AllSucceeded(status) ==
  /\ status = "ok"
  /\ \A p \in Processes \ {current} : lifecycle[p] = "Exited" /\ exitStatus[p] = "ok"

\* exit_current_process: the kernel halts when init fails or when nothing is
\* left to run.
Exit(status) ==
  LET r == CancelOwner([run EXCEPT ![current] = None], current)
      initFailed == current = InitPid /\ status # "ok" IN
  /\ exitStatus' = [exitStatus EXCEPT ![current] = status]
  /\ \/ /\ ~initFailed /\ ScheduleNext(r, TRUE)
        /\ ExitProcess(current, "no") /\ DropDeadQueues
     \/ /\ initFailed \/ NothingToRun(r, TRUE)
        /\ ExitProcess(current, IF AllSucceeded(status) THEN "ok" ELSE "failed")
        /\ run' = IF initFailed THEN r ELSE WakeTimed(r)
        /\ cause' = Quiet /\ UNCHANGED <<current, queue>>
  /\ UNCHANGED <<quota, initialQuota>>

\* fault_current_process: a contained fault ends like an exit with a failure
\* status; a fault of init halts the kernel.
Fault == Exit("failed")
-----------------------------------------------------------------------------
(* Specification *)

Init ==
  /\ CapInit
  /\ run = [p \in Pids |-> IF p = InitPid THEN Running ELSE None]
  /\ current = InitPid
  /\ queue = [e \in 1 .. MaxObjects |-> <<>>]
  /\ quota = [p \in Pids |-> IF p = InitPid THEN [max |-> InitQuota, used |-> 0]
                             ELSE ServiceQuota]
  /\ initialQuota = [p \in Pids |-> quota[p].max]
  /\ exitStatus = [p \in Pids |-> "none"]
  /\ cause = Quiet

\* Calls that end no receive but by cancelling it or by the clock, and calls
\* that hand out a message or leave the CPU.
PlainCall ==
  \/ \E s \in Slots : Revoke(s) \/ CreateEndpoint(s)
  \/ WaitRefused
  \/ CapabilityCall
  \/ \E q \in Pids, n \in 0 .. InitQuota : QuotaDelegate(q, n)
  \/ \E t \in Templates : Create(t) \/ \E n \in 0 .. MaxLineage : CreateFails(t, n)
  \/ \E q \in Pids : Start(q) \/ StartFails(q) \/ Wait(q) \/ Kill(q)

SchedulingCall ==
  \/ \E s \in Slots : Send(s) \/ Receive(s, FALSE, 0)
  \/ \E s \in Slots, t \in Timeouts : Receive(s, TRUE, t) \/ Sleep(s, t)
  \/ Yield
  \/ \E status \in {"ok", "failed"} : Exit(status)
  \/ Fault

SystemCall == (PlainCall /\ cause' = Quiet) \/ SchedulingCall

Next == halted = "no" /\ (SystemCall \/ Preempt \/ Tick)

Spec == Init /\ [][Next]_vars

\* The timer interrupt keeps coming and time keeps passing.
FairSpec == Spec /\ WF_vars(halted = "no" /\ Preempt) /\ WF_vars(halted = "no" /\ Tick)
-----------------------------------------------------------------------------
(* Properties *)

\* Every field keeps its type, and no queue outgrows the array behind it.
TypeOK ==
  /\ CapTypeOK
  /\ run \in [Pids -> RunStates]
  /\ current \in Pids
  /\ queue \in [1 .. MaxObjects -> Seq(0 .. MaxPid)]
  /\ \A e \in 1 .. MaxObjects : Len(queue[e]) <= QueueCapacity
  /\ quota \in [Pids -> [max : 0 .. InitQuota, used : Nat]]
  /\ initialQuota \in [Pids -> 0 .. InitQuota]
  /\ exitStatus \in [Pids -> {"none", "ok", "failed"}]
  /\ cause \in [idled : Nat, handed : SUBSET Pids]

\* Whatever blocks, exits, is killed, times out or is restarted, exactly one
\* process runs, it is the one ProcessTable.current names, and a process that
\* is not live is never runnable.
OneRunning ==
  /\ \A p \in Pids : run[p].kind = "None" <=> lifecycle[p] # "Live"
  /\ halted = "no" => \A p \in Pids : run[p].kind = "Running" <=> p = current

\* A blocked receiver still holds, unrevoked and with the receive right, the
\* capability it blocked with, and its endpoint still exists: revocation and
\* the death of an endpoint's owner leave nobody waiting without authority.
\* (So the cancel branch inside wake_blocked_receiver is never taken.)
BlockedReceiverAuthorized ==
  halted = "no" => \A p \in Pids : Receiving(run, p) => Authorized(run, p)

\* No lost wake-up: nobody is blocked on an endpoint that holds a message it
\* could take.  Sends, timeouts, cancellations and restarts may come in any
\* order between the block and the message.
NoLostWakeup ==
  \A p \in Pids : Receiving(run, p) => ~HasMessageFor(queue[run[p].endpoint], p)

\* The endpoints a process is charged for are the ones it owns: restart
\* resets the charge exactly when the endpoints are gone, and nobody that is
\* not live owns an endpoint.
QuotaMatchesEndpoints ==
  halted = "no" =>
    \A p \in Pids :
      LET owned == {o \in 1 .. Len(objects) : objects[o].owner = p /\ objects[o].live} IN
      IF lifecycle[p] = "Live" THEN quota[p].used = Cardinality(owned) ELSE owned = {}

\* A receive ends for a reason: the process was killed, it lost the authority
\* it was waiting with or the owner of its endpoint ended; its deadline was
\* reached, by the clock at the call or after the kernel idled; or it was
\* handed a message.  A message is handed to one receiver, blocked on that
\* endpoint and not past its deadline, and is then not queued as well.
WakeupHasCause ==
  [][LET Ended(p) == Receiving(run, p) /\ ~Receiving(run', p)
         Expired(p) == run[p].timed /\ run[p].left <= cause'.idled
         Cancelled(p) ==
           \/ lifecycle'[p] # "Live"
           \/ <<run[p].endpoint, run[p].cap>> \notin EndpointAuthority(p)'
           \/ \E q \in Pids : objects[run[p].endpoint].owner = q /\ lifecycle'[q] # "Live"
     IN /\ \A p \in Pids : Ended(p) => Expired(p) \/ Cancelled(p) \/ p \in cause'.handed
        /\ \A p \in cause'.handed :
             /\ cause'.handed = {p} /\ Ended(p) /\ ~Expired(p)
             /\ \E s \in Slots : LookupKind(current, s, {"send"}, "endpoint")
                                 /\ ObjectOf(current, s) = run[p].endpoint
             /\ queue' = queue]_vars

\* Round robin starves nobody: a ready process runs, unless it is killed or
\* the kernel halts first.
ReadyProcessRuns ==
  \A p \in Pids :
    run[p].kind = "Ready" ~> (run[p].kind = "Running" \/ lifecycle[p] # "Live" \/ halted # "no")

\* A receive with a timeout and a sleep come to an end.
TimedWaitEnds ==
  \A p \in Pids : run[p].timed ~> (~run[p].timed \/ halted # "no")
=============================================================================
