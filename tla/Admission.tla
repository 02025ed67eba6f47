----------------------------- MODULE Admission -----------------------------
(* Admission of work and the drain before an update: the Limiter of          *)
(* performance.rs, the tasks that hold its permits (uploads, the detached    *)
(* workers that decode models), the settings that change its limits, and     *)
(* prepare_update of maintenance.rs, which pauses admission, waits until all *)
(* permits are back, takes a snapshot and restarts.  An action is a stretch  *)
(* between two points where another thread can run: the counts are changed   *)
(* under a mutex, and waiters are notified after it is released.             *)
EXTENDS Integers, FiniteSets

CONSTANTS
  Uploads,      \* upload requests; each is made at most once
  Previews,     \* administrators' previews and rescans; likewise
  Updater,
  Limits,       \* the limits settings may choose; 0 is no limit
  InitialLimit,
  MaxUpdates, MaxSettings

Limiters == {"upload", "processing"}
Jobs == Uploads \cup Previews
(* A task that takes a permit, and the updater's wait for all of them.       *)
(* <<"processing", u>> is the worker that decodes what upload u received.    *)
Slots == ({"upload"} \X Uploads) \cup ({"processing"} \X Jobs)
Waiters == Slots \cup (Limiters \X {Updater})

ASSUME TasksAssumption ==
  /\ IsFiniteSet(Uploads) /\ IsFiniteSet(Previews)
  /\ Uploads \cap Previews = {} /\ Updater \notin Jobs
ASSUME LimitsAssumption == Limits \subseteq Nat /\ InitialLimit \in Nat
ASSUME BoundsAssumption == MaxUpdates \in Nat /\ MaxSettings \in Nat

VARIABLES
  limit, active, paused,  \* the counts of each limiter
  stage,    \* where each task is in acquire or idle
  woken,    \* the registered waiters that were notified
  tuned,    \* limits set and not announced yet
  update,   \* where prepare_update is
  updates, settings

countVars == <<limit, active, paused>>
boundVars == <<updates, settings>>
vars == <<limit, active, paused, stage, woken, tuned, update, updates,
          settings>>

Init ==
  /\ limit = [l \in Limiters |-> InitialLimit]
  /\ active = [l \in Limiters |-> 0]
  /\ paused = [l \in Limiters |-> 0]
  /\ stage = [w \in Waiters |-> "idle"]
  /\ woken = {}
  /\ tuned = [l \in Limiters |-> 0]
  /\ update = "off"
  /\ updates = 0
  /\ settings = 0

Moves(w, there) == stage' = [stage EXCEPT ![w] = there]
Adds(count, l, n) == [count EXCEPT ![l] = @ + n]

----------------------------------------------------------------------------
(* Limiter: the loop shared by acquire and idle.                             *)

Admits(l) == paused[l] = 0 /\ (limit[l] = 0 \/ active[l] < limit[l])
(* Mutant: idle looks for room rather than for the last permit. *)
SatisfiedByRoom(w) ==
  IF w[2] = Updater
    THEN limit[w[1]] = 0 \/ active[w[1]] < limit[w[1]]
    ELSE Admits(w[1])
Satisfied(w) == IF w[2] = Updater THEN active[w[1]] = 0 ELSE Admits(w[1])

(* Mutant: a waiter registers when it goes to sleep. *)
RegisteredAsleep(l) == {w \in Waiters : w[1] = l /\ stage[w] = "asleep"}
Registered(l) ==
  {w \in Waiters : w[1] = l /\ stage[w] \in {"armed", "refused", "asleep"}}
NotifyWaiters(l) == woken' = woken \cup Registered(l)

(* A turn begins by registering for the next notification. *)
Register(w) ==
  /\ stage[w] = "ready" \/ (stage[w] = "asleep" /\ w \in woken)
  /\ Moves(w, "armed")
  /\ woken' = woken \ {w}
  /\ UNCHANGED <<countVars, tuned, update, boundVars>>

(* Then the counts are read, and a permit taken, under the mutex. *)
Check(w) ==
  /\ stage[w] = "armed"
  /\ IF Satisfied(w)
       THEN /\ Moves(w, "in")
            /\ active' = IF w[2] = Updater THEN active ELSE Adds(active, w[1], 1)
       ELSE Moves(w, "refused") /\ UNCHANGED active
  /\ UNCHANGED <<limit, paused, woken, tuned, update, boundVars>>

Sleep(w) ==
  /\ stage[w] = "refused"
  /\ Moves(w, "asleep")
  /\ UNCHANGED <<countVars, woken, tuned, update, boundVars>>

(* A permit is dropped: first counted back, then announced. *)
DropPermit(w) ==
  /\ stage[w] = "in"
  /\ Moves(w, "leaving")
  /\ active' = Adds(active, w[1], -1)
  /\ UNCHANGED <<limit, paused, woken, tuned, update, boundVars>>

AnnounceDrop(w) ==
  /\ stage[w] = "leaving"
  /\ Moves(w, "gone")
  /\ NotifyWaiters(w[1])
  /\ UNCHANGED <<countVars, tuned, update, boundVars>>

----------------------------------------------------------------------------
(* The tasks.                                                                *)

Upload(u) == <<"upload", u>>
Worker(x) == <<"processing", x>>
Waiting == {"ready", "armed", "refused", "asleep"}

Arrive(w) ==
  /\ stage[w] = "idle"
  /\ Moves(w, "ready")
  /\ UNCHANGED <<countVars, woken, tuned, update, boundVars>>

(* The body is complete: the upload spawns its worker and awaits it. *)
StartScan(u) == stage[Upload(u)] = "in" /\ Arrive(Worker(u))

(* The upload ends: it was rejected before the scan, or the worker is done.  *)
EndUpload(u) ==
  /\ stage[Worker(u)] \in {"idle", "gone"}
  /\ DropPermit(Upload(u))

(* Mutant: a request that is cancelled does not return its permit. *)
CancelLeaking(u) ==
  /\ stage[Upload(u)] \in Waiting \cup {"in"}
  /\ Moves(Upload(u), "gone")
  /\ woken' = woken \ {Upload(u)}
  /\ UNCHANGED <<countVars, tuned, update, boundVars>>

(* The client disconnects: the handler's future is dropped where it is, and  *)
(* its worker runs on.                                                        *)
Withdraw(w) ==
  /\ stage[w] \in Waiting
  /\ Moves(w, "gone")
  /\ woken' = woken \ {w}
  /\ UNCHANGED <<countVars, tuned, update, boundVars>>

Cancel(u) == DropPermit(Upload(u)) \/ Withdraw(Upload(u))

(* The worker finishes decoding. *)
EndWorker(x) == DropPermit(Worker(x))

----------------------------------------------------------------------------
(* install_runtime_config sets either limit; nothing orders two installs.    *)

SetLimit(l, n) ==
  /\ settings < MaxSettings
  /\ settings' = settings + 1
  /\ limit' = [limit EXCEPT ![l] = n]
  /\ tuned' = Adds(tuned, l, 1)
  /\ UNCHANGED <<active, paused, stage, woken, update, updates>>

AnnounceLimit(l) ==
  /\ tuned[l] > 0
  /\ tuned' = Adds(tuned, l, -1)
  /\ NotifyWaiters(l)
  /\ UNCHANGED <<countVars, stage, update, boundVars>>

----------------------------------------------------------------------------
(* prepare_update, under the maintenance lock: one at a time.                *)

Draining(l) == <<l, Updater>>

(* Mutant: processing is paused with the uploads still in flight. *)
PauseProcessingFirst ==
  /\ update = "off"
  /\ updates < MaxUpdates
  /\ updates' = updates + 1
  /\ paused' = [l \in Limiters |-> 1]
  /\ Moves(Draining("upload"), "ready")
  /\ update' = "uploads"
  /\ UNCHANGED <<limit, active, woken, tuned, settings>>

PauseUploads ==
  /\ update = "off"
  /\ updates < MaxUpdates
  /\ updates' = updates + 1
  /\ paused' = Adds(paused, "upload", 1)
  /\ Moves(Draining("upload"), "ready")
  /\ update' = "uploads"
  /\ UNCHANGED <<limit, active, woken, tuned, settings>>

PauseProcessing ==
  /\ update = "uploads"
  /\ stage[Draining("upload")] = "in"
  /\ paused' = Adds(paused, "processing", 1)
  /\ stage' = [stage EXCEPT ![Draining("upload")] = "idle",
                            ![Draining("processing")] = "ready"]
  /\ update' = "processing"
  /\ UNCHANGED <<limit, active, woken, tuned, boundVars>>

Snapshot ==
  /\ update = "processing"
  /\ stage[Draining("processing")] = "in"
  /\ Moves(Draining("processing"), "idle")
  /\ update' = "archiving"
  /\ UNCHANGED <<countVars, woken, tuned, boundVars>>

(* The helper is started; the pauses are held until the process exits. *)
Schedule ==
  /\ update = "archiving"
  /\ update' = "restarting"
  /\ UNCHANGED <<countVars, stage, woken, tuned, boundVars>>

(* A wait times out, the archive fails, or the administrator's request is    *)
(* dropped: the wait is dropped, then the pauses, the last one first.        *)
DropPause(l) ==
  /\ paused' = Adds(paused, l, -1)
  /\ Moves(Draining(l), "idle")
  /\ woken' = woken \ {Draining(l)}
  /\ UNCHANGED <<limit, active, tuned, boundVars>>

GiveUpProcessing ==
  /\ update \in {"processing", "archiving"}
  /\ DropPause("processing")
  /\ update' = "wakeProcessing"

GiveUpUploads ==
  /\ update \in {"uploads", "resumeUploads"}
  /\ DropPause("upload")
  /\ update' = "wakeUploads"

Wakes == [upload |-> "wakeUploads", processing |-> "wakeProcessing"]

(* Mutant: a pause that is dropped wakes nobody. *)
AnnounceResumeNotAtAll(l) ==
  /\ update = Wakes[l]
  /\ update' = IF l = "upload" THEN "off" ELSE "resumeUploads"
  /\ UNCHANGED <<countVars, stage, woken, tuned, boundVars>>

AnnounceResume(l) ==
  /\ update = Wakes[l]
  /\ update' = IF l = "upload" THEN "off" ELSE "resumeUploads"
  /\ NotifyWaiters(l)
  /\ UNCHANGED <<countVars, stage, tuned, boundVars>>

----------------------------------------------------------------------------
Task ==
  \/ \E w \in Waiters : Register(w) \/ Check(w) \/ Sleep(w)
  \/ \E w \in Slots : AnnounceDrop(w)
  \/ \E u \in Uploads :
       Arrive(Upload(u)) \/ StartScan(u) \/ EndUpload(u) \/ Cancel(u)
  \/ \E p \in Previews : Arrive(Worker(p))
  \/ \E x \in Jobs : EndWorker(x)

Configure ==
  \E l \in Limiters : AnnounceLimit(l) \/ \E n \in Limits : SetLimit(l, n)

Update ==
  \/ PauseUploads \/ PauseProcessing \/ Snapshot \/ Schedule
  \/ GiveUpProcessing \/ GiveUpUploads
  \/ \E l \in Limiters : AnnounceResume(l)

Next == Task \/ Configure \/ Update

Spec == Init /\ [][Next]_vars

(* Threads run and decoders end (each has a time limit).  Nothing is assumed *)
(* of clients, and no wait of the updater has to time out.                   *)
Fairness ==
  /\ \A w \in Waiters :
       WF_vars(Register(w)) /\ WF_vars(Check(w)) /\ WF_vars(Sleep(w))
  /\ \A w \in Slots : WF_vars(AnnounceDrop(w))
  /\ \A u \in Uploads : WF_vars(stage[Worker(u)] = "gone" /\ EndUpload(u))
  /\ \A x \in Jobs : WF_vars(EndWorker(x))
  /\ \A l \in Limiters : WF_vars(AnnounceLimit(l)) /\ WF_vars(AnnounceResume(l))
  /\ WF_vars(PauseProcessing) /\ WF_vars(Snapshot)
  /\ WF_vars(update = "resumeUploads" /\ GiveUpUploads)
FairSpec == Spec /\ Fairness

----------------------------------------------------------------------------
Stages == {"idle", "ready", "armed", "refused", "asleep", "in", "leaving",
           "gone"}
Phases == {"off", "uploads", "processing", "archiving", "restarting",
           "wakeProcessing", "resumeUploads", "wakeUploads"}

(* Counts are never negative (they are unsigned in Limiter) and every task   *)
(* and the updater are where their code can be.                               *)
TypeOK ==
  /\ limit \in [Limiters -> Nat]
  /\ active \in [Limiters -> Nat]
  /\ paused \in [Limiters -> Nat]
  /\ stage \in [Waiters -> Stages]
  /\ woken \subseteq Waiters
  /\ tuned \in [Limiters -> Nat]
  /\ update \in Phases
  /\ updates \in 0..MaxUpdates
  /\ settings \in 0..MaxSettings

(* The active count is the number of tasks that hold a permit, whatever      *)
(* requests are cancelled and limits changed: no permit leaks, none is        *)
(* returned twice (Limiter::acquire, Drop for Permit).                        *)
Holders(l) == {w \in Slots : w[1] = l /\ stage[w] = "in"}
PermitsCounted == \A l \in Limiters : active[l] = Cardinality(Holders(l))

(* A task never sleeps through its chance: when one sleeps unnotified while   *)
(* its condition holds, a thread is about to notify its limiter (acquire and *)
(* idle register before they read the counts).                                *)
AboutToNotify(l) ==
  \/ \E w \in Slots : w[1] = l /\ stage[w] = "leaving"
  \/ tuned[l] > 0
  \/ update = Wakes[l]
NoLostWakeup ==
  \A w \in Waiters :
    (stage[w] = "asleep" /\ w \notin woken /\ Satisfied(w))
      => AboutToNotify(w[1])

(* While the snapshot is taken and until the process exits no upload is in    *)
(* flight and no worker decodes ("Finish in-flight uploads before             *)
(* snapshot/restart; new admissions wait", prepare_update).                   *)
SnapshotIsQuiet ==
  update \in {"archiving", "restarting"} => \A w \in Slots : stage[w] # "in"

(* An upload that the drain waits for is never itself waiting for a worker    *)
(* the drain keeps out (prepare_update pauses processing after the uploads    *)
(* are drained and resumes it before them).                                   *)
UploadsCanFinish ==
  \A u \in Uploads :
    (stage[Upload(u)] = "in" /\ stage[Worker(u)] \in Waiting)
      => paused["processing"] = 0

(* If no client leaves its upload hanging, a drain reaches the snapshot or is *)
(* given up; it does not need its timeouts.                                   *)
Receiving(u) == stage[Upload(u)] = "in" /\ stage[Worker(u)] = "idle"
NoneHangs == \A u \in Uploads : []<>~Receiving(u)
DrainEnds ==
  NoneHangs =>
    (update \in {"uploads", "processing"}
       ~> update \in {"archiving", "wakeProcessing", "wakeUploads"})

(* If no client leaves its upload hanging, every task that waits is admitted  *)
(* or cancelled, unless the process is about to exit or never leaves the      *)
(* snapshot.                                                                   *)
WaitersAreAdmitted ==
  NoneHangs =>
    \A w \in Slots :
      stage[w] \in Waiting
        ~> (stage[w] \notin Waiting \/ update \in {"archiving", "restarting"})

(* The counts and the waits implement the gate, however threads interleave   *)
(* between a count and its announcement.                                      *)
Gates == INSTANCE Gate WITH
  inside <- {w \in Slots : stage[w] = "in"},
  closed <- {l \in Limiters : paused[l] > 0},
  frozen <- update \in {"archiving", "restarting"}
ImplementsGate == Gates!Spec
=============================================================================
