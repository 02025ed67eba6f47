-------------------------- MODULE AdmissionProofs --------------------------
(* Proofs about Admission for any number of uploads and previews, any        *)
(* limits and any bounds.                                                     *)
EXTENDS Admission, FiniteSetTheorems, TLAPS

(* A pause is held exactly in the phases between taking and dropping it. *)
PausesHeld ==
  /\ paused["upload"] =
       IF update \in {"uploads", "processing", "archiving", "restarting",
                      "wakeProcessing", "resumeUploads"} THEN 1 ELSE 0
  /\ paused["processing"] =
       IF update \in {"processing", "archiving", "restarting"} THEN 1 ELSE 0

(* The updater waits for a limiter only in the phase that drains it. *)
WaitsInPhase ==
  /\ stage[Draining("upload")] # "idle" => update = "uploads"
  /\ stage[Draining("processing")] # "idle" => update = "processing"

(* What was drained stays drained. *)
Drained ==
  /\ (\/ update \in {"processing", "archiving", "restarting"}
      \/ stage[Draining("upload")] = "in")
     => active["upload"] = 0
  /\ (\/ update \in {"archiving", "restarting"}
      \/ stage[Draining("processing")] = "in")
     => active["processing"] = 0

DrainInv ==
  /\ TypeOK /\ PermitsCounted /\ PausesHeld /\ WaitsInPhase /\ Drained

(* NoLostWakeup, also for a waiter between its check and its sleep. *)
WakeInv ==
  \A w \in Waiters :
    (stage[w] \in {"refused", "asleep"} /\ w \notin woken /\ Satisfied(w))
      => AboutToNotify(w[1])

----------------------------------------------------------------------------
(* The steps of Next, by the kind of change they make. *)
LEMMA Steps ==
  ASSUME Next
  PROVE  \/ \E w \in Waiters : Register(w) \/ Check(w) \/ Sleep(w)
         \/ \E w \in Slots :
              AnnounceDrop(w) \/ Arrive(w) \/ DropPermit(w) \/ Withdraw(w)
         \/ \E l \in Limiters :
              AnnounceLimit(l) \/ (\E n \in Limits : SetLimit(l, n))
                \/ AnnounceResume(l)
         \/ PauseUploads \/ PauseProcessing \/ Snapshot \/ Schedule
         \/ GiveUpProcessing \/ GiveUpUploads
<1>1. \A u \in Uploads : Upload(u) \in Slots
  BY DEF Upload, Slots
<1>2. \A x \in Jobs : Worker(x) \in Slots
  BY DEF Worker, Slots
<1>3. Uploads \subseteq Jobs /\ Previews \subseteq Jobs
  BY DEF Jobs
<1> QED
  BY <1>1, <1>2, <1>3, Zenon
     DEF Next, Task, Configure, Update, StartScan, EndUpload, Cancel, EndWorker

LEMMA SlotsAreFinite == IsFiniteSet(Slots)
<1>1. IsFiniteSet({"upload"}) /\ IsFiniteSet({"processing"})
  BY FS_Singleton
<1>2. IsFiniteSet(Uploads) /\ IsFiniteSet(Jobs)
  BY TasksAssumption, FS_Union DEF Jobs
<1>3. IsFiniteSet({"upload"} \X Uploads) /\ IsFiniteSet({"processing"} \X Jobs)
  BY <1>1, <1>2, FS_Product
<1> QED
  BY <1>3, FS_Union DEF Slots

LEMMA HoldersAreFinite == \A l \in Limiters : IsFiniteSet(Holders(l))
BY SlotsAreFinite, FS_Subset DEF Holders

(* A slot names its limiter, and is not the updater's. *)
LEMMA SlotShape ==
  /\ Slots \subseteq Waiters
  /\ \A w \in Slots : w[1] \in Limiters /\ w[2] # Updater
  /\ \A l \in Limiters :
       /\ Draining(l) \in Waiters \ Slots
       /\ Draining(l)[1] = l /\ Draining(l)[2] = Updater
  /\ \A w \in Waiters \ Slots : \E l \in Limiters : w = Draining(l)
  /\ \A w \in Waiters : w[1] \in Limiters
BY TasksAssumption DEF Slots, Waiters, Limiters, Draining, Jobs

----------------------------------------------------------------------------
(* How the number of permits follows a task that moves. *)
LEMMA CountsFollowMoves ==
  ASSUME TypeOK, PermitsCounted, NEW w \in Waiters, NEW there \in Stages,
         Moves(w, there)
  PROVE  /\ (w \notin Slots \/ (stage[w] = "in" <=> there = "in"))
              => \A l \in Limiters : Cardinality(Holders(l))' = active[l]
         /\ (w \in Slots /\ stage[w] # "in" /\ there = "in")
              => \A l \in Limiters : Cardinality(Holders(l))' =
                   IF l = w[1] THEN active[l] + 1 ELSE active[l]
         /\ (w \in Slots /\ stage[w] = "in" /\ there # "in")
              => \A l \in Limiters : Cardinality(Holders(l))' =
                   IF l = w[1] THEN active[l] - 1 ELSE active[l]
<1> USE DEF Moves
<1>1. \A v \in Waiters : stage'[v] = IF v = w THEN there ELSE stage[v]
  BY DEF TypeOK
<1>2. Slots \subseteq Waiters
  BY SlotShape
<1>3. ASSUME w \notin Slots \/ (stage[w] = "in" <=> there = "in"),
             NEW l \in Limiters
      PROVE  Cardinality(Holders(l))' = active[l]
  <2>1. Holders(l)' = Holders(l)
    BY <1>1, <1>2, <1>3 DEF Holders
  <2> QED
    BY <2>1 DEF PermitsCounted
<1>4. ASSUME w \in Slots, stage[w] # "in", there = "in", NEW l \in Limiters
      PROVE  Cardinality(Holders(l))' =
               IF l = w[1] THEN active[l] + 1 ELSE active[l]
  <2>1. Holders(l)' = IF l = w[1] THEN Holders(l) \cup {w} ELSE Holders(l)
    BY <1>1, <1>2, <1>4 DEF Holders
  <2>2. w \notin Holders(l)
    BY <1>4 DEF Holders
  <2>3. Cardinality(Holders(l) \cup {w}) = Cardinality(Holders(l)) + 1
    BY <2>2, HoldersAreFinite, FS_AddElement
  <2> QED
    BY <2>1, <2>3 DEF PermitsCounted
<1>5. ASSUME w \in Slots, stage[w] = "in", there # "in", NEW l \in Limiters
      PROVE  Cardinality(Holders(l))' =
               IF l = w[1] THEN active[l] - 1 ELSE active[l]
  <2>1. Holders(l)' = IF l = w[1] THEN Holders(l) \ {w} ELSE Holders(l)
    BY <1>1, <1>2, <1>5 DEF Holders
  <2>2. l = w[1] => w \in Holders(l)
    BY <1>5 DEF Holders
  <2>3. l = w[1] =>
          Cardinality(Holders(l) \ {w}) = Cardinality(Holders(l)) - 1
    BY <2>2, HoldersAreFinite, FS_RemoveElement
  <2> QED
    BY <2>1, <2>3 DEF PermitsCounted
<1> QED
  BY <1>3, <1>4, <1>5, Zenon

(* A task that holds a permit is counted; without permits nobody holds one. *)
LEMMA HoldersCount ==
  ASSUME TypeOK, PermitsCounted
  PROVE  \A w \in Slots : stage[w] = "in" => active[w[1]] > 0
<1> SUFFICES ASSUME NEW w \in Slots, stage[w] = "in", active[w[1]] = 0
             PROVE  FALSE
  BY SlotShape DEF TypeOK
<1>1. w \in Holders(w[1])
  BY DEF Holders
<1>2. Holders(w[1]) = {}
  BY SlotShape, HoldersAreFinite, FS_EmptySet DEF PermitsCounted
<1> QED
  BY <1>1, <1>2

----------------------------------------------------------------------------
LEMMA DrainInit == Init => DrainInv
<1> SUFFICES ASSUME Init PROVE DrainInv
  OBVIOUS
<1>1. TypeOK
  BY LimitsAssumption, BoundsAssumption DEF Init, TypeOK, Stages, Phases
<1>2. PermitsCounted
  <2> SUFFICES ASSUME NEW l \in Limiters PROVE active[l] = Cardinality(Holders(l))
    BY DEF PermitsCounted
  <2>1. Holders(l) = {}
    BY SlotShape DEF Holders, Init
  <2> QED
    BY <2>1, FS_EmptySet DEF Init
<1>3. PausesHeld /\ WaitsInPhase /\ Drained
  BY SlotShape DEF Init, PausesHeld, WaitsInPhase, Drained, Limiters
<1> QED
  BY <1>1, <1>2, <1>3 DEF DrainInv

(* A step that leaves the pauses, the updater and the counts alone. *)
LEMMA StageStep ==
  ASSUME DrainInv, NEW w \in Waiters, NEW there \in Stages, Moves(w, there),
         w \notin Slots \/ (stage[w] = "in" <=> there = "in"),
         w \in Slots \/ (stage[w] # "idle" /\ there # "in"),
         woken' \subseteq Waiters,
         UNCHANGED <<countVars, tuned, update, boundVars>>
  PROVE  DrainInv'
<1> USE DEF DrainInv, Moves, countVars, boundVars
<1>1. TypeOK'
  BY DEF TypeOK
<1>2. PermitsCounted'
  BY CountsFollowMoves DEF PermitsCounted
<1>3. \A v \in Waiters : stage'[v] = IF v = w THEN there ELSE stage[v]
  BY DEF TypeOK
<1>4. PausesHeld' /\ WaitsInPhase' /\ Drained'
  BY <1>3, SlotShape DEF PausesHeld, WaitsInPhase, Drained, Limiters
<1> QED
  BY <1>1, <1>2, <1>4

LEMMA CheckStep ==
  ASSUME DrainInv, NEW w \in Waiters, Check(w)
  PROVE  DrainInv'
<1> USE DEF DrainInv, Moves, boundVars
<1>0. /\ \A l \in Limiters : active[l] \in Nat /\ w[1] \in Limiters
      /\ \A there \in Stages : Moves(w, there) =>
           \A v \in Waiters : stage'[v] = IF v = w THEN there ELSE stage[v]
  BY SlotShape DEF TypeOK
<1>1. CASE ~Satisfied(w)
  <2>1. Moves(w, "refused") /\ UNCHANGED <<countVars, woken, tuned, update, boundVars>>
    BY <1>1 DEF Check, countVars
  <2>2. stage[w] = "armed" /\ woken' \subseteq Waiters
    BY <2>1 DEF Check, TypeOK
  <2> QED
    BY <2>1, <2>2, StageStep DEF Stages
<1>2. CASE Satisfied(w) /\ w \notin Slots
  <2>1. PICK l \in Limiters : w = Draining(l)
    BY <1>2, SlotShape
  <2>2. /\ stage[w] = "armed" /\ Moves(w, "in") /\ active[l] = 0
        /\ UNCHANGED <<active, limit, paused, woken, tuned, update, boundVars>>
    BY <1>2, <2>1, SlotShape DEF Check, Satisfied
  <2>3. TypeOK'
    BY <2>2 DEF TypeOK, Stages
  <2>4. PermitsCounted'
    BY <1>2, <2>2, CountsFollowMoves DEF PermitsCounted, Stages
  <2>5. PausesHeld' /\ WaitsInPhase' /\ Drained'
    BY <1>0, <2>1, <2>2, SlotShape
       DEF PausesHeld, WaitsInPhase, Drained, Limiters, Stages
  <2> QED
    BY <2>3, <2>4, <2>5
<1>3. CASE Satisfied(w) /\ w \in Slots
  <2>1. /\ stage[w] = "armed" /\ Moves(w, "in") /\ paused[w[1]] = 0
        /\ active' = Adds(active, w[1], 1)
        /\ UNCHANGED <<limit, paused, woken, tuned, update, boundVars>>
    BY <1>3, SlotShape DEF Check, Satisfied, Admits
  <2>2. \A l \in Limiters :
          active'[l] = IF l = w[1] THEN active[l] + 1 ELSE active[l]
    BY <1>0, <2>1 DEF TypeOK, Adds
  <2>3. TypeOK'
    <3>1. active' \in [Limiters -> Nat]
      <4>1. w[1] \in Limiters /\ active \in [Limiters -> Nat]
        BY SlotShape DEF TypeOK
      <4>2. active[w[1]] + 1 \in Nat
        BY <4>1
      <4> QED
        BY <2>1, <4>1, <4>2 DEF Adds
    <3>2. stage' \in [Waiters -> Stages]
      BY <2>1 DEF TypeOK, Stages
    <3> QED
      BY <2>1, <3>1, <3>2 DEF TypeOK
  <2>4. PermitsCounted'
    BY <1>3, <2>1, <2>2, CountsFollowMoves DEF PermitsCounted, Stages
  <2>5. PausesHeld' /\ WaitsInPhase' /\ Drained'
    BY <1>0, <1>3, <2>1, <2>2, SlotShape
       DEF PausesHeld, WaitsInPhase, Drained, Limiters, Stages
  <2> QED
    BY <2>3, <2>4, <2>5
<1> QED
  BY <1>1, <1>2, <1>3

LEMMA DropStep ==
  ASSUME DrainInv, NEW w \in Slots, DropPermit(w)
  PROVE  DrainInv'
<1> USE DEF DrainInv, Moves, boundVars
<1>1. /\ w \in Waiters /\ w[1] \in Limiters
      /\ active[w[1]] > 0
  BY SlotShape, HoldersCount DEF DropPermit
<1>2. \A l \in Limiters :
        active'[l] = IF l = w[1] THEN active[l] - 1 ELSE active[l]
  BY <1>1 DEF DropPermit, TypeOK, Adds
<1>3. TypeOK'
  BY <1>1 DEF DropPermit, TypeOK, Adds, Stages
<1>4. PermitsCounted'
  BY <1>1, <1>2, CountsFollowMoves DEF DropPermit, PermitsCounted, Stages
<1>5. \A v \in Waiters : stage'[v] = IF v = w THEN "leaving" ELSE stage[v]
  BY DEF DropPermit, TypeOK
<1>6. PausesHeld' /\ WaitsInPhase' /\ Drained'
  BY <1>1, <1>2, <1>5, SlotShape
     DEF DropPermit, PausesHeld, WaitsInPhase, Drained, Limiters, TypeOK
<1> QED
  BY <1>3, <1>4, <1>6

(* A step of the settings, which touches limits and notifications only. *)
LEMMA SettingsStep ==
  ASSUME DrainInv, TypeOK', UNCHANGED <<active, paused, stage, update>>
  PROVE  DrainInv'
BY DEF DrainInv, PermitsCounted, Holders, PausesHeld, WaitsInPhase, Drained,
       Draining

(* A step of the updater: the pause it takes or drops, the wait it begins or *)
(* ends and the phase it enters.                                              *)
LEMMA UpdaterTypes ==
  ASSUME DrainInv, NEW l \in Limiters
  PROVE  /\ Draining(l) \in Waiters
         /\ \A w \in Slots, s \in Stages :
              [stage EXCEPT ![Draining(l)] = s][w] = stage[w]
         /\ paused[l] \in Nat
BY SlotShape DEF DrainInv, TypeOK

LEMMA UpdateStep ==
  ASSUME DrainInv, NEW l \in Limiters,
         \/ PauseUploads \/ PauseProcessing \/ Snapshot \/ Schedule
         \/ GiveUpProcessing \/ GiveUpUploads \/ AnnounceResume(l)
  PROVE  DrainInv'
<1> USE DEF DrainInv, Moves, countVars, boundVars
<1>1. /\ Draining("upload") \in Waiters /\ Draining("processing") \in Waiters
      /\ Draining("upload") # Draining("processing")
      /\ Limiters = {"upload", "processing"}
  BY SlotShape DEF Limiters, Draining
<1>2. CASE PauseUploads
  <2>1. TypeOK'
    BY <1>1, <1>2, BoundsAssumption
       DEF PauseUploads, TypeOK, PausesHeld, Adds, Stages, Phases
  <2>2. PermitsCounted'
    BY <1>1, <1>2, CountsFollowMoves, SlotShape
       DEF PauseUploads, PermitsCounted, Stages
  <2>3. PausesHeld'
    BY <1>1, <1>2 DEF PauseUploads, TypeOK, PausesHeld, Adds
  <2>4. WaitsInPhase' /\ Drained'
    BY <1>1, <1>2 DEF PauseUploads, TypeOK, WaitsInPhase, Drained
  <2> QED
    BY <2>1, <2>2, <2>3, <2>4
<1>3. CASE PauseProcessing
  <2>1. TypeOK'
    BY <1>1, <1>3 DEF PauseProcessing, TypeOK, PausesHeld, Adds, Stages, Phases
  <2>2. PermitsCounted'
    <3>1. \A k \in Limiters : Holders(k)' = Holders(k)
      BY <1>1, <1>3, SlotShape DEF PauseProcessing, Holders, TypeOK
    <3> QED
      BY <1>3, <3>1 DEF PauseProcessing, PermitsCounted
  <2>3. PausesHeld'
    BY <1>1, <1>3 DEF PauseProcessing, TypeOK, PausesHeld, Adds
  <2>4. WaitsInPhase' /\ Drained'
    BY <1>1, <1>3 DEF PauseProcessing, TypeOK, WaitsInPhase, Drained
  <2> QED
    BY <2>1, <2>2, <2>3, <2>4
<1>4. CASE Snapshot
  <2>1. TypeOK'
    BY <1>1, <1>4 DEF Snapshot, TypeOK, Stages, Phases
  <2>2. PermitsCounted'
    BY <1>1, <1>4, CountsFollowMoves, SlotShape
       DEF Snapshot, PermitsCounted, Stages
  <2>3. PausesHeld' /\ WaitsInPhase' /\ Drained'
    BY <1>1, <1>4 DEF Snapshot, TypeOK, PausesHeld, WaitsInPhase, Drained
  <2> QED
    BY <2>1, <2>2, <2>3
<1>5. CASE Schedule
  BY <1>5 DEF Schedule, TypeOK, Phases, PermitsCounted, Holders, PausesHeld,
              WaitsInPhase, Drained, Draining
<1>6. CASE GiveUpProcessing
  <2>1. TypeOK'
    BY <1>1, <1>6
       DEF GiveUpProcessing, DropPause, TypeOK, PausesHeld, Adds, Stages, Phases
  <2>2. PermitsCounted'
    BY <1>1, <1>6, CountsFollowMoves, SlotShape
       DEF GiveUpProcessing, DropPause, PermitsCounted, Stages
  <2>3. PausesHeld' /\ WaitsInPhase' /\ Drained'
    BY <1>1, <1>6
       DEF GiveUpProcessing, DropPause, TypeOK, PausesHeld, WaitsInPhase,
           Drained, Adds
  <2> QED
    BY <2>1, <2>2, <2>3
<1>7. CASE GiveUpUploads
  <2>1. TypeOK'
    BY <1>1, <1>7
       DEF GiveUpUploads, DropPause, TypeOK, PausesHeld, Adds, Stages, Phases
  <2>2. PermitsCounted'
    BY <1>1, <1>7, CountsFollowMoves, SlotShape
       DEF GiveUpUploads, DropPause, PermitsCounted, Stages
  <2>3. PausesHeld' /\ WaitsInPhase' /\ Drained'
    BY <1>1, <1>7
       DEF GiveUpUploads, DropPause, TypeOK, PausesHeld, WaitsInPhase,
           Drained, Adds
  <2> QED
    BY <2>1, <2>2, <2>3
<1>8. CASE AnnounceResume(l)
  <2>1. TypeOK'
    BY <1>8 DEF AnnounceResume, NotifyWaiters, Registered, TypeOK, Phases
  <2>2. PermitsCounted'
    BY <1>8 DEF AnnounceResume, PermitsCounted, Holders
  <2>3. PausesHeld' /\ WaitsInPhase' /\ Drained'
    BY <1>1, <1>8
       DEF AnnounceResume, Wakes, PausesHeld, WaitsInPhase, Drained, Draining
  <2> QED
    BY <2>1, <2>2, <2>3
<1> QED
  BY <1>2, <1>3, <1>4, <1>5, <1>6, <1>7, <1>8

LEMMA DrainNext == DrainInv /\ [Next]_vars => DrainInv'
<1> SUFFICES ASSUME DrainInv, [Next]_vars PROVE DrainInv'
  OBVIOUS
<1>1. ASSUME NEW w \in Waiters, Register(w) \/ Sleep(w) PROVE DrainInv'
  BY <1>1, StageStep DEF Register, Sleep, Stages, DrainInv, TypeOK
<1>2. ASSUME NEW w \in Waiters, Check(w) PROVE DrainInv'
  BY <1>2, CheckStep
<1>3. ASSUME NEW w \in Slots, AnnounceDrop(w) \/ Arrive(w) \/ Withdraw(w)
      PROVE  DrainInv'
  <2>1. w \in Waiters
    BY SlotShape
  <2>2. stage[w] # "in"
    BY <1>3 DEF AnnounceDrop, Arrive, Withdraw, Waiting
  <2>3. CASE AnnounceDrop(w)
    <3>1. Moves(w, "gone") /\ woken' \subseteq Waiters
      BY <2>3 DEF AnnounceDrop, NotifyWaiters, Registered, DrainInv, TypeOK
    <3> QED
      BY <2>1, <2>2, <2>3, <3>1, StageStep DEF AnnounceDrop, Stages
  <2>4. CASE Arrive(w)
    BY <2>1, <2>2, <2>4, StageStep DEF Arrive, Stages, DrainInv, TypeOK
  <2>5. CASE Withdraw(w)
    BY <2>1, <2>2, <2>5, StageStep DEF Withdraw, Stages, DrainInv, TypeOK
  <2> QED
    BY <1>3, <2>3, <2>4, <2>5
<1>4. ASSUME NEW w \in Slots, DropPermit(w) PROVE DrainInv'
  BY <1>4, DropStep
<1>5. ASSUME NEW l \in Limiters, AnnounceLimit(l) PROVE DrainInv'
  <2>1. TypeOK'
    BY <1>5 DEF AnnounceLimit, NotifyWaiters, Registered, DrainInv, TypeOK,
                Adds, countVars, boundVars
  <2> QED
    BY <1>5, <2>1, SettingsStep DEF AnnounceLimit, countVars
<1>6. ASSUME NEW l \in Limiters, NEW n \in Limits, SetLimit(l, n)
      PROVE  DrainInv'
  <2>1. TypeOK'
    BY <1>6, LimitsAssumption, BoundsAssumption
       DEF SetLimit, DrainInv, TypeOK, Adds
  <2> QED
    BY <1>6, <2>1, SettingsStep DEF SetLimit
<1>7. ASSUME \/ PauseUploads \/ PauseProcessing \/ Snapshot \/ Schedule
             \/ GiveUpProcessing \/ GiveUpUploads
      PROVE  DrainInv'
  <2>1. "upload" \in Limiters
    BY DEF Limiters
  <2> QED
    BY <1>7, <2>1, UpdateStep
<1>8. ASSUME NEW l \in Limiters, AnnounceResume(l) PROVE DrainInv'
  BY <1>8, UpdateStep
<1>9. CASE UNCHANGED vars
  BY <1>9 DEF vars, DrainInv, TypeOK, PermitsCounted, Holders, PausesHeld,
              WaitsInPhase, Drained, Draining
<1> QED
  BY Steps, <1>1, <1>2, <1>3, <1>4, <1>5, <1>6, <1>7, <1>8, <1>9, Zenon

LEMMA DrainInvariant == Spec => []DrainInv
BY DrainInit, DrainNext, PTL DEF Spec

----------------------------------------------------------------------------
(* The counts of both limiters stay natural numbers (a count that went below *)
(* zero would wrap round in Limiter), and every task is where its code can be.*)
THEOREM TypeCorrect == Spec => []TypeOK
BY DrainInvariant, PTL DEF DrainInv

(* No cancellation, change of limits or abandoned update leaks a permit or   *)
(* returns one twice (Limiter::acquire, Drop for Permit).                     *)
THEOREM PermitsNeverLeak == Spec => []PermitsCounted
BY DrainInvariant, PTL DEF DrainInv

(* When prepare_update takes its snapshot, and from then until the process   *)
(* exits, no upload is in flight and no worker decodes.                       *)
THEOREM DrainIsComplete == Spec => []SnapshotIsQuiet
<1>1. DrainInv => SnapshotIsQuiet
  BY HoldersCount, SlotShape DEF DrainInv, Drained, SnapshotIsQuiet, Limiters
<1> QED
  BY <1>1, DrainInvariant, PTL

(* prepare_update never waits for an upload that waits for it. *)
THEOREM DrainDoesNotDeadlock == Spec => []UploadsCanFinish
<1>1. DrainInv => UploadsCanFinish
  <2> SUFFICES ASSUME DrainInv, NEW u \in Uploads, stage[Upload(u)] = "in"
               PROVE  paused["processing"] = 0
    BY DEF UploadsCanFinish
  <2>1. Upload(u) \in Slots /\ Upload(u)[1] = "upload"
    BY DEF Upload, Slots
  <2>2. active["upload"] > 0
    BY <2>1, HoldersCount DEF DrainInv
  <2> QED
    BY <2>2 DEF DrainInv, Drained, PausesHeld
<1> QED
  BY <1>1, DrainInvariant, PTL

----------------------------------------------------------------------------
(* A step that notifies nobody and leaves the counts alone: a waiter that     *)
(* should be woken was already waiting, and who was about to notify still is. *)
LEMMA QuietStep ==
  ASSUME TypeOK, WakeInv, NEW w \in Waiters, NEW there \in Stages,
         Moves(w, there), stage[w] # "leaving",
         there \notin {"refused", "asleep"} \/ stage[w] = "refused",
         woken \ {w} \subseteq woken',
         there \notin {"refused", "asleep"} \/ woken' = woken,
         UNCHANGED <<countVars, tuned, update>>
  PROVE  WakeInv'
<1> SUFFICES ASSUME NEW v \in Waiters, stage'[v] \in {"refused", "asleep"},
                    v \notin woken', Satisfied(v)'
             PROVE  AboutToNotify(v[1])'
  BY DEF WakeInv
<1>1. \A x \in Waiters : stage'[x] = IF x = w THEN there ELSE stage[x]
  BY DEF Moves, TypeOK
<1>2. Satisfied(v)
  BY DEF Satisfied, Admits, countVars
<1>3. stage[v] \in {"refused", "asleep"} /\ v \notin woken
  BY <1>1
<1>4. AboutToNotify(v[1])
  BY <1>2, <1>3 DEF WakeInv
<1> QED
  BY <1>1, <1>4, SlotShape DEF AboutToNotify

(* A step that notifies the waiters of l wakes all of them that sleep. *)
LEMMA NotifyStep ==
  ASSUME TypeOK, WakeInv, NEW l \in Limiters, NotifyWaiters(l),
         UNCHANGED countVars,
         \A w \in Waiters : stage'[w] \in {"refused", "asleep"}
           => stage'[w] = stage[w],
         \A k \in Limiters : (k # l /\ AboutToNotify(k)) => AboutToNotify(k)'
  PROVE  WakeInv'
<1> SUFFICES ASSUME NEW v \in Waiters, stage'[v] \in {"refused", "asleep"},
                    v \notin woken', Satisfied(v)'
             PROVE  AboutToNotify(v[1])'
  BY DEF WakeInv
<1>1. Satisfied(v) /\ stage[v] \in {"refused", "asleep"} /\ v \notin woken
  BY DEF Satisfied, Admits, countVars, NotifyWaiters
<1>2. v[1] # l
  BY <1>1 DEF NotifyWaiters, Registered
<1>3. AboutToNotify(v[1])
  BY <1>1 DEF WakeInv
<1> QED
  BY <1>2, <1>3, SlotShape

(* A step that changes the counts of l only, and if it makes room leaves a    *)
(* thread that is about to notify l.                                          *)
LEMMA CountStep ==
  ASSUME TypeOK, WakeInv, NEW l \in Limiters,
         \A w \in Waiters : stage'[w] \in {"refused", "asleep"} =>
           \/ stage'[w] = stage[w] /\ (w \notin woken' => w \notin woken)
           \/ ~Satisfied(w)',
         \A w \in Waiters : w[1] # l => (Satisfied(w)' => Satisfied(w)),
         \A k \in Limiters : (k # l /\ AboutToNotify(k)) => AboutToNotify(k)',
         \/ AboutToNotify(l)'
         \/ /\ AboutToNotify(l) => AboutToNotify(l)'
            /\ \A w \in Waiters : w[1] = l => (Satisfied(w)' => Satisfied(w))
  PROVE  WakeInv'
<1> SUFFICES ASSUME NEW v \in Waiters, stage'[v] \in {"refused", "asleep"},
                    v \notin woken', Satisfied(v)', ~AboutToNotify(v[1])'
             PROVE  FALSE
  BY DEF WakeInv
<1>1. v[1] \in Limiters
  BY SlotShape
<1>2. Satisfied(v) /\ stage[v] \in {"refused", "asleep"} /\ v \notin woken
  OBVIOUS
<1>3. AboutToNotify(v[1])
  BY <1>2 DEF WakeInv
<1> QED
  BY <1>1, <1>3

LEMMA WakeCheck ==
  ASSUME TypeOK, WakeInv, NEW w \in Waiters, Check(w)
  PROVE  WakeInv'
<1>1. w[1] \in Limiters /\ \A l \in Limiters : active[l] \in Nat /\ limit[l] \in Nat
  BY SlotShape DEF TypeOK
<1>2. \E there \in {"in", "refused"} : \A x \in Waiters :
         stage'[x] = IF x = w THEN there ELSE stage[x]
  BY DEF Check, Moves, TypeOK
<1>3. \A l \in Limiters : active'[l] \in Nat /\ active'[l] >= active[l]
  <2>1. active' = active \/ active' = Adds(active, w[1], 1)
    BY DEF Check
  <2>2. \A l \in Limiters : Adds(active, w[1], 1)[l] =
                              IF l = w[1] THEN active[l] + 1 ELSE active[l]
    BY DEF Adds, TypeOK
  <2>3. \A l \in Limiters :
          active'[l] = active[l] \/ active'[l] = active[l] + 1
    BY <2>1, <2>2, Zenon
  <2> QED
    BY <1>1, <2>3
<1>4. \A l \in Limiters : AboutToNotify(l) => AboutToNotify(l)'
  <2>1. \A x \in Waiters : stage[x] = "leaving" => stage'[x] = "leaving"
    BY <1>2 DEF Check
  <2> QED
    BY <2>1, SlotShape DEF AboutToNotify, Check
<1>5. \A x \in Waiters : Satisfied(x)' => Satisfied(x)
  <2> SUFFICES ASSUME NEW x \in Waiters, Satisfied(x)' PROVE Satisfied(x)
    OBVIOUS
  <2>1. x[1] \in Limiters
    BY SlotShape
  <2> QED
    BY <1>1, <1>3, <2>1 DEF Satisfied, Admits, Check
<1>6. stage'[w] \in {"refused", "asleep"} => ~Satisfied(w)'
  BY <1>2, <1>5 DEF Check, Moves, TypeOK
<1> QED
  BY <1>1, <1>2, <1>4, <1>5, <1>6, CountStep DEF Check

LEMMA WakeDrop ==
  ASSUME TypeOK, WakeInv, NEW w \in Slots, DropPermit(w)
  PROVE  WakeInv'
<1>1. w \in Waiters /\ w[1] \in Limiters
  BY SlotShape
<1>2. \A x \in Waiters : stage'[x] = IF x = w THEN "leaving" ELSE stage[x]
  BY DEF DropPermit, Moves, TypeOK
<1>3. AboutToNotify(w[1])'
  BY <1>1, <1>2 DEF AboutToNotify
<1>4. \A x \in Waiters : x[1] # w[1] => (Satisfied(x)' => Satisfied(x))
  BY <1>1, SlotShape DEF DropPermit, Satisfied, Admits, Adds, TypeOK
<1>5. \A k \in Limiters : AboutToNotify(k) => AboutToNotify(k)'
  BY <1>2, SlotShape DEF AboutToNotify, DropPermit
<1> QED
  BY <1>1, <1>2, <1>3, <1>4, <1>5, CountStep DEF DropPermit

LEMMA WakeSetLimit ==
  ASSUME TypeOK, WakeInv, NEW l \in Limiters, NEW n \in Limits, SetLimit(l, n)
  PROVE  WakeInv'
<1>1. tuned'[l] > 0 /\ \A k \in Limiters : tuned[k] > 0 => tuned'[k] > 0
  BY DEF SetLimit, Adds, TypeOK
<1>2. \A k \in Limiters : AboutToNotify(k) => AboutToNotify(k)'
  BY <1>1 DEF AboutToNotify, SetLimit
<1>3. AboutToNotify(l)'
  BY <1>1 DEF AboutToNotify
<1>4. \A x \in Waiters : x[1] # l => (Satisfied(x)' => Satisfied(x))
  BY SlotShape DEF SetLimit, Satisfied, Admits, TypeOK
<1> QED
  BY <1>2, <1>3, <1>4, CountStep DEF SetLimit

(* A pause that is taken makes no room. *)
LEMMA WakePause ==
  ASSUME DrainInv, WakeInv, PauseUploads \/ PauseProcessing
  PROVE  WakeInv'
<1>1. PICK l \in Limiters : paused' = Adds(paused, l, 1)
  BY DEF PauseUploads, PauseProcessing, Limiters
<1>2. \A k \in Limiters : paused[k] \in Nat /\ (paused'[k] = 0 => paused[k] = 0)
  BY <1>1 DEF DrainInv, TypeOK, Adds
<1>3. \A x \in Waiters : Satisfied(x)' => Satisfied(x)
  BY <1>2, SlotShape DEF Satisfied, Admits, PauseUploads, PauseProcessing
<1>4. \A x \in Waiters : \/ stage'[x] = stage[x]
                         \/ stage'[x] \in {"idle", "ready"} /\ x \notin Slots
  BY SlotShape DEF PauseUploads, PauseProcessing, Moves, DrainInv, TypeOK, Limiters
<1>5. \A k \in Limiters : AboutToNotify(k) => AboutToNotify(k)'
  <2>1. update \in {"off", "uploads"}
    BY DEF PauseUploads, PauseProcessing
  <2>2. \A k \in Limiters : update # Wakes[k]
    BY <2>1 DEF Wakes, Limiters
  <2>3. \A x \in Slots : stage[x] = "leaving" => stage'[x] = "leaving"
    BY <1>4, SlotShape
  <2> QED
    BY <2>2, <2>3 DEF AboutToNotify, PauseUploads, PauseProcessing
<1> QED
  BY <1>1, <1>3, <1>4, <1>5, CountStep
     DEF DrainInv, PauseUploads, PauseProcessing

(* A pause that is dropped leaves the updater about to notify. *)
LEMMA WakeGiveUp ==
  ASSUME DrainInv, WakeInv, NEW l \in Limiters, DropPause(l),
         update' = Wakes[l], \A k \in Limiters : update # Wakes[k]
  PROVE  WakeInv'
<1>1. \A x \in Waiters :
        stage'[x] = IF x = Draining(l) THEN "idle" ELSE stage[x]
  BY DEF DropPause, Moves, DrainInv, TypeOK
<1>2. \A k \in Limiters : AboutToNotify(k) => AboutToNotify(k)'
  BY <1>1, SlotShape DEF AboutToNotify, DropPause
<1>3. AboutToNotify(l)'
  BY DEF AboutToNotify
<1>4. \A x \in Waiters : x[1] # l => (Satisfied(x)' => Satisfied(x))
  BY SlotShape DEF DropPause, Satisfied, Admits, Adds, DrainInv, TypeOK
<1> QED
  BY <1>1, <1>2, <1>3, <1>4, CountStep DEF DropPause, DrainInv

LEMMA WakeNext == DrainInv /\ WakeInv /\ [Next]_vars => WakeInv'
<1> SUFFICES ASSUME DrainInv, WakeInv, [Next]_vars PROVE WakeInv'
  OBVIOUS
<1>0. TypeOK
  BY DEF DrainInv
<1>1. ASSUME NEW w \in Waiters, Register(w) \/ Sleep(w) PROVE WakeInv'
  BY <1>0, <1>1, QuietStep DEF Register, Sleep, Stages
<1>2. ASSUME NEW w \in Waiters, Check(w) PROVE WakeInv'
  BY <1>0, <1>2, WakeCheck
<1>3. ASSUME NEW w \in Slots, AnnounceDrop(w) PROVE WakeInv'
  <2>1. w \in Waiters /\ w[1] \in Limiters
    BY SlotShape
  <2>2. \A x \in Waiters : stage'[x] = IF x = w THEN "gone" ELSE stage[x]
    BY <1>0, <1>3 DEF AnnounceDrop, Moves, TypeOK
  <2>3. \A k \in Limiters :
          (k # w[1] /\ AboutToNotify(k)) => AboutToNotify(k)'
    BY <1>3, <2>2, SlotShape DEF AboutToNotify, AnnounceDrop
  <2> QED
    BY <1>0, <1>3, <2>1, <2>2, <2>3, NotifyStep DEF AnnounceDrop
<1>4. ASSUME NEW w \in Slots, Arrive(w) \/ Withdraw(w) PROVE WakeInv'
  <2>1. w \in Waiters
    BY SlotShape
  <2> QED
    BY <1>0, <1>4, <2>1, QuietStep DEF Arrive, Withdraw, Waiting, Stages
<1>5. ASSUME NEW w \in Slots, DropPermit(w) PROVE WakeInv'
  BY <1>0, <1>5, WakeDrop
<1>6. ASSUME NEW l \in Limiters, AnnounceLimit(l) PROVE WakeInv'
  <2>1. \A k \in Limiters : k # l => tuned'[k] = tuned[k]
    BY <1>0, <1>6 DEF AnnounceLimit, Adds, TypeOK
  <2>2. \A k \in Limiters : (k # l /\ AboutToNotify(k)) => AboutToNotify(k)'
    BY <1>6, <2>1 DEF AnnounceLimit, AboutToNotify
  <2> QED
    BY <1>0, <1>6, <2>2, NotifyStep DEF AnnounceLimit
<1>7. ASSUME NEW l \in Limiters, NEW n \in Limits, SetLimit(l, n)
      PROVE  WakeInv'
  BY <1>0, <1>7, WakeSetLimit
<1>8. ASSUME NEW l \in Limiters, AnnounceResume(l) PROVE WakeInv'
  <2>1. \A k \in Limiters : k # l => update # Wakes[k]
    BY <1>8 DEF AnnounceResume, Wakes, Limiters
  <2>2. \A k \in Limiters : (k # l /\ AboutToNotify(k)) => AboutToNotify(k)'
    BY <1>8, <2>1 DEF AnnounceResume, AboutToNotify
  <2> QED
    BY <1>0, <1>8, <2>2, NotifyStep DEF AnnounceResume
<1>9. ASSUME PauseUploads \/ PauseProcessing PROVE WakeInv'
  BY <1>9, WakePause
<1>10. ASSUME Snapshot PROVE WakeInv'
  <2>1. Draining("processing") \in Waiters \ Slots
    BY SlotShape DEF Limiters
  <2>2. \A x \in Waiters :
          stage'[x] = IF x = Draining("processing") THEN "idle" ELSE stage[x]
    BY <1>0, <1>10 DEF Snapshot, Moves, TypeOK
  <2>3. \A k \in Limiters : AboutToNotify(k) => AboutToNotify(k)'
    BY <1>10, <2>1, <2>2, SlotShape DEF Snapshot, AboutToNotify, Wakes, Limiters
  <2>4. \A x \in Waiters : Satisfied(x)' => Satisfied(x)
    BY <1>10 DEF Snapshot, Satisfied, Admits, countVars
  <2> QED
    BY <1>0, <1>10, <2>1, <2>2, <2>3, <2>4, CountStep DEF Snapshot, Limiters
<1>11. ASSUME Schedule PROVE WakeInv'
  BY <1>11
     DEF Schedule, WakeInv, AboutToNotify, Satisfied, Admits, countVars, Wakes,
         Waiters, Slots, Limiters
<1>12. ASSUME GiveUpProcessing PROVE WakeInv'
  BY <1>12, WakeGiveUp DEF GiveUpProcessing, Wakes, Limiters
<1>13. ASSUME GiveUpUploads PROVE WakeInv'
  BY <1>13, WakeGiveUp DEF GiveUpUploads, Wakes, Limiters
<1>14. CASE UNCHANGED vars
  BY <1>14 DEF vars, WakeInv, AboutToNotify, Satisfied, Admits
<1> QED
  BY Steps, <1>1, <1>2, <1>3, <1>4, <1>5, <1>6, <1>7, <1>8, <1>9, <1>10,
     <1>11, <1>12, <1>13, <1>14, Zenon

(* Nobody sleeps through its chance: acquire and idle register for the next   *)
(* notification before they read the counts, and whoever changes the counts   *)
(* notifies afterwards.                                                        *)
THEOREM NobodyOversleeps == Spec => []NoLostWakeup
<1>1. Init => WakeInv
  BY DEF Init, WakeInv
<1>2. WakeInv => NoLostWakeup
  BY DEF WakeInv, NoLostWakeup
<1> QED
  BY <1>1, <1>2, WakeNext, DrainInvariant, PTL DEF Spec
----------------------------------------------------------------------------
(* The limiters implement the gate: a check that succeeds is Enter, the      *)
(* return of a permit is Leave, a pause is Close, the snapshot is Freeze and  *)
(* a pause that is dropped is Open; every other step leaves the gate alone.   *)
Inside == {w \in Slots : stage[w] = "in"}
Closed == {l \in Limiters : paused[l] > 0}
Frozen == update \in {"archiving", "restarting"}

(* Which gates are closed in which phase. *)
LEMMA ClosedInPhase ==
  ASSUME DrainInv
  PROVE  /\ update \in {"off", "wakeUploads"} => Closed = {}
         /\ update \in {"uploads", "wakeProcessing", "resumeUploads"} =>
              Closed = {"upload"}
         /\ update \in {"processing", "archiving", "restarting"} =>
              Closed = Limiters
<1>1. /\ paused["upload"] = 1 \/ paused["upload"] = 0
      /\ paused["processing"] = 1 \/ paused["processing"] = 0
  BY DEF DrainInv, PausesHeld
<1>2. "upload" \in Closed <=> paused["upload"] = 1
  BY <1>1 DEF Closed, Limiters
<1>3. "processing" \in Closed <=> paused["processing"] = 1
  BY <1>1 DEF Closed, Limiters
<1>4. Closed \subseteq {"upload", "processing"}
  BY DEF Closed, Limiters
<1>5. CASE update \in {"off", "wakeUploads"}
  <2>1. paused["upload"] = 0 /\ paused["processing"] = 0
    BY <1>5 DEF DrainInv, PausesHeld
  <2> QED
    BY <1>2, <1>3, <1>4, <1>5, <2>1
<1>6. CASE update \in {"uploads", "wakeProcessing", "resumeUploads"}
  <2>1. paused["upload"] = 1 /\ paused["processing"] = 0
    BY <1>6 DEF DrainInv, PausesHeld
  <2>2. "upload" \in Closed /\ "processing" \notin Closed
    BY <1>2, <1>3, <2>1
  <2> QED
    BY <1>4, <1>6, <2>2
<1>7. CASE update \in {"processing", "archiving", "restarting"}
  <2>1. paused["upload"] = 1 /\ paused["processing"] = 1
    BY <1>7 DEF DrainInv, PausesHeld
  <2> QED
    BY <1>2, <1>3, <1>4, <1>7, <2>1 DEF Limiters
<1> QED
  BY <1>5, <1>6, <1>7

(* A pause closes its gate, and the last one dropped opens it. *)
LEMMA PauseCloses ==
  ASSUME TypeOK, NEW l \in Limiters, paused' = Adds(paused, l, 1)
  PROVE  Closed' = Closed \cup {l}
<1>1. \A k \in Limiters : paused[k] \in Nat
  BY DEF TypeOK
<1>2. \A k \in Limiters : paused'[k] = IF k = l THEN paused[k] + 1 ELSE paused[k]
  BY DEF Adds, TypeOK
<1>3. \A k \in Limiters : paused'[k] > 0 <=> paused[k] > 0 \/ k = l
  BY <1>1, <1>2
<1> QED
  BY <1>3 DEF Closed

LEMMA DropPauseOpens ==
  ASSUME TypeOK, NEW l \in Limiters, paused[l] = 1,
         paused' = Adds(paused, l, -1)
  PROVE  Closed' = Closed \ {l}
<1>1. \A k \in Limiters : paused[k] \in Nat
  BY DEF TypeOK
<1>2. \A k \in Limiters : paused'[k] = IF k = l THEN 0 ELSE paused[k]
  BY DEF Adds, TypeOK
<1>3. \A k \in Limiters : paused'[k] > 0 <=> paused[k] > 0 /\ k # l
  BY <1>1, <1>2
<1> QED
  BY <1>3 DEF Closed

LEMMA SameCardinality ==
  ASSUME NEW S
  PROVE  Gates!Cardinality(S) = Cardinality(S)
BY DEF Gates!Cardinality, Cardinality

(* Who holds a permit of a limiter is who is in through its gate. *)
LEMMA OfIsHolders ==
  ASSUME DrainInv, NEW l \in Limiters
  PROVE  /\ Gates!Of(l) = Holders(l)
         /\ active[l] = Gates!Cardinality(Gates!Of(l))
         /\ active[l] = 0 => Gates!Of(l) = {}
<1>1. Gates!Of(l) = Holders(l)
  BY DEF Gates!Of, Holders
<1>2. active[l] = Cardinality(Holders(l))
  BY DEF DrainInv, PermitsCounted
<1>3. Cardinality(Holders(l)) = 0 => Holders(l) = {}
  BY HoldersAreFinite, FS_EmptySet
<1> QED
  BY <1>1, <1>2, <1>3, SameCardinality

LEMMA GateUnchanged ==
  ASSUME limit' = limit, paused' = paused, Inside' = Inside, Frozen' = Frozen
  PROVE  UNCHANGED Gates!gateVars
BY DEF Gates!gateVars, Inside, Frozen

LEMMA InsideFollowsMoves ==
  ASSUME TypeOK, NEW w \in Waiters, NEW there \in Stages, Moves(w, there)
  PROVE  /\ (w \notin Slots \/ (stage[w] = "in" <=> there = "in"))
              => Inside' = Inside
         /\ (w \in Slots /\ there = "in") => Inside' = Inside \cup {w}
         /\ (w \in Slots /\ there # "in") => Inside' = Inside \ {w}
<1>1. \A v \in Waiters : stage'[v] = IF v = w THEN there ELSE stage[v]
  BY DEF TypeOK, Moves
<1>2. Slots \subseteq Waiters
  BY SlotShape
<1> QED
  BY <1>1, <1>2 DEF Inside

LEMMA CheckIsEnter ==
  ASSUME DrainInv, NEW w \in Waiters, Check(w)
  PROVE  Gates!Next \/ UNCHANGED Gates!gateVars
<1>1. TypeOK /\ UNCHANGED <<limit, paused, update>>
  BY DEF DrainInv, Check
<1>2. Frozen' = Frozen
  BY <1>1 DEF Frozen
<1>3. stage[w] = "armed"
  BY DEF Check
<1>4. CASE ~Satisfied(w)
  <2>1. Moves(w, "refused")
    BY <1>4 DEF Check
  <2>2. Inside' = Inside
    BY <1>1, <1>3, <2>1, InsideFollowsMoves DEF Stages
  <2> QED
    BY <1>1, <1>2, <2>2, GateUnchanged
<1>5. CASE Satisfied(w) /\ w \notin Slots
  <2>1. Moves(w, "in")
    BY <1>5 DEF Check
  <2>2. Inside' = Inside
    BY <1>1, <1>5, <2>1, InsideFollowsMoves DEF Stages
  <2> QED
    BY <1>1, <1>2, <2>2, GateUnchanged
<1>6. CASE Satisfied(w) /\ w \in Slots
  <2>1. Moves(w, "in")
    BY <1>6 DEF Check
  <2>2. Inside' = Inside \cup {w}
    BY <1>1, <1>6, <2>1, InsideFollowsMoves DEF Stages
  <2>3. w[1] \in Limiters /\ w[2] # Updater
    BY <1>6, SlotShape
  <2>4. paused[w[1]] = 0 /\ (limit[w[1]] = 0 \/ active[w[1]] < limit[w[1]])
    BY <1>6, <2>3 DEF Satisfied, Admits
  <2>5. active[w[1]] = Gates!Cardinality(Gates!Of(w[1]))
    BY <2>3, OfIsHolders
  <2>6. w \notin Inside
    BY <1>3 DEF Inside
  <2>7. w[1] \notin Closed
    BY <2>4 DEF Closed
  <2>8. Gates!Enter(w)
    BY <1>1, <1>2, <2>2, <2>4, <2>5, <2>6, <2>7
    DEF Gates!Enter, Inside, Closed, Frozen
  <2> QED
    BY <1>6, <2>8 DEF Gates!Next
<1> QED
  BY <1>4, <1>5, <1>6

LEMMA MoveOutside ==
  ASSUME DrainInv, NEW w \in Waiters, NEW there \in Stages, Moves(w, there),
         w \notin Slots \/ (stage[w] # "in" /\ there # "in"),
         limit' = limit, paused' = paused, Frozen' = Frozen
  PROVE  UNCHANGED Gates!gateVars
BY InsideFollowsMoves, GateUnchanged DEF DrainInv

LEMMA TaskIsGate ==
  ASSUME DrainInv, NEW w \in Waiters,
         \/ Register(w) \/ Check(w) \/ Sleep(w)
         \/ w \in Slots /\ (\/ AnnounceDrop(w) \/ Arrive(w) \/ DropPermit(w)
                            \/ Withdraw(w))
  PROVE  Gates!Next \/ UNCHANGED Gates!gateVars
<1>1. CASE Check(w)
  BY <1>1, CheckIsEnter
<1>2. CASE w \in Slots /\ DropPermit(w)
  <2>1. /\ stage[w] = "in" /\ Moves(w, "leaving")
        /\ limit' = limit /\ paused' = paused /\ update' = update
    BY <1>2 DEF DropPermit
  <2>2. Inside' = Inside \ {w} /\ w \in Inside
    BY <1>2, <2>1, InsideFollowsMoves DEF DrainInv, Stages, Inside
  <2>3. Gates!Leave(w)
    BY <2>1, <2>2 DEF Gates!Leave, Inside
  <2> QED
    BY <1>2, <2>3 DEF Gates!Next
<1>3. CASE Register(w)
  <2>1. Moves(w, "armed") /\ stage[w] # "in"
    BY <1>3 DEF Register
  <2> QED
    BY <1>3, <2>1, MoveOutside DEF Register, Stages, Frozen, countVars
<1>4. CASE Sleep(w)
  <2>1. Moves(w, "asleep") /\ stage[w] # "in"
    BY <1>4 DEF Sleep
  <2> QED
    BY <1>4, <2>1, MoveOutside DEF Sleep, Stages, Frozen, countVars
<1>5. CASE AnnounceDrop(w)
  <2>1. Moves(w, "gone") /\ stage[w] # "in"
    BY <1>5 DEF AnnounceDrop
  <2> QED
    BY <1>5, <2>1, MoveOutside DEF AnnounceDrop, Stages, Frozen, countVars
<1>6. CASE Arrive(w)
  <2>1. Moves(w, "ready") /\ stage[w] # "in"
    BY <1>6 DEF Arrive
  <2> QED
    BY <1>6, <2>1, MoveOutside DEF Arrive, Stages, Frozen, countVars
<1>7. CASE Withdraw(w)
  <2>1. Moves(w, "gone") /\ stage[w] # "in"
    BY <1>7 DEF Withdraw, Waiting
  <2> QED
    BY <1>7, <2>1, MoveOutside DEF Withdraw, Stages, Frozen, countVars
<1> QED
  BY <1>1, <1>2, <1>3, <1>4, <1>5, <1>6, <1>7

LEMMA ConfigureIsGate ==
  ASSUME DrainInv, NEW l \in Limiters,
         AnnounceLimit(l) \/ (\E n \in Limits : SetLimit(l, n))
           \/ AnnounceResume(l)
  PROVE  Gates!Next \/ UNCHANGED Gates!gateVars
<1>1. ASSUME NEW n \in Limits, SetLimit(l, n)
      PROVE  Gates!Next
  <2>1. Gates!SetLimit(l, n)
    BY <1>1 DEF SetLimit, Gates!SetLimit
  <2> QED
    BY <2>1 DEF Gates!Next, Gates!Limiters, Limiters
<1>2. CASE AnnounceLimit(l) \/ AnnounceResume(l)
  <2>1. UNCHANGED <<limit, paused, stage>>
    BY <1>2 DEF AnnounceLimit, AnnounceResume, countVars
  <2>2. Frozen' = Frozen
    BY <1>2 DEF AnnounceLimit, AnnounceResume, Frozen, Wakes, Limiters
  <2>3. Inside' = Inside
    BY <2>1 DEF Inside
  <2> QED
    BY <2>1, <2>2, <2>3, GateUnchanged
<1> QED
  BY <1>1, <1>2

LEMMA UpdateIsGate ==
  ASSUME DrainInv,
         \/ PauseUploads \/ PauseProcessing \/ Snapshot \/ Schedule
         \/ GiveUpProcessing \/ GiveUpUploads
  PROVE  Gates!Next \/ UNCHANGED Gates!gateVars
<1>1. /\ \A l \in Limiters : Draining(l) \in Waiters /\ Draining(l) \notin Slots
      /\ Slots \subseteq Waiters
      /\ stage \in [Waiters -> Stages]
      /\ "upload" \in Limiters /\ "processing" \in Limiters
  BY SlotShape DEF DrainInv, TypeOK, Limiters
<1>2. limit' = limit
  BY DEF PauseUploads, PauseProcessing, Snapshot, Schedule, GiveUpProcessing,
         GiveUpUploads, DropPause, countVars
<1>3. Inside' = Inside
  <2>1. \A w \in Slots : stage'[w] = stage[w]
    BY <1>1
    DEF PauseUploads, PauseProcessing, Snapshot, Schedule, GiveUpProcessing,
        GiveUpUploads, DropPause, Moves
  <2> QED
    BY <2>1 DEF Inside
<1>4. Gates!Limiters = Limiters
  BY DEF Gates!Limiters, Limiters
<1>5. Limiters # {"upload"} /\ Limiters # {}
  BY DEF Limiters
<1>6. TypeOK /\ paused["upload"] \in {0, 1} /\ paused["processing"] \in {0, 1}
  BY DEF DrainInv, PausesHeld
<1>7. CASE PauseUploads
  <2>1. Closed = {} /\ Frozen' = Frozen
    BY <1>7, ClosedInPhase DEF PauseUploads, Frozen
  <2>2. Closed' = {"upload"}
    BY <1>1, <1>6, <1>7, <2>1, PauseCloses DEF PauseUploads
  <2>3. Gates!Close
    BY <1>2, <1>3, <2>1, <2>2 DEF Gates!Close, Inside, Closed, Frozen
  <2> QED
    BY <2>3 DEF Gates!Next
<1>8. CASE PauseProcessing
  <2>1. Closed = {"upload"} /\ Frozen' = Frozen
    BY <1>8, ClosedInPhase DEF PauseProcessing, Frozen
  <2>2. Closed' = Limiters
    BY <1>1, <1>6, <1>8, <2>1, PauseCloses DEF PauseProcessing, Limiters
  <2>3. Gates!Of("upload") = {}
    BY <1>1, <1>8, OfIsHolders DEF PauseProcessing, DrainInv, Drained
  <2>4. Gates!Close
    BY <1>2, <1>3, <1>4, <2>1, <2>2, <2>3
    DEF Gates!Close, Inside, Closed, Frozen
  <2> QED
    BY <2>4 DEF Gates!Next
<1>9. CASE Snapshot
  <2>1. update = "processing" /\ update' = "archiving" /\ paused' = paused
    BY <1>9 DEF Snapshot, countVars
  <2>2. Closed = Limiters /\ Closed' = Closed
    BY <2>1, ClosedInPhase DEF Closed
  <2>3. Frozen'
    BY <2>1 DEF Frozen
  <2>4. active["upload"] = 0 /\ active["processing"] = 0
    BY <1>9 DEF Snapshot, DrainInv, Drained
  <2>5. \A w \in Slots : stage[w] # "in"
    BY <2>4, HoldersCount, SlotShape DEF DrainInv, Limiters
  <2>6. Inside = {}
    BY <2>5 DEF Inside
  <2>7. Gates!Freeze
    BY <1>2, <1>3, <1>4, <2>2, <2>3, <2>6
    DEF Gates!Freeze, Inside, Closed, Frozen
  <2> QED
    BY <2>7 DEF Gates!Next
<1>10. CASE Schedule
  <2>1. paused' = paused /\ Frozen' = Frozen
    BY <1>10 DEF Schedule, countVars, Frozen
  <2> QED
    BY <1>2, <1>3, <2>1, GateUnchanged
<1>11. CASE GiveUpProcessing
  <2>1. update \in {"processing", "archiving"} /\ update' = "wakeProcessing"
    BY <1>11 DEF GiveUpProcessing
  <2>2. Closed = Limiters /\ paused["processing"] = 1
    BY <2>1, ClosedInPhase DEF DrainInv, PausesHeld
  <2>3. Closed' = {"upload"}
    <3>1. Closed' = Closed \ {"processing"}
      BY <1>1, <1>6, <1>11, <2>2, DropPauseOpens DEF GiveUpProcessing, DropPause
    <3> QED
      BY <2>2, <3>1 DEF Limiters
  <2>4. ~Frozen'
    BY <2>1 DEF Frozen
  <2>5. Gates!Open
    BY <1>2, <1>3, <1>4, <1>5, <2>2, <2>3, <2>4
    DEF Gates!Open, Inside, Closed, Frozen
  <2> QED
    BY <2>5 DEF Gates!Next
<1>12. CASE GiveUpUploads
  <2>1. update \in {"uploads", "resumeUploads"} /\ update' = "wakeUploads"
    BY <1>12 DEF GiveUpUploads
  <2>2. Closed = {"upload"} /\ paused["upload"] = 1
    BY <2>1, ClosedInPhase DEF DrainInv, PausesHeld
  <2>3. Closed' = {}
    <3>1. Closed' = Closed \ {"upload"}
      BY <1>1, <1>6, <1>12, <2>2, DropPauseOpens DEF GiveUpUploads, DropPause
    <3> QED
      BY <2>2, <3>1
  <2>4. ~Frozen'
    BY <2>1 DEF Frozen
  <2>5. Gates!Open
    BY <1>2, <1>3, <1>4, <1>5, <2>2, <2>3, <2>4
    DEF Gates!Open, Inside, Closed, Frozen
  <2> QED
    BY <2>5 DEF Gates!Next
<1> QED
  BY <1>7, <1>8, <1>9, <1>10, <1>11, <1>12

LEMMA GateSteps ==
  ASSUME DrainInv, [Next]_vars
  PROVE  [Gates!Next]_(Gates!gateVars)
<1>1. CASE UNCHANGED vars
  BY <1>1, GateUnchanged DEF vars, Inside, Frozen
<1>2. CASE Next
  BY <1>2, Steps, TaskIsGate, ConfigureIsGate, UpdateIsGate, SlotShape
<1> QED
  BY <1>1, <1>2

(* Whatever threads do between a count and its announcement, whoever cancels *)
(* and whatever the limits are set to, tasks and updates meet at the gate:    *)
(* none is let in beyond the limit or while the gate is closed, and a         *)
(* snapshot is taken with nothing inside.                                     *)
THEOREM LimitersImplementGate == Spec => ImplementsGate
<1>1. Init => Gates!Init
  <2> SUFFICES ASSUME Init
               PROVE  Gates!Init
    OBVIOUS
  <2>1. Inside = {} /\ Closed = {} /\ ~Frozen
    BY SlotShape DEF Init, Inside, Closed, Frozen
  <2> QED
    BY <2>1 DEF Init, Gates!Init, Gates!Limiters, Limiters, Inside, Closed,
                Frozen
<1>2. DrainInv /\ [Next]_vars => [Gates!Next]_(Gates!gateVars)
  BY GateSteps
<1> QED
  BY <1>1, <1>2, DrainInvariant, PTL DEF Spec, ImplementsGate, Gates!Spec
=============================================================================
