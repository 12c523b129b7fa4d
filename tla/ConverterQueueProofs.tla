------------------------- MODULE ConverterQueueProofs -------------------------
(***************************************************************************)
(* The converter's records are honest, foreign files are kept, and, as     *)
(* long as no update of a record fails, every conversion is accounted for: *)
(* for any items, workers, concurrency, failures and restarts.             *)
(***************************************************************************)
EXTENDS ConverterQueue, FiniteSetTheorems, TLAPS

(* An abort controller in the map is that of a conversion of its item.     *)
HandlesAreTheirs ==
  \A i \in Items : handle[i] # NoWorker =>
     worker[handle[i]] # Idle /\ worker[handle[i]].item = i

TypedInv == QueueTypeOK /\ HandlesAreTheirs

USE DEF Idle, PumpOff, NotCancelling, Statuses, Entry

LEMMA InitIsTyped == QueueInit => TypedInv
<1> SUFFICES ASSUME QueueInit PROVE TypedInv
  OBVIOUS
<1>1. record \in [Items -> Statuses \cup {"none"}] /\ output \in [Items -> {"absent", "ours", "foreign"}]
  BY DEF QueueInit
<1>2. worker \in [Workers -> Job \cup {Idle}] /\ handle \in [Items -> Workers \cup {NoWorker}]
  BY DEF QueueInit
<1>3. faults \in 0 .. MaxFaults /\ restarts \in 0 .. MaxRestarts
  BY QueueAssumption DEF QueueInit
<1>4. HandlesAreTheirs
  BY DEF QueueInit, HandlesAreTheirs
<1> QED BY <1>1, <1>2, <1>3, <1>4 DEF QueueInit, TypedInv, QueueTypeOK

(* start() leaves a pump.                                                  *)
LEMMA StartedIsTyped ==
  ASSUME QueueTypeOK
  PROVE  Started \in [on : BOOLEAN, unread : SUBSET Items, page : SUBSET Entry]
BY DEF QueueTypeOK, Started, Recorded

(* The handlers of the ipc calls, and what other programs do.              *)
LEMMA CallsAreTyped ==
  ASSUME TypedInv,
         \/ \E i \in Items : Enqueue(i) \/ EnqueueStarts(i) \/ ForeignWrite(i)
         \/ Pause \/ Resume \/ Cancel \/ CancelStep
  PROVE  TypedInv'
<1>1. ASSUME NEW i \in Items, Enqueue(i) PROVE TypedInv'
  <2>1. pump' \in [on : BOOLEAN, unread : SUBSET Items, page : SUBSET Entry]
    BY <1>1 DEF Enqueue, MayNotice, TypedInv, QueueTypeOK
  <2>2. cancelling' \in [on : BOOLEAN, unread : SUBSET Items, page : SUBSET Items]
    BY <1>1 DEF Enqueue, MayNotice, TypedInv, QueueTypeOK
  <2> QED BY <1>1, <2>1, <2>2 DEF Enqueue, TypedInv, QueueTypeOK, HandlesAreTheirs
<1>2. ASSUME NEW i \in Items, EnqueueStarts(i) PROVE TypedInv'
  BY <1>2, StartedIsTyped DEF EnqueueStarts, TypedInv, QueueTypeOK, HandlesAreTheirs
<1>3. ASSUME NEW i \in Items, ForeignWrite(i) PROVE TypedInv'
  BY <1>3 DEF ForeignWrite, memoryVars, TypedInv, QueueTypeOK, HandlesAreTheirs
<1>4. CASE Pause
  BY <1>4 DEF Pause, TypedInv, QueueTypeOK, HandlesAreTheirs
<1>5. CASE Resume
  BY <1>5, StartedIsTyped DEF Resume, TypedInv, QueueTypeOK, HandlesAreTheirs
<1>6. CASE Cancel
  <2>1. ASSUME NEW w \in Workers
        PROVE  /\ worker'[w] \in Job \cup {Idle}
               /\ worker[w] # Idle => worker'[w] # Idle /\ worker'[w].item = worker[w].item
    <3>1. CASE \E i \in Items : handle[i] = w
      <4>1. worker[w] \in Job
        BY <3>1, QueueAssumption DEF TypedInv, QueueTypeOK, HandlesAreTheirs
      <4>2. worker'[w] = [worker[w] EXCEPT !.aborted = TRUE]
        BY <1>6, <3>1 DEF Cancel
      <4> QED BY <4>1, <4>2 DEF Job
    <3>2. CASE ~ \E i \in Items : handle[i] = w
      BY <1>6, <3>2 DEF Cancel, TypedInv, QueueTypeOK
    <3> QED BY <3>1, <3>2
  <2>2. worker' \in [Workers -> Job \cup {Idle}]
    BY <1>6, <2>1 DEF Cancel
  <2>3. Recorded \in SUBSET Items
    BY DEF Recorded
  <2>4. HandlesAreTheirs'
    BY <1>6, <2>1, QueueAssumption DEF Cancel, TypedInv, QueueTypeOK, HandlesAreTheirs
  <2> QED BY <1>6, <2>2, <2>3, <2>4 DEF Cancel, TypedInv, QueueTypeOK
<1>7. ASSUME NEW i \in Items, CancelReads(i) PROVE TypedInv'
  <2>1. cancelling' \in [on : BOOLEAN, unread : SUBSET Items, page : SUBSET Items]
    BY <1>7 DEF CancelReads, TypedInv, QueueTypeOK
  <2> QED BY <1>7, <2>1 DEF CancelReads, TypedInv, QueueTypeOK, HandlesAreTheirs
<1>8. ASSUME NEW i \in Items, CancelUpdates(i) PROVE TypedInv'
  <2>1. cancelling' \in [on : BOOLEAN, unread : SUBSET Items, page : SUBSET Items]
    BY <1>8 DEF CancelUpdates, TypedInv, QueueTypeOK
  <2> QED BY <1>8, <2>1 DEF CancelUpdates, TypedInv, QueueTypeOK, HandlesAreTheirs
<1>9. CASE CancelReturns
  BY <1>9 DEF CancelReturns, TypedInv, QueueTypeOK, HandlesAreTheirs
<1> QED BY <1>1, <1>2, <1>3, <1>4, <1>5, <1>6, <1>7, <1>8, <1>9 DEF CancelStep

(* The pump: what it reads, and the jobs it hands over.                    *)
LEMMA PumpIsTyped ==
  ASSUME TypedInv, PumpStep
  PROVE  TypedInv'
<1>1. ASSUME NEW i \in Items, PumpReads(i) PROVE TypedInv'
  <2> DEFINE e == [item |-> i, wasRunning |-> record[i] = "running"]
  <2>e. e \in Entry
    <3>1. (record[i] = "running") \in BOOLEAN
      OBVIOUS
    <3> HIDE DEF e
    <3> QED BY <3>1, Zenon DEF e, Entry
  <2> HIDE DEF e
  <2>p. pump' = [pump EXCEPT !.unread = @ \ {i},
                   !.page = IF record[i] \in {"queued", "paused", "running"} THEN @ \cup {e} ELSE @]
    BY <1>1 DEF PumpReads, e
  <2>1. pump' \in [on : BOOLEAN, unread : SUBSET Items, page : SUBSET Entry]
    BY <2>e, <2>p DEF TypedInv, QueueTypeOK
  <2> QED BY <1>1, <2>1 DEF PumpReads, TypedInv, QueueTypeOK, HandlesAreTheirs
<1>2. CASE PumpYields
  <2>0. PICK slot \in [pump.page -> Workers \ Active] :
        /\ \A e, f \in pump.page : slot[e] = slot[f] => e = f
        /\ batch' = {slot[e] : e \in pump.page}
        /\ worker' = [w \in Workers |->
              IF w \in batch' THEN NewJob(CHOOSE e \in pump.page : slot[e] = w) ELSE worker[w]]
        /\ handle' = [i \in Items |->
              IF \E e \in pump.page : e.item = i
              THEN slot[CHOOSE e \in pump.page : e.item = i] ELSE handle[i]]
    BY <1>2 DEF PumpYields, Dispatch
  <2>1. \A e \in pump.page : slot[e] \in Workers /\ e \in Entry /\ worker'[slot[e]] = NewJob(e)
    BY <2>0 DEF TypedInv, QueueTypeOK
  <2>2. \A e \in Entry : NewJob(e) \in Job /\ NewJob(e) # Idle /\ NewJob(e).item = e.item
    BY DEF NewJob, Job
  <2>3. batch' \in SUBSET Workers
    BY <2>0, <2>1
  <2>4. worker' \in [Workers -> Job \cup {Idle}]
    BY <2>0, <2>1, <2>2 DEF TypedInv, QueueTypeOK
  <2>5. \A i \in Items : (\E e \in pump.page : e.item = i) =>
          \E e \in pump.page : e.item = i /\ handle'[i] = slot[e]
    BY <2>0
  <2>6. handle' \in [Items -> Workers \cup {NoWorker}]
    BY <2>0, <2>1, <2>5 DEF TypedInv, QueueTypeOK
  <2>7. \A w \in Workers : worker[w] # Idle => worker'[w] = worker[w]
    BY <2>0 DEF Active
  <2>8. HandlesAreTheirs'
    <3> SUFFICES ASSUME NEW i \in Items, handle'[i] # NoWorker
                 PROVE  worker'[handle'[i]] # Idle /\ worker'[handle'[i]].item = i
      BY DEF HandlesAreTheirs
    <3>1. CASE \E e \in pump.page : e.item = i
      <4> PICK e \in pump.page : e.item = i /\ handle'[i] = slot[e]
        BY <2>5, <3>1
      <4> QED BY <2>1, <2>2
    <3>2. CASE ~ \E e \in pump.page : e.item = i
      <4>1. handle'[i] = handle[i]
        BY <2>0, <3>2
      <4>2. handle[i] \in Workers
        BY <4>1 DEF TypedInv, QueueTypeOK
      <4> QED BY <2>7, <4>1, <4>2 DEF TypedInv, HandlesAreTheirs
    <3> QED BY <3>1, <3>2
  <2>9. pump' \in [on : BOOLEAN, unread : SUBSET Items, page : SUBSET Entry]
    BY <1>2 DEF PumpYields, Dispatch, TypedInv, QueueTypeOK
  <2>10. stranded' \in SUBSET Items
    BY <1>2 DEF PumpYields, Dispatch, TypedInv, QueueTypeOK
  <2> QED BY <1>2, <2>3, <2>4, <2>6, <2>8, <2>9, <2>10 DEF PumpYields, Dispatch, TypedInv, QueueTypeOK
<1>3. CASE PumpEnds
  BY <1>3 DEF PumpEnds, TypedInv, QueueTypeOK, HandlesAreTheirs
<1> QED BY <1>1, <1>2, <1>3 DEF PumpStep

(* A step of a conversion moves its job, or ends it.                       *)
MovesOn(w) ==
  /\ worker' \in [Workers -> Job \cup {Idle}]
  /\ worker'[w] # Idle /\ worker'[w].item = worker[w].item
  /\ \A v \in Workers \ {w} : worker'[v] = worker[v]
  /\ handle' = handle /\ batch' = batch /\ pump' = pump

Ends(w) ==
  /\ worker' = [worker EXCEPT ![w] = Idle]
  /\ handle' = [handle EXCEPT ![worker[w].item] = NoWorker]

LEMMA ThrownMovesOn ==
  ASSUME QueueTypeOK, NEW w \in Workers, worker[w] # Idle, Thrown(w),
         handle' = handle /\ batch' = batch /\ pump' = pump
  PROVE  MovesOn(w)
BY DEF QueueTypeOK, Thrown, MovesOn, Job

LEMMA StepsMoveOrEnd ==
  ASSUME QueueTypeOK, NEW w \in Workers, WorkerStep(w) \/ UpdateFails(w)
  PROVE  worker[w] \in Job /\ (MovesOn(w) \/ Ends(w))
<1>1. worker[w] \in Job
  BY DEF WorkerStep, UpdateFails, Reconcile, MarkRecovered, MarkRunning, Preflight, Read, Report, Reported,
         Link, LinkRefused, MarkConverted, Caught, At, QueueTypeOK
<1>2. worker[w] # Idle
  BY <1>1 DEF Job
<1>3. ASSUME NEW phase \in {"recovered", "marking", "reading", "reporting", "preflight"}, MovesTo(w, phase),
             handle' = handle /\ batch' = batch /\ pump' = pump
      PROVE  MovesOn(w)
  BY <1>1, <1>3 DEF MovesTo, MovesOn, QueueTypeOK, Job
<1>4. CASE Reconcile(w)
  BY <1>1, <1>2, <1>3, <1>4, ThrownMovesOn DEF Reconcile, OnlyWorker
<1>5. CASE MarkRecovered(w) \/ MarkConverted(w) \/ Caught(w)
  BY <1>1, <1>5 DEF MarkRecovered, MarkConverted, Caught, Returns, Leaves, Ends
<1>6. CASE MarkRunning(w)
  BY <1>1, <1>3, <1>6 DEF MarkRunning, Goes, OnlyRecordAndWorker
<1>7. CASE Preflight(w) \/ Read(w)
  BY <1>1, <1>2, <1>3, <1>7, ThrownMovesOn DEF Preflight, Read, Throws, OnlyWorker
<1>8. CASE Report(w)
  <2>1. record[worker[w].item] \in Statuses \cup {"none"}
    BY <1>1 DEF QueueTypeOK, Job
  <2> QED BY <1>1, <1>8, <2>1 DEF Report, OnlyWorker, MovesOn, QueueTypeOK, Job
<1>9. CASE Reported(w)
  BY <1>1, <1>9 DEF Reported, OnlyRecordAndWorker, MovesOn, QueueTypeOK, Job
<1>10. CASE Link(w)
  BY <1>1, <1>2, <1>10, ThrownMovesOn DEF Link, MovesOn, QueueTypeOK, Job
<1>11. CASE LinkRefused(w)
  BY <1>1, <1>2, <1>11, ThrownMovesOn DEF LinkRefused, Throws, OnlyWorker
<1>12. CASE UpdateFails(w)
  BY <1>1, <1>2, <1>12, ThrownMovesOn DEF UpdateFails, Leaves, Ends
<1> QED BY <1>1, <1>4, <1>5, <1>6, <1>7, <1>8, <1>9, <1>10, <1>11, <1>12 DEF WorkerStep

LEMMA WorkersAreTyped ==
  ASSUME TypedInv, NEW w \in Workers, WorkerStep(w) \/ UpdateFails(w)
  PROVE  TypedInv'
<1>1. worker[w] \in Job /\ (MovesOn(w) \/ Ends(w))
  BY StepsMoveOrEnd DEF TypedInv
<1>2. worker' \in [Workers -> Job \cup {Idle}] /\ handle' \in [Items -> Workers \cup {NoWorker}]
  BY <1>1 DEF MovesOn, Ends, TypedInv, QueueTypeOK
<1>3. HandlesAreTheirs'
  <2>1. CASE MovesOn(w)
    BY <2>1, QueueAssumption DEF MovesOn, TypedInv, HandlesAreTheirs, QueueTypeOK
  <2>2. CASE Ends(w)
    <3> SUFFICES ASSUME NEW i \in Items, handle'[i] # NoWorker
                 PROVE  worker'[handle'[i]] # Idle /\ worker'[handle'[i]].item = i
      BY DEF HandlesAreTheirs
    <3>1. i # worker[w].item /\ handle'[i] = handle[i]
      BY <2>2 DEF Ends, TypedInv, QueueTypeOK
    <3>2. handle[i] \in Workers \ {w}
      BY <3>1 DEF TypedInv, QueueTypeOK, HandlesAreTheirs
    <3> QED BY <2>2, <3>1, <3>2 DEF Ends, TypedInv, QueueTypeOK, HandlesAreTheirs
  <2> QED BY <1>1, <2>1, <2>2
<1>4. /\ record' \in [Items -> Statuses \cup {"none"}]
      /\ output' \in [Items -> {"absent", "ours", "foreign"}]
  <2>1. /\ worker[w].held \in Statuses \cup {"none"}
        /\ record \in [Items -> Statuses \cup {"none"}] /\ output \in [Items -> {"absent", "ours", "foreign"}]
    BY <1>1 DEF Job, TypedInv, QueueTypeOK
  <2>2. \A status \in Statuses \cup {"none"} :
          Writes(w, status) => record' \in [Items -> Statuses \cup {"none"}]
    BY <1>1, <2>1 DEF Writes, Job
  <2>3. CASE WorkerStep(w)
    BY <2>1, <2>2, <2>3
    DEF WorkerStep, Reconcile, MarkRecovered, MarkRunning, Preflight, Read, Report, Reported, Link, LinkRefused,
        MarkConverted, Caught, Throws, OnlyWorker, OnlyRecordAndWorker, Goes, Returns
  <2>4. CASE UpdateFails(w)
    BY <2>1, <2>4 DEF UpdateFails
  <2> QED BY <2>3, <2>4
<1>5. /\ pump' \in [on : BOOLEAN, unread : SUBSET Items, page : SUBSET Entry] /\ batch' \in SUBSET Workers
      /\ faults' \in 0 .. MaxFaults
      /\ UNCHANGED <<paused, cancelled, cancelling, starting, restarts, stranded>>
  <2>1. CASE WorkerStep(w)
    BY <2>1
    DEF WorkerStep, Reconcile, MarkRecovered, MarkRunning, Preflight, Read, Report, Reported, Link, LinkRefused,
        MarkConverted, Caught, Throws, OnlyWorker, OnlyRecordAndWorker, Goes, Returns, TypedInv, QueueTypeOK
  <2>2. CASE UpdateFails(w)
    <3>1. faults' \in 0 .. MaxFaults
      BY <2>2, QueueAssumption DEF UpdateFails, TypedInv, QueueTypeOK
    <3>2. \/ pump' = pump /\ batch' = batch
          \/ pump' = PumpOff /\ batch' = {}
      BY <2>2 DEF UpdateFails
    <3>3. PumpOff \in [on : BOOLEAN, unread : SUBSET Items, page : SUBSET Entry]
      OBVIOUS
    <3>4. UNCHANGED <<paused, cancelled, cancelling, starting, restarts, stranded>>
      BY <2>2 DEF UpdateFails
    <3> QED BY <3>1, <3>2, <3>3, <3>4 DEF TypedInv, QueueTypeOK
  <2> QED BY <2>1, <2>2
<1> QED BY <1>2, <1>3, <1>4, <1>5 DEF TypedInv, QueueTypeOK

LEMMA RestartIsTyped ==
  ASSUME TypedInv, Restart
  PROVE  TypedInv'
<1>1. restarts' \in 0 .. MaxRestarts
  BY QueueAssumption DEF Restart, TypedInv, QueueTypeOK
<1>2. worker' \in [Workers -> Job \cup {Idle}] /\ handle' \in [Items -> Workers \cup {NoWorker}]
  BY DEF Restart
<1> QED BY <1>1, <1>2 DEF Restart, TypedInv, QueueTypeOK, HandlesAreTheirs

LEMMA TypedStep == TypedInv /\ [QueueNext]_queueVars => TypedInv'
<1> SUFFICES ASSUME TypedInv, [QueueNext]_queueVars PROVE TypedInv'
  OBVIOUS
<1>1. CASE UNCHANGED queueVars
  BY <1>1 DEF queueVars, memoryVars, TypedInv, QueueTypeOK, HandlesAreTheirs
<1> QED BY <1>1, CallsAreTyped, PumpIsTyped, WorkersAreTyped, RestartIsTyped DEF QueueNext

(* Records, outputs, flags, pump and workers keep their types for any      *)
(* interleaving of the ipc calls, the pump, its workers and restarts       *)
(* (converter-queue.ts).                                                   *)
THEOREM QueueIsTyped == QueueSpec => []QueueTypeOK
<1>1. QueueSpec => []TypedInv
  BY InitIsTyped, TypedStep, PTL DEF QueueSpec
<1>2. TypedInv => QueueTypeOK
  BY DEF TypedInv
<1> QED BY <1>1, <1>2, PTL

-----------------------------------------------------------------------------
(* What a conversion says of its output, or will say in its record, is so. *)
OutputIsBehind ==
  \A w \in Workers :
     worker[w] # Idle /\ (worker[w].at \in {"recovered", "finishing"} \/ worker[w].linked
                            \/ worker[w].held = "converted")
       => output[worker[w].item] = "ours"

HonestInv == OutputIsBehind /\ ConvertedHasOutput

(* Only a free destination is written to.                                  *)
LEMMA OutputStays ==
  ASSUME TypedInv, [QueueNext]_queueVars, NEW i \in Items, output[i] # "absent"
  PROVE  output'[i] = output[i]
<1>1. ASSUME NEW w \in Workers, WorkerStep(w) \/ UpdateFails(w) PROVE output'[i] = output[i]
  <2>1. CASE Link(w)
    BY <2>1 DEF Link, TypedInv, QueueTypeOK
  <2>2. CASE ~Link(w)
    BY <1>1, <2>2
    DEF WorkerStep, UpdateFails, Reconcile, MarkRecovered, MarkRunning, Preflight, Read, Report, Reported, LinkRefused,
        MarkConverted, Caught, Throws, OnlyWorker, OnlyRecordAndWorker, Goes, Returns
  <2> QED BY <2>1, <2>2
<1>2. ASSUME NEW k \in Items, Enqueue(k) \/ EnqueueStarts(k) \/ ForeignWrite(k) PROVE output'[i] = output[i]
  BY <1>2 DEF Enqueue, EnqueueStarts, ForeignWrite, TypedInv, QueueTypeOK
<1>3. CASE Pause \/ Resume \/ Cancel \/ CancelStep \/ PumpStep \/ Restart
  BY <1>3 DEF Pause, Resume, Cancel, CancelStep, CancelReads, CancelUpdates, CancelReturns, PumpStep, PumpReads,
              PumpYields, Dispatch, PumpEnds, Restart
<1>4. CASE UNCHANGED queueVars
  BY <1>4 DEF queueVars
<1> QED BY <1>1, <1>2, <1>3, <1>4 DEF QueueNext

(* A conversion never replaces a file it did not write: the link of        *)
(* converter-file-service.ts fails where a file is.                        *)
THEOREM ForeignStays == QueueSpec => ForeignIsKept
<1>1. TypedInv /\ [QueueNext]_queueVars =>
        [\A i \in Items : output[i] = "foreign" => output'[i] = "foreign"]_queueVars
  BY OutputStays
<1> QED BY InitIsTyped, TypedStep, <1>1, PTL DEF QueueSpec, ForeignIsKept

(* Whatever a job becomes must be backed by its output.                    *)
LEMMA JobsStayBacked ==
  ASSUME TypedInv, HonestInv, [QueueNext]_queueVars, TypedInv'
  PROVE  OutputIsBehind'
<1> SUFFICES ASSUME NEW w \in Workers, worker'[w] # Idle,
                    \/ worker'[w].at \in {"recovered", "finishing"} \/ worker'[w].linked
                    \/ worker'[w].held = "converted"
             PROVE  output'[worker'[w].item] = "ours"
  BY DEF OutputIsBehind
<1>1. worker[w] \in Job \cup {Idle} /\ worker'[w] \in Job \cup {Idle}
  BY DEF TypedInv, QueueTypeOK
<1>2. ASSUME worker[w] # Idle, worker'[w].item = worker[w].item,
             \/ worker[w].at \in {"recovered", "finishing"} \/ worker[w].linked
             \/ worker[w].held = "converted" \/ output[worker[w].item] = "ours"
      PROVE  output'[worker'[w].item] = "ours"
  <2>1. output[worker[w].item] = "ours" /\ worker[w].item \in Items
    BY <1>1, <1>2 DEF HonestInv, OutputIsBehind, Job
  <2> QED BY <1>2, <2>1, OutputStays
<1>3. CASE worker'[w] = worker[w]
  BY <1>2, <1>3
<1>4. CASE WorkerStep(w)
  <2>1. worker[w] \in Job /\ worker[w] # Idle /\ (MovesOn(w) \/ Ends(w))
    BY <1>4, StepsMoveOrEnd DEF TypedInv, Job
  <2>2. MovesOn(w) /\ worker'[w].item = worker[w].item
    BY <2>1 DEF MovesOn, Ends, TypedInv, QueueTypeOK
  <2>3. CASE Thrown(w)
    BY <2>1, <2>3 DEF Thrown, TypedInv, QueueTypeOK, Job
  <2>4. CASE Reconcile(w) /\ ~Thrown(w)
    BY <1>2, <2>1, <2>2, <2>4 DEF Reconcile, MovesTo, TypedInv, QueueTypeOK, Job
  <2>5. CASE MarkRecovered(w) \/ MarkConverted(w) \/ Caught(w)
    BY <2>5 DEF MarkRecovered, MarkConverted, Caught, Returns, Leaves, TypedInv, QueueTypeOK
  <2>6. CASE MarkRunning(w) \/ ((Preflight(w) \/ Read(w)) /\ ~Thrown(w))
    BY <1>2, <2>1, <2>2, <2>6 DEF MarkRunning, Preflight, Read, Goes, MovesTo, Throws, TypedInv, QueueTypeOK, Job
  <2>7. CASE Report(w)
    <3>1. worker'[w].at = "reported" /\ worker'[w].linked = worker[w].linked
            /\ worker'[w].held = record[worker[w].item]
      BY <2>1, <2>7 DEF Report, TypedInv, QueueTypeOK, Job
    <3> QED BY <1>2, <2>1, <2>2, <3>1 DEF HonestInv, ConvertedHasOutput, Job
  <2>8. CASE Reported(w)
    BY <1>2, <2>1, <2>2, <2>8 DEF Reported, TypedInv, QueueTypeOK, Job
  <2>9. CASE Link(w)
    BY <2>1, <2>2, <2>9 DEF Link, TypedInv, QueueTypeOK, Job
  <2> QED BY <1>4, <2>3, <2>4, <2>5, <2>6, <2>7, <2>8, <2>9 DEF WorkerStep, LinkRefused, Throws
<1>5. CASE UpdateFails(w)
  <2>1. worker[w] \in Job
    BY <1>5, StepsMoveOrEnd DEF TypedInv
  <2>2. Thrown(w) \/ Leaves(w)
    BY <1>5 DEF UpdateFails
  <2>3. CASE Thrown(w)
    BY <2>1, <2>3 DEF Thrown, TypedInv, QueueTypeOK, Job
  <2>4. CASE Leaves(w)
    BY <2>4 DEF Leaves, TypedInv, QueueTypeOK
  <2> QED BY <2>2, <2>3, <2>4
<1>6. CASE Cancel
  <2>1. CASE worker[w] = Idle
    BY <1>6, <2>1, QueueAssumption DEF Cancel, TypedInv, QueueTypeOK, HandlesAreTheirs
  <2>2. CASE worker[w] # Idle
    <3>1. worker'[w] = worker[w] \/ worker'[w] = [worker[w] EXCEPT !.aborted = TRUE]
      BY <1>6 DEF Cancel
    <3> QED BY <1>1, <1>2, <2>2, <3>1 DEF Job
  <2> QED BY <2>1, <2>2
<1>7. CASE PumpYields /\ worker'[w] # worker[w]
  <2>1. PICK e \in pump.page : worker'[w] = NewJob(e)
    BY <1>7 DEF PumpYields, Dispatch
  <2>2. e \in Entry
    BY <2>1 DEF TypedInv, QueueTypeOK
  <2> QED BY <2>1, <2>2 DEF NewJob
<1>8. CASE Restart
  BY <1>8 DEF Restart
<1>9. ASSUME NEW v \in Workers, v # w, WorkerStep(v) \/ UpdateFails(v) PROVE worker'[w] = worker[w]
  BY <1>9, StepsMoveOrEnd DEF MovesOn, Ends, TypedInv, QueueTypeOK
<1>10. ASSUME \/ \E i \in Items : Enqueue(i) \/ EnqueueStarts(i) \/ ForeignWrite(i) \/ PumpReads(i)
              \/ Pause \/ Resume \/ CancelStep \/ PumpEnds \/ UNCHANGED queueVars
       PROVE  worker' = worker
  BY <1>10 DEF Enqueue, EnqueueStarts, ForeignWrite, PumpReads, Pause, Resume, CancelStep, CancelReads,
               CancelUpdates, CancelReturns, PumpEnds, queueVars, memoryVars
<1> QED BY <1>3, <1>4, <1>5, <1>6, <1>7, <1>8, <1>9, <1>10 DEF QueueNext, PumpStep

(* A record becomes converted over its output only.                        *)
LEMMA RecordsStayHonest ==
  ASSUME TypedInv, HonestInv, [QueueNext]_queueVars
  PROVE  ConvertedHasOutput'
<1> SUFFICES ASSUME NEW i \in Items, record'[i] = "converted"
             PROVE  output'[i] = "ours"
  BY DEF ConvertedHasOutput
<1>1. CASE record[i] = "converted"
  BY <1>1, OutputStays DEF HonestInv, ConvertedHasOutput
<1>2. ASSUME NEW w \in Workers, worker[w] \in Job, WorkerStep(w), record[i] # "converted"
      PROVE  output'[i] = "ours"
  <2>1. /\ worker[w].item = i /\ worker[w] # Idle
        /\ worker[w].at \in {"recovered", "finishing"} \/ worker[w].held = "converted"
    BY <1>2
    DEF WorkerStep, Reconcile, MarkRecovered, MarkRunning, Preflight, Read, Report, Reported, Link, LinkRefused,
        MarkConverted, Caught, Throws, OnlyWorker, Goes, Writes, At, Job, TypedInv, QueueTypeOK
  <2> QED BY <2>1, OutputStays DEF HonestInv, OutputIsBehind
<1>3. ASSUME NEW k \in Items, Enqueue(k) \/ EnqueueStarts(k) \/ ForeignWrite(k) \/ CancelUpdates(k)
      PROVE  record[i] = "converted"
  BY <1>3 DEF Enqueue, EnqueueStarts, ForeignWrite, CancelUpdates, TypedInv, QueueTypeOK
<1>4. ASSUME \/ Pause \/ Resume \/ Cancel \/ PumpStep \/ Restart \/ CancelReturns \/ UNCHANGED queueVars
             \/ \E k \in Items : CancelReads(k)
             \/ \E w \in Workers : UpdateFails(w)
      PROVE  record[i] = "converted"
  BY <1>4 DEF Pause, Resume, Cancel, PumpStep, PumpReads, PumpYields, Dispatch, PumpEnds, Restart, CancelReturns,
              CancelReads, UpdateFails, queueVars
<1> QED BY <1>1, <1>2, <1>3, <1>4, StepsMoveOrEnd DEF QueueNext, CancelStep, TypedInv

(* A record says converted only when the converted file is really there,   *)
(* for any failures, restarts and other programs' files (runOne and        *)
(* reconcileInterrupted).                                                  *)
THEOREM ConvertedIsThere == QueueSpec => []ConvertedHasOutput
<1>1. QueueInit => HonestInv
  BY DEF QueueInit, HonestInv, OutputIsBehind, ConvertedHasOutput
<1>2. TypedInv /\ HonestInv /\ [QueueNext]_queueVars => HonestInv'
  BY TypedStep, JobsStayBacked, RecordsStayHonest DEF HonestInv
<1>3. HonestInv => ConvertedHasOutput
  BY DEF HonestInv
<1> QED BY InitIsTyped, TypedStep, <1>1, <1>2, <1>3, PTL DEF QueueSpec

-----------------------------------------------------------------------------
(* Whatever the pump or a worker is on has a record.                       *)
RecordsAreThere ==
  /\ \A w \in Active : record[worker[w].item] # "none"
  /\ \A w \in Active : worker[w].at = "reported" => worker[w].held # "none"
  /\ \A i \in pump.unread : record[i] # "none"
  /\ \A e \in pump.page : record[e.item] # "none"

(* There is one pump: the conversions are those it awaits, while it awaits *)
(* them its page is empty, and an item is ahead of it or with it, once.    *)
OnePump ==
  /\ pump.on \/ (pump = PumpOff /\ batch = {})
  /\ Active = batch
  /\ batch # {} => pump.page = {}
  /\ IsFiniteSet(pump.page)
  /\ Cardinality(pump.page) <= Concurrency /\ Cardinality(batch) <= Concurrency
  /\ \A e, f \in pump.page : e.item = f.item => e = f
  /\ \A e \in pump.page : e.item \notin pump.unread
  /\ \A v, w \in Active : worker[v].item = worker[w].item => v = w
  /\ \A w \in Active : worker[w].item \notin pump.unread

(* A job at work was at work before on the same item, or comes off the page. *)
LEMMA JobsComeFromThePage ==
  ASSUME TypedInv, [QueueNext]_queueVars, NEW w \in Active'
  PROVE  \/ w \in Active /\ worker'[w].item = worker[w].item
         \/ PumpYields /\ \E e \in pump.page : worker'[w] = NewJob(e)
<1>1. worker'[w] # Idle /\ w \in Workers /\ worker[w] \in Job \cup {Idle}
  BY DEF Active, TypedInv, QueueTypeOK
<1>2. CASE worker'[w] = worker[w]
  BY <1>1, <1>2 DEF Active
<1>3. ASSUME NEW v \in Workers, WorkerStep(v) \/ UpdateFails(v), worker'[w] # worker[w]
      PROVE  w \in Active /\ worker'[w].item = worker[w].item
  BY <1>1, <1>3, StepsMoveOrEnd DEF MovesOn, Ends, TypedInv, QueueTypeOK, Active, Job
<1>4. CASE Cancel /\ worker'[w] # worker[w]
  <2>1. \E i \in Items : handle[i] = w
    BY <1>1, <1>4 DEF Cancel
  <2>2. w \in Active /\ worker[w] \in Job
    BY <1>1, <2>1, QueueAssumption DEF TypedInv, HandlesAreTheirs, Active
  <2>3. worker'[w] = [worker[w] EXCEPT !.aborted = TRUE]
    BY <1>1, <1>4, <2>1 DEF Cancel
  <2> QED BY <2>2, <2>3 DEF Job
<1>5. CASE PumpYields /\ worker'[w] # worker[w]
  BY <1>1, <1>5 DEF PumpYields, Dispatch
<1>6. CASE Restart
  BY <1>1, <1>6 DEF Restart
<1>7. ASSUME \/ \E i \in Items : Enqueue(i) \/ EnqueueStarts(i) \/ ForeignWrite(i) \/ PumpReads(i)
             \/ Pause \/ Resume \/ CancelStep \/ PumpEnds \/ UNCHANGED queueVars
      PROVE  worker' = worker
  BY <1>7 DEF Enqueue, EnqueueStarts, ForeignWrite, PumpReads, Pause, Resume, CancelStep, CancelReads,
              CancelUpdates, CancelReturns, PumpEnds, queueVars, memoryVars
<1> QED BY <1>2, <1>3, <1>4, <1>5, <1>6, <1>7 DEF QueueNext, PumpStep

(* A record is never removed.                                              *)
LEMMA RecordsStay ==
  ASSUME TypedInv, RecordsAreThere, [QueueNext]_queueVars, NEW i \in Items, record[i] # "none"
  PROVE  record'[i] # "none"
<1>1. ASSUME NEW w \in Workers, worker[w] \in Job, WorkerStep(w) PROVE record'[i] # "none"
  <2>1. \/ record' = record
        \/ \E status \in Statuses : Writes(w, status)
        \/ Reported(w)
    BY <1>1
    DEF WorkerStep, Reconcile, MarkRecovered, MarkRunning, Preflight, Read, Report, Link, LinkRefused,
        MarkConverted, Caught, Throws, OnlyWorker
  <2>2. CASE Reported(w)
    BY <1>1, <2>2 DEF Reported, Writes, At, RecordsAreThere, Active, TypedInv, QueueTypeOK
  <2>3. CASE \E status \in Statuses : Writes(w, status)
    BY <2>3 DEF Writes, TypedInv, QueueTypeOK
  <2> QED BY <2>1, <2>2, <2>3
<1>2. ASSUME NEW k \in Items, Enqueue(k) \/ EnqueueStarts(k) \/ ForeignWrite(k) \/ CancelUpdates(k) \/ CancelReads(k)
      PROVE  record'[i] # "none"
  BY <1>2 DEF Enqueue, EnqueueStarts, ForeignWrite, CancelUpdates, CancelReads, TypedInv, QueueTypeOK
<1>3. ASSUME \/ Pause \/ Resume \/ Cancel \/ PumpStep \/ Restart \/ CancelReturns \/ UNCHANGED queueVars
             \/ \E w \in Workers : UpdateFails(w)
      PROVE  record' = record
  BY <1>3 DEF Pause, Resume, Cancel, PumpStep, PumpReads, PumpYields, Dispatch, PumpEnds, Restart, CancelReturns,
              UpdateFails, queueVars
<1> QED BY <1>1, <1>2, <1>3, StepsMoveOrEnd DEF QueueNext, CancelStep, TypedInv

(* What the pump may do to what lies ahead of it.                          *)
PumpTakesUp ==
  /\ \A i \in pump'.unread : i \in pump.unread \/ record'[i] # "none"
  /\ \A e \in pump'.page : e \in pump.page \/ record[e.item] # "none"

LEMMA PumpsTakeUp ==
  ASSUME TypedInv, [QueueNext]_queueVars
  PROVE  PumpTakesUp
<1>1. ASSUME NEW i \in Items, Enqueue(i) PROVE PumpTakesUp
  <2>1. record'[i] # "none"
    BY <1>1 DEF Enqueue, TypedInv, QueueTypeOK
  <2>2. pump' = pump \/ pump' = [pump EXCEPT !.unread = @ \cup {i}]
    BY <1>1 DEF Enqueue, MayNotice
  <2> QED BY <2>1, <2>2 DEF PumpTakesUp, TypedInv, QueueTypeOK
<1>2. ASSUME Resume \/ \E i \in Items : EnqueueStarts(i) PROVE PumpTakesUp
  BY <1>2 DEF Resume, EnqueueStarts, Started, Recorded, PumpTakesUp, TypedInv, QueueTypeOK
<1>3. ASSUME NEW i \in Items, PumpReads(i) PROVE PumpTakesUp
  <2> DEFINE e == [item |-> i, wasRunning |-> record[i] = "running"]
  <2>1. e.item = i
    OBVIOUS
  <2> HIDE DEF e
  <2>2. \/ pump' = [pump EXCEPT !.unread = @ \ {i}]
        \/ record[i] # "none" /\ pump' = [pump EXCEPT !.unread = @ \ {i}, !.page = @ \cup {e}]
    BY <1>3 DEF PumpReads, e, TypedInv, QueueTypeOK
  <2>3. /\ pump'.unread = pump.unread \ {i}
        /\ pump'.page = pump.page \/ (record[i] # "none" /\ pump'.page = pump.page \cup {e})
    BY <2>2 DEF TypedInv, QueueTypeOK
  <2> QED BY <2>1, <2>3 DEF PumpTakesUp
<1>4. ASSUME \/ PumpYields \/ PumpEnds \/ Restart
             \/ \E w \in Workers : UpdateFails(w)
      PROVE  PumpTakesUp
  <2>1. \/ pump' = pump
        \/ pump' = PumpOff
        \/ pump' = [pump EXCEPT !.page = {}]
    BY <1>4 DEF PumpYields, Dispatch, PumpEnds, Restart, UpdateFails
  <2> QED BY <2>1 DEF PumpTakesUp, TypedInv, QueueTypeOK
<1>5. ASSUME \/ Pause \/ Cancel \/ CancelStep \/ UNCHANGED queueVars
             \/ \E i \in Items : ForeignWrite(i)
             \/ \E w \in Workers : WorkerStep(w)
      PROVE  pump' = pump
  BY <1>5 DEF Pause, Cancel, CancelStep, CancelReads, CancelUpdates, CancelReturns, ForeignWrite, queueVars, memoryVars,
              WorkerStep, Reconcile, MarkRecovered, MarkRunning, Preflight, Read, Report, Reported, Link, LinkRefused,
              MarkConverted, Caught, Throws, OnlyWorker, OnlyRecordAndWorker, Goes, Returns
<1>6. ASSUME pump' = pump PROVE PumpTakesUp
  BY <1>6 DEF PumpTakesUp
<1> QED BY <1>1, <1>2, <1>3, <1>4, <1>5, <1>6 DEF QueueNext, PumpStep

LEMMA RecordsAreThereStep ==
  ASSUME TypedInv, TypedInv', RecordsAreThere, [QueueNext]_queueVars
  PROVE  RecordsAreThere'
<1>1. ASSUME NEW w \in Active' PROVE record'[worker'[w].item] # "none"
  <2>1. CASE w \in Active /\ worker'[w].item = worker[w].item
    <3>1. record[worker[w].item] # "none" /\ worker[w].item \in Items
      BY <2>1 DEF RecordsAreThere, Active, TypedInv, QueueTypeOK, Job
    <3> QED BY <2>1, <3>1, RecordsStay
  <2>2. CASE PumpYields /\ \E e \in pump.page : worker'[w] = NewJob(e)
    <3>1. PICK e \in pump.page : worker'[w] = NewJob(e)
      BY <2>2
    <3>2. worker'[w].item = e.item /\ e.item \in Items /\ record[e.item] # "none"
      BY <3>1 DEF NewJob, RecordsAreThere, TypedInv, QueueTypeOK
    <3> QED BY <3>2, RecordsStay
  <2> QED BY <2>1, <2>2, JobsComeFromThePage
<1>2. ASSUME NEW w \in Active', worker'[w].at = "reported" PROVE worker'[w].held # "none"
  <2>0. w \in Workers /\ worker'[w] # Idle
    BY DEF Active
  <2>1. CASE worker'[w] = worker[w]
    BY <1>2, <2>0, <2>1 DEF RecordsAreThere, Active
  <2>2. CASE WorkerStep(w)
    <3>1. worker[w] \in Job /\ w \in Active
      BY <2>0, <2>2, StepsMoveOrEnd DEF TypedInv, Active, Job
    <3>2. Report(w) \/ worker'[w].at # "reported"
      <4>1. CASE Thrown(w)
        BY <2>0, <3>1, <4>1 DEF Thrown, TypedInv, QueueTypeOK, Job
      <4>2. CASE Reported(w)
        <5>1. worker'[w] = [worker[w] EXCEPT !.at = IF worker[w].linked THEN "finishing" ELSE "linking", !.held = "none"]
          BY <2>0, <4>2 DEF Reported, TypedInv, QueueTypeOK
        <5>2. worker'[w].at \in {"finishing", "linking"}
          BY <3>1, <5>1 DEF Job
        <5> QED BY <5>2
      <4>5. CASE Link(w) /\ ~Thrown(w)
        BY <2>0, <3>1, <4>5 DEF Link, TypedInv, QueueTypeOK, Job
      <4>3. CASE MarkRecovered(w) \/ MarkConverted(w) \/ Caught(w)
        BY <2>0, <4>3 DEF MarkRecovered, MarkConverted, Caught, Returns, Leaves, TypedInv, QueueTypeOK
      <4>4. ASSUME NEW phase \in {"recovered", "marking", "preflight", "reading", "reporting"}, MovesTo(w, phase)
            PROVE  worker'[w].at # "reported"
        BY <2>0, <3>1, <4>4 DEF MovesTo, TypedInv, QueueTypeOK, Job
      <4> QED BY <2>2, <4>1, <4>2, <4>3, <4>4, <4>5
          DEF WorkerStep, Reconcile, MarkRunning, Preflight, Read, LinkRefused, Throws, Goes
    <3>3. CASE Report(w)
      BY <3>1, <3>3 DEF Report, RecordsAreThere, TypedInv, QueueTypeOK
    <3> QED BY <1>2, <3>2, <3>3
  <2>3. CASE UpdateFails(w)
    <3>1. worker[w] \in Job
      BY <2>0, <2>3, StepsMoveOrEnd DEF TypedInv
    <3>2. CASE Thrown(w)
      BY <1>2, <2>0, <3>1, <3>2 DEF Thrown, TypedInv, QueueTypeOK, Job
    <3>3. CASE Leaves(w)
      BY <2>0, <3>3 DEF Leaves, TypedInv, QueueTypeOK
    <3> QED BY <2>3, <3>2, <3>3 DEF UpdateFails
  <2>4. CASE Cancel /\ worker'[w] # worker[w]
    <3>1. worker'[w] = [worker[w] EXCEPT !.aborted = TRUE] /\ w \in Active
      BY <2>0, <2>4, QueueAssumption DEF Cancel, TypedInv, HandlesAreTheirs, Active
    <3> QED BY <1>2, <3>1 DEF RecordsAreThere, Active, TypedInv, QueueTypeOK, Job
  <2>5. CASE PumpYields /\ \E e \in pump.page : worker'[w] = NewJob(e)
    BY <1>2, <2>5 DEF NewJob
  <2>6. ASSUME NEW v \in Workers, v # w, WorkerStep(v) \/ UpdateFails(v) PROVE worker'[w] = worker[w]
    BY <2>0, <2>6, StepsMoveOrEnd DEF MovesOn, Ends, TypedInv, QueueTypeOK
  <2>7. CASE PumpYields /\ worker'[w] # worker[w]
    <3>1. \E e \in pump.page : worker'[w] = NewJob(e)
      BY <2>0, <2>7 DEF PumpYields, Dispatch
    <3> QED BY <2>5, <2>7, <3>1
  <2>8. CASE Restart
    BY <2>0, <2>8 DEF Restart
  <2>9. ASSUME \/ \E i \in Items : Enqueue(i) \/ EnqueueStarts(i) \/ ForeignWrite(i) \/ PumpReads(i)
               \/ Pause \/ Resume \/ CancelStep \/ PumpEnds \/ UNCHANGED queueVars
        PROVE  worker' = worker
    BY <2>9 DEF Enqueue, EnqueueStarts, ForeignWrite, PumpReads, Pause, Resume, CancelStep, CancelReads,
                CancelUpdates, CancelReturns, PumpEnds, queueVars, memoryVars
  <2> QED BY <2>1, <2>2, <2>3, <2>4, <2>5, <2>6, <2>7, <2>8, <2>9 DEF QueueNext, PumpStep
<1>3. ASSUME NEW i \in pump'.unread PROVE record'[i] # "none"
  <2>1. i \in Items
    BY DEF TypedInv, QueueTypeOK
  <2> QED BY <2>1, PumpsTakeUp, RecordsStay DEF PumpTakesUp, RecordsAreThere
<1>4. ASSUME NEW e \in pump'.page PROVE record'[e.item] # "none"
  <2>1. e.item \in Items
    BY DEF TypedInv, QueueTypeOK
  <2> QED BY <2>1, PumpsTakeUp, RecordsStay DEF PumpTakesUp, RecordsAreThere
<1> QED BY <1>1, <1>2, <1>3, <1>4 DEF RecordsAreThere

(* A conversion's last step takes it out of the page that is awaited.      *)
LEMMA StepIsReturnOrMove ==
  ASSUME QueueTypeOK, NEW w \in Workers, WorkerStep(w), worker'[w] = Idle
  PROVE  Returns(w) /\ record'[worker[w].item] # "running"
<1>1. worker[w] \in Job
  BY StepsMoveOrEnd
<1>2. ASSUME MovesOn(w) PROVE FALSE
  BY <1>2 DEF MovesOn
<1>3. MarkRecovered(w) \/ MarkConverted(w) \/ Caught(w)
  <2>1. ASSUME NEW phase \in {"recovered", "marking", "preflight", "reading", "reporting"}, MovesTo(w, phase)
        PROVE  FALSE
    BY <1>1, <2>1 DEF MovesTo, QueueTypeOK, Job
  <2>2. ASSUME Thrown(w) PROVE FALSE
    BY <1>1, <2>2 DEF Thrown, QueueTypeOK, Job
  <2>3. ASSUME Report(w) \/ Reported(w) PROVE FALSE
    <3>1. CASE Report(w)
      BY <1>1, <3>1 DEF Report, QueueTypeOK, Job
    <3>2. CASE Reported(w)
      <4>1. worker'[w] = [worker[w] EXCEPT !.at = IF worker[w].linked THEN "finishing" ELSE "linking", !.held = "none"]
        BY <3>2 DEF Reported, QueueTypeOK
      <4>2. worker'[w].at \in {"finishing", "linking"}
        BY <1>1, <4>1 DEF Job
      <4> QED BY <4>2
    <3> QED BY <2>3, <3>1, <3>2
  <2>4. ASSUME Link(w) PROVE FALSE
    BY <1>1, <2>2, <2>4 DEF Link, QueueTypeOK, Job
  <2> QED BY <2>1, <2>2, <2>3, <2>4
      DEF WorkerStep, Reconcile, MarkRunning, Preflight, Read, LinkRefused, Throws, Goes
<1> QED BY <1>1, <1>3 DEF MarkRecovered, MarkConverted, Caught, Writes, QueueTypeOK, Job

(* The same conversions are at work, on the same items.                    *)
SameWork == Active' = Active /\ \A w \in Active : worker'[w].item = worker[w].item

LEMMA CancelKeepsWork ==
  ASSUME TypedInv, TypedInv', Cancel
  PROVE  SameWork
<1>1. ASSUME NEW w \in Workers
      PROVE  /\ worker'[w] # Idle <=> worker[w] # Idle
             /\ worker[w] # Idle => worker'[w].item = worker[w].item
  <2>1. CASE \E i \in Items : handle[i] = w
    <3>1. worker[w] \in Job
      BY <2>1, QueueAssumption DEF TypedInv, QueueTypeOK, HandlesAreTheirs
    <3>2. worker'[w] = [worker[w] EXCEPT !.aborted = TRUE]
      BY <2>1 DEF Cancel
    <3> QED BY <3>1, <3>2 DEF Job
  <2>2. CASE ~ \E i \in Items : handle[i] = w
    BY <2>2 DEF Cancel, TypedInv, QueueTypeOK
  <2> QED BY <2>1, <2>2
<1> QED BY <1>1 DEF SameWork, Active

LEMMA NoOneWorking ==
  ASSUME TypedInv, OnePump, batch = {}
  PROVE  Active = {} /\ Cardinality({}) = 0 /\ IsFiniteSet({}) /\ 0 <= Concurrency
BY FS_EmptySet, QueueAssumption DEF OnePump

(* A page that is handed over gives each of its entries a worker of its own. *)
LEMMA PageIsHandedOver ==
  ASSUME TypedInv, TypedInv', OnePump, PumpYields
  PROVE  /\ OnePump'
         /\ \A e \in pump.page : \E w \in Active' : worker'[w].item = e.item
<1>1. PICK slot \in [pump.page -> Workers \ Active] :
        /\ \A e, f \in pump.page : slot[e] = slot[f] => e = f
        /\ batch' = {slot[e] : e \in pump.page}
        /\ worker' = [w \in Workers |->
              IF w \in batch' THEN NewJob(CHOOSE e \in pump.page : slot[e] = w) ELSE worker[w]]
  BY DEF PumpYields, Dispatch
<1>2. batch = {} /\ Active = {} /\ pump.page # {} /\ pump' = [pump EXCEPT !.page = {}]
  BY NoOneWorking DEF PumpYields, Dispatch, Reading
<1>3. \A e \in pump.page : slot[e] \in Workers /\ e \in Entry /\ worker'[slot[e]] = NewJob(e)
  BY <1>1 DEF TypedInv, QueueTypeOK
<1>4. \A e \in Entry : NewJob(e) # Idle /\ NewJob(e).item = e.item
  BY DEF NewJob
<1>5. \A e \in pump.page : slot[e] \in Active' /\ worker'[slot[e]].item = e.item
  BY <1>3, <1>4 DEF Active
<1>6. Active' = batch'
  <2>1. batch' \subseteq Active'
    BY <1>1, <1>5
  <2>2. ASSUME NEW w \in Workers, w \notin batch' PROVE worker'[w] = Idle
    <3>1. worker'[w] = worker[w]
      BY <1>1, <2>2
    <3> QED BY <1>2, <3>1 DEF Active
  <2> QED BY <2>1, <2>2 DEF Active
<1>7. Cardinality(batch') <= Concurrency
  <2>1. IsFiniteSet(pump.page) /\ Cardinality(pump.page) <= Concurrency
    BY DEF OnePump
  <2>2. IsFiniteSet(batch') /\ Cardinality(batch') <= Cardinality(pump.page)
    <3>1. slot \in Surjection(pump.page, batch')
      BY <1>1 DEF Surjection
    <3> QED BY <2>1, <3>1, FS_Surjection
  <2> QED BY <2>1, <2>2, FS_CardinalityType, QueueAssumption
<1>8. \A v, w \in Active' : worker'[v].item = worker'[w].item => v = w
  <2> SUFFICES ASSUME NEW v \in batch', NEW w \in batch', worker'[v].item = worker'[w].item PROVE v = w
    BY <1>6
  <2>1. PICK e \in pump.page : v = slot[e]
    BY <1>1
  <2>2. PICK f \in pump.page : w = slot[f]
    BY <1>1
  <2>3. e.item = f.item
    BY <1>5, <2>1, <2>2
  <2> QED BY <2>1, <2>2, <2>3 DEF OnePump
<1>9. \A w \in Active' : worker'[w].item \notin pump'.unread
  <2> SUFFICES ASSUME NEW w \in batch' PROVE worker'[w].item \notin pump'.unread
    BY <1>6
  <2>1. PICK e \in pump.page : w = slot[e]
    BY <1>1
  <2>2. worker'[w].item = e.item /\ pump'.unread = pump.unread
    BY <1>2, <1>5, <2>1 DEF TypedInv, QueueTypeOK
  <2> QED BY <2>2 DEF OnePump
<1>10. pump'.page = {} /\ pump'.on
  BY <1>2 DEF PumpYields, Reading, TypedInv, QueueTypeOK
<1>11. OnePump'
  BY <1>6, <1>7, <1>8, <1>9, <1>10, NoOneWorking, <1>2 DEF OnePump
<1> QED BY <1>5, <1>11

LEMMA EntryIsRead ==
  ASSUME TypedInv, TypedInv', OnePump, NEW i \in Items, PumpReads(i)
  PROVE  OnePump'
<1> DEFINE e == [item |-> i, wasRunning |-> record[i] = "running"]
<1>1. e.item = i
  OBVIOUS
<1> HIDE DEF e
<1>2. /\ pump.on /\ batch = {} /\ i \in pump.unread /\ Active = {}
      /\ batch' = batch /\ worker' = worker
  BY NoOneWorking DEF PumpReads, Reading
<1>3. \/ pump' = [pump EXCEPT !.unread = @ \ {i}]
      \/ pump' = [pump EXCEPT !.unread = @ \ {i}, !.page = @ \cup {e}]
  BY DEF PumpReads, e
<1>4. /\ pump'.on /\ pump'.unread = pump.unread \ {i}
      /\ pump'.page = pump.page \/ pump'.page = pump.page \cup {e}
  BY <1>2, <1>3 DEF TypedInv, QueueTypeOK
<1>5. IsFiniteSet(pump'.page) /\ Cardinality(pump'.page) <= Concurrency
  <2>1. IsFiniteSet(pump.page) /\ Cardinality(pump.page) \in Nat /\ Cardinality(pump.page) < Concurrency
    BY FS_CardinalityType, QueueAssumption DEF PumpReads, PageIsFull, OnePump
  <2>2. /\ IsFiniteSet(pump.page \cup {e})
        /\ \/ Cardinality(pump.page \cup {e}) = Cardinality(pump.page)
           \/ Cardinality(pump.page \cup {e}) = Cardinality(pump.page) + 1
    BY <2>1, FS_AddElement
  <2>3. Cardinality(pump.page \cup {e}) <= Concurrency
    BY <2>1, <2>2, QueueAssumption
  <2>4. Cardinality(pump.page) <= Concurrency
    BY <2>1, QueueAssumption
  <2>5. CASE pump'.page = pump.page
    BY <2>1, <2>4, <2>5
  <2>6. CASE pump'.page = pump.page \cup {e}
    BY <2>2, <2>3, <2>6
  <2> QED BY <1>4, <2>5, <2>6
<1>6. /\ \A f, g \in pump'.page : f.item = g.item => f = g
      /\ \A f \in pump'.page : f.item \notin pump'.unread
  BY <1>1, <1>2, <1>4 DEF OnePump
<1>7. Active' = {} /\ batch' = {}
  BY <1>2 DEF Active
<1> QED BY <1>4, <1>5, <1>6, <1>7, NoOneWorking, <1>2 DEF OnePump

LEMMA OnePumpStep ==
  ASSUME TypedInv, TypedInv', RecordsAreThere, OnePump, [QueueNext]_queueVars, faults' = faults
  PROVE  OnePump'
<1>1. ASSUME SameWork, pump' = pump, batch' = batch PROVE OnePump'
  BY <1>1 DEF SameWork, OnePump
<1>2. ASSUME NEW i \in Items, Enqueue(i) PROVE OnePump'
  <2>1. \/ pump' = pump
        \/ pump.on /\ pump' = [pump EXCEPT !.unread = @ \cup {i}]
    BY <1>2 DEF Enqueue, MayNotice
  <2>2. record[i] = "none" /\ batch' = batch /\ Active' = Active /\ worker' = worker
    BY <1>2 DEF Enqueue, Active
  <2>3. /\ \A w \in Active : worker[w].item # i
        /\ \A e \in pump.page : e.item # i
    BY <2>2 DEF RecordsAreThere
  <2>4. CASE pump' = pump
    BY <1>1, <2>2, <2>4 DEF SameWork
  <2>5. CASE pump.on /\ pump' = [pump EXCEPT !.unread = @ \cup {i}]
    <3>1. pump'.on /\ pump'.page = pump.page /\ pump'.unread = pump.unread \cup {i}
      BY <2>5 DEF TypedInv, QueueTypeOK
    <3> QED BY <2>2, <2>3, <3>1 DEF OnePump
  <2> QED BY <2>1, <2>4, <2>5
<1>3. ASSUME Resume \/ \E i \in Items : EnqueueStarts(i) PROVE OnePump'
  <2>1. pump' = Started /\ batch' = batch /\ Active' = Active /\ worker' = worker
    BY <1>3 DEF Resume, EnqueueStarts, Active
  <2>2. CASE pump.on
    BY <1>1, <2>1, <2>2 DEF Started, SameWork
  <2>3. CASE ~pump.on
    <3>1. batch = {} /\ pump'.on /\ pump'.page = {}
      BY <2>1, <2>3 DEF Started, OnePump
    <3> QED BY <2>1, <3>1, NoOneWorking DEF OnePump
  <2> QED BY <2>2, <2>3
<1>4. CASE Cancel
  BY <1>1, <1>4, CancelKeepsWork DEF Cancel
<1>5. CASE PumpEnds
  <2>1. batch = {} /\ pump' = PumpOff /\ batch' = {} /\ Active' = Active
    BY <1>5 DEF PumpEnds, Reading, Active
  <2> QED BY <2>1, NoOneWorking DEF OnePump
<1>6. ASSUME NEW w \in Workers, WorkerStep(w) PROVE OnePump'
  <2>1. w \in Active /\ worker[w] \in Job /\ (MovesOn(w) \/ Ends(w))
    BY <1>6, StepsMoveOrEnd DEF TypedInv, Active, Job
  <2>2. CASE MovesOn(w)
    <3>1. SameWork
      BY <2>1, <2>2 DEF MovesOn, SameWork, Active
    <3> QED BY <1>1, <2>2, <3>1 DEF MovesOn
  <2>3. CASE Ends(w)
    <3>1. worker'[w] = Idle /\ \A v \in Workers \ {w} : worker'[v] = worker[v]
      BY <2>3 DEF Ends, TypedInv, QueueTypeOK
    <3>2. pump' = pump /\ batch' = batch \ {w}
      BY <1>6, <3>1, StepIsReturnOrMove DEF TypedInv, Returns
    <3>3. Active' = Active \ {w}
      BY <3>1 DEF Active
    <3>4. IsFiniteSet(batch) /\ Cardinality(batch \ {w}) <= Concurrency
      <4>1. IsFiniteSet(batch)
        BY QueueAssumption, FS_Subset DEF TypedInv, QueueTypeOK
      <4>2. Cardinality(batch \ {w}) <= Cardinality(batch)
        BY <4>1, FS_Subset
      <4>3. Cardinality(batch \ {w}) \in Nat /\ Cardinality(batch) \in Nat
        BY <4>1, FS_Subset, FS_CardinalityType
      <4> QED BY <4>1, <4>2, <4>3, QueueAssumption DEF OnePump
    <3>5. \A v \in Active' : v \in Active /\ worker'[v] = worker[v]
      BY <3>1, <3>3 DEF Active
    <3> QED BY <2>1, <3>2, <3>3, <3>4, <3>5 DEF OnePump
  <2> QED BY <2>1, <2>2, <2>3
<1>7. CASE Restart
  <2>1. pump' = PumpOff /\ batch' = {} /\ Active' = {}
    BY <1>7 DEF Restart, Active
  <2> QED BY <2>1, FS_EmptySet, QueueAssumption DEF OnePump
<1>8. ASSUME \/ Pause \/ CancelStep \/ UNCHANGED queueVars
             \/ \E i \in Items : ForeignWrite(i)
      PROVE  OnePump'
  <2>1. pump' = pump /\ batch' = batch /\ worker' = worker
    BY <1>8 DEF Pause, CancelStep, CancelReads, CancelUpdates, CancelReturns, ForeignWrite, queueVars, memoryVars
  <2> QED BY <1>1, <2>1 DEF SameWork, Active
<1>9. ASSUME NEW w \in Workers, UpdateFails(w) PROVE FALSE
  BY <1>9, QueueAssumption DEF UpdateFails, TypedInv, QueueTypeOK
<1> QED BY <1>2, <1>3, <1>4, <1>5, <1>6, <1>7, <1>8, <1>9, EntryIsRead, PageIsHandedOver DEF QueueNext, PumpStep

-----------------------------------------------------------------------------
(* A record found running has a worker on it, or a restart left it.        *)
Watched == \A i \in Items : record[i] = "running" => i \in stranded \/ \E w \in Active : worker[w].item = i

LEMMA WatchedStep ==
  ASSUME TypedInv, TypedInv', OnePump, Watched, [QueueNext]_queueVars, faults' = faults
  PROVE  Watched'
<1> SUFFICES ASSUME NEW i \in Items, record'[i] = "running"
             PROVE  i \in stranded' \/ \E w \in Active' : worker'[w].item = i
  BY DEF Watched
<1>1. ASSUME SameWork, record[i] = "running", stranded' = stranded
      PROVE  i \in stranded' \/ \E w \in Active' : worker'[w].item = i
  BY <1>1 DEF Watched, SameWork
<1>2. ASSUME NEW w \in Workers, WorkerStep(w)
      PROVE  i \in stranded' \/ \E v \in Active' : worker'[v].item = i
  <2>1. w \in Active /\ worker[w] \in Job /\ (MovesOn(w) \/ Ends(w))
    BY <1>2, StepsMoveOrEnd DEF TypedInv, Active, Job
  <2>2. CASE worker[w].item = i
    <3>1. MovesOn(w)
      <4>1. CASE Ends(w)
        BY <1>2, <2>2, <4>1, StepIsReturnOrMove DEF Ends, TypedInv, QueueTypeOK
      <4> QED BY <2>1, <4>1
    <3> QED BY <2>2, <3>1 DEF MovesOn, Active
  <2>3. CASE worker[w].item # i
    <3>1. record[i] = "running" /\ stranded' = stranded
      BY <1>2, <2>1, <2>3
      DEF WorkerStep, Reconcile, MarkRecovered, MarkRunning, Preflight, Read, Report, Reported, Link, LinkRefused,
          MarkConverted, Caught, Throws, OnlyWorker, OnlyRecordAndWorker, Goes, Returns, Writes, TypedInv, QueueTypeOK
    <3>2. \A v \in Workers \ {w} : worker'[v] = worker[v]
      BY <2>1 DEF MovesOn, Ends, TypedInv, QueueTypeOK
    <3>3. CASE \E v \in Active : worker[v].item = i
      BY <2>3, <3>2, <3>3 DEF Active
    <3> QED BY <3>1, <3>3 DEF Watched
  <2> QED BY <2>2, <2>3
<1>3. CASE PumpYields
  <2>1. Active = {} /\ record' = record /\ stranded' = stranded \ {e.item : e \in pump.page}
    BY <1>3, NoOneWorking DEF PumpYields, Dispatch, Reading
  <2>2. i \in stranded
    BY <2>1 DEF Watched
  <2>3. CASE \E e \in pump.page : e.item = i
    BY <1>3, <2>3, PageIsHandedOver
  <2> QED BY <2>1, <2>2, <2>3
<1>4. CASE Restart
  BY <1>4 DEF Restart
<1>5. CASE Cancel
  BY <1>1, <1>5, CancelKeepsWork DEF Cancel
<1>6. ASSUME \/ \E k \in Items : Enqueue(k) \/ EnqueueStarts(k) \/ ForeignWrite(k) \/ PumpReads(k)
             \/ Pause \/ Resume \/ CancelStep \/ PumpEnds \/ UNCHANGED queueVars
      PROVE  i \in stranded' \/ \E w \in Active' : worker'[w].item = i
  <2>1. worker' = worker /\ stranded' = stranded
    BY <1>6 DEF Enqueue, EnqueueStarts, ForeignWrite, PumpReads, Pause, Resume, CancelStep, CancelReads,
                CancelUpdates, CancelReturns, PumpEnds, queueVars, memoryVars
  <2>2. record[i] = "running"
    <3>1. ASSUME NEW k \in Items, Enqueue(k) \/ CancelUpdates(k) PROVE record[i] = "running"
      BY <3>1 DEF Enqueue, CancelUpdates, TypedInv, QueueTypeOK
    <3>2. ASSUME \/ \E k \in Items : EnqueueStarts(k) \/ ForeignWrite(k) \/ PumpReads(k) \/ CancelReads(k)
                 \/ Pause \/ Resume \/ CancelReturns \/ PumpEnds \/ UNCHANGED queueVars
          PROVE  record' = record
      BY <3>2 DEF EnqueueStarts, ForeignWrite, PumpReads, Pause, Resume, CancelReads, CancelReturns, PumpEnds, queueVars
    <3> QED BY <1>6, <3>1, <3>2 DEF CancelStep
  <2> QED BY <1>1, <2>1, <2>2 DEF SameWork, Active
<1>7. ASSUME NEW w \in Workers, UpdateFails(w) PROVE FALSE
  BY <1>7, QueueAssumption DEF UpdateFails, TypedInv, QueueTypeOK
<1> QED BY <1>2, <1>3, <1>4, <1>5, <1>6, <1>7 DEF QueueNext, PumpStep

LEMMA FaultsStay ==
  ASSUME TypedInv, [QueueNext]_queueVars, faults' = 0
  PROVE  faults = 0 /\ faults' = faults
<1>1. ASSUME NEW w \in Workers, UpdateFails(w) PROVE FALSE
  BY <1>1, QueueAssumption DEF UpdateFails, TypedInv, QueueTypeOK
<1>2. ASSUME NEW w \in Workers, WorkerStep(w) PROVE faults' = faults
  BY <1>2 DEF WorkerStep, Reconcile, MarkRecovered, MarkRunning, Preflight, Read, Report, Reported, Link, LinkRefused,
              MarkConverted, Caught, Throws, OnlyWorker, OnlyRecordAndWorker, Goes, Returns
<1>3. ASSUME NEW k \in Items, Enqueue(k) \/ EnqueueStarts(k) \/ ForeignWrite(k) PROVE faults' = faults
  BY <1>3 DEF Enqueue, EnqueueStarts, ForeignWrite
<1>4. ASSUME Pause \/ Resume \/ Cancel \/ CancelStep \/ PumpStep \/ Restart \/ UNCHANGED queueVars
      PROVE  faults' = faults
  BY <1>4 DEF Pause, Resume, Cancel, CancelStep, CancelReads, CancelUpdates, CancelReturns, PumpStep, PumpReads,
              PumpYields, Dispatch, PumpEnds, Restart, queueVars
<1> QED BY <1>1, <1>2, <1>3, <1>4 DEF QueueNext

(* As long as no update of a record fails there is one pump, it has no more *)
(* conversions than configured, no item twice, and no record is left at     *)
(* running with nobody on it, for any items, workers, concurrency and       *)
(* restarts, however pausing, resuming, cancelling and enqueueing interleave *)
(* (ConverterQueueController#run and #runOne).                              *)
THEOREM AllAreAccountedFor == QueueSpec => []WorkersAreAccountedFor
<1> DEFINE Inv == TypedInv /\ RecordsAreThere /\ (faults = 0 => OnePump /\ Watched)
<1>1. QueueInit => Inv
  <2> SUFFICES ASSUME QueueInit PROVE Inv
    OBVIOUS
  <2>1. Active = {} /\ pump = PumpOff /\ batch = {}
    BY DEF QueueInit, Active
  <2>2. OnePump
    BY <2>1, FS_EmptySet, QueueAssumption DEF OnePump
  <2>3. RecordsAreThere /\ Watched
    BY <2>1 DEF QueueInit, RecordsAreThere, Watched
  <2> QED BY <2>2, <2>3, InitIsTyped
<1>2. Inv /\ [QueueNext]_queueVars => Inv'
  <2> SUFFICES ASSUME Inv, [QueueNext]_queueVars PROVE Inv'
    OBVIOUS
  <2>1. TypedInv'
    BY TypedStep
  <2>2. RecordsAreThere'
    BY <2>1, RecordsAreThereStep
  <2>3. ASSUME faults' = 0 PROVE OnePump' /\ Watched'
    <3>1. faults = 0 /\ faults' = faults
      BY <2>3, FaultsStay
    <3> QED BY <2>1, <3>1, OnePumpStep, WatchedStep
  <2> QED BY <2>1, <2>2, <2>3
<1>3. Inv => WorkersAreAccountedFor
  <2> SUFFICES ASSUME Inv, faults = 0 PROVE
        /\ Cardinality(Active) <= Concurrency
        /\ \A v, w \in Active : worker[v].item = worker[w].item => v = w
        /\ Watched
    BY DEF WorkersAreAccountedFor, ConcurrencyIsBounded, RunningIsWatched, Watched
  <2> QED BY DEF OnePump
<1> HIDE DEF Inv
<1> QED BY <1>1, <1>2, <1>3, PTL DEF QueueSpec

=============================================================================
