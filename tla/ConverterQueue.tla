---------------------------- MODULE ConverterQueue ----------------------------
(***************************************************************************)
(* The file converter's persistent queue: ConverterQueueController (the    *)
(* pump, its workers, pause, resume and cancel), the record files of       *)
(* FileConverterQueueStore, the conversions of FileConverterQueueWorker,   *)
(* the ipc handlers that call them, and the loss of the main process.      *)
(*                                                                         *)
(* One async function runs up to its next await as one step.  A directory  *)
(* walk is lazy: each record is read at its own time.  An update of a      *)
(* record's status overwrites whatever is there, so it is one step, its    *)
(* rename; a progress report rewrites the status it read before, so it is  *)
(* two.                                                                    *)
(*                                                                         *)
(* An operator whose name ends in an underscore and a word is a mutated    *)
(* form of the definition after it and is used by nothing here.            *)
(***************************************************************************)
EXTENDS Naturals, FiniteSets

CONSTANTS
    Items,        \* queue items, each with its own destination
    Contested,    \* bound: items at whose destination other programs write
    Workers,      \* slots for the runOne calls that may overlap
    NoWorker,     \* not a worker
    Concurrency,  \* the controller's concurrency (2 in main.ts)
    MaxFaults,    \* bound: updates of a record that fail (disk full, locked)
    MaxRestarts   \* bound: how often the main process is lost

ASSUME QueueAssumption ==
    /\ IsFiniteSet(Items) /\ IsFiniteSet(Workers)
    /\ Contested \subseteq Items
    /\ NoWorker \notin Workers
    /\ Concurrency \in Nat \ {0}
    /\ MaxFaults \in Nat /\ MaxRestarts \in Nat

VARIABLES
    record,     \* the status in each item's record file; "none" when there is none
    output,     \* what is at each item's destination
    paused,     \* the controller's two flags ...
    cancelled,
    pump,       \* ... its pump: the records not read yet, the page being filled
    batch,      \* the runOne calls the pump awaits
    worker,     \* every runOne call in progress
    handle,     \* the map of abort controllers, by item
    cancelling, \* a cancel() in progress: records to read, items to update
    starting,   \* items whose enqueue handler has yet to call start()
    faults,
    restarts,
    stranded    \* running records the last restart left behind (ghost)

memoryVars == <<paused, cancelled, pump, batch, worker, handle, cancelling, starting>>

queueVars == <<record, output, memoryVars, faults, restarts, stranded>>

Statuses == {"queued", "running", "paused", "converted", "cancelled", "failed"}

Recorded == {i \in Items : record[i] # "none"}

(* A page entry is what the walk saw of a record: the item and whether it  *)
(* was running, which is all runOne uses of it.                            *)
Entry == [item : Items, wasRunning : BOOLEAN]

Idle == [at |-> "idle"]

Job == [at : {"reconciling", "recovered", "marking", "preflight", "reading", "reporting",
              "reported", "linking", "finishing", "caught"},
        item : Items, aborted : BOOLEAN, linked : BOOLEAN,
        held : Statuses \cup {"none"}]

PumpOff == [on |-> FALSE, unread |-> {}, page |-> {}]

NotCancelling == [on |-> FALSE, unread |-> {}, page |-> {}]

Active == {w \in Workers : worker[w] # Idle}

QueueTypeOK ==
    /\ record \in [Items -> Statuses \cup {"none"}]
    /\ output \in [Items -> {"absent", "ours", "foreign"}]
    /\ paused \in BOOLEAN /\ cancelled \in BOOLEAN
    /\ pump \in [on : BOOLEAN, unread : SUBSET Items, page : SUBSET Entry]
    /\ batch \in SUBSET Workers
    /\ worker \in [Workers -> Job \cup {Idle}]
    /\ handle \in [Items -> Workers \cup {NoWorker}]
    /\ cancelling \in [on : BOOLEAN, unread : SUBSET Items, page : SUBSET Items]
    /\ starting \in SUBSET Items
    /\ faults \in 0 .. MaxFaults /\ restarts \in 0 .. MaxRestarts
    /\ stranded \in SUBSET Items

QueueInit ==
    /\ record = [i \in Items |-> "none"]
    /\ output = [i \in Items |-> "absent"]
    /\ paused = FALSE /\ cancelled = FALSE
    /\ pump = PumpOff
    /\ batch = {}
    /\ worker = [w \in Workers |-> Idle]
    /\ handle = [i \in Items |-> NoWorker]
    /\ cancelling = NotCancelling
    /\ starting = {}
    /\ faults = 0 /\ restarts = 0
    /\ stranded = {}

-----------------------------------------------------------------------------
(* enqueue appends the record file.  A directory walk under way may or may *)
(* not come across it.                                                     *)
MayNotice(walk, i) ==
    {walk} \cup (IF walk.on THEN {[walk EXCEPT !.unread = @ \cup {i}]} ELSE {})

Enqueue(i) ==
    /\ record[i] = "none"
    /\ record' = [record EXCEPT ![i] = "queued"]
    /\ starting' = starting \cup {i}
    /\ pump' \in MayNotice(pump, i)
    /\ cancelling' \in MayNotice(cancelling, i)
    /\ UNCHANGED <<output, paused, cancelled, batch, worker, handle, faults, restarts, stranded>>

(* start(): a pump already running is returned as it is.                   *)
Started_Anew == [on |-> TRUE, unread |-> Recorded, page |-> {}]

Started == IF pump.on THEN pump ELSE [on |-> TRUE, unread |-> Recorded, page |-> {}]

EnqueueStarts(i) ==
    /\ i \in starting
    /\ starting' = starting \ {i}
    /\ cancelled' = (cancelled /\ pump.on)
    /\ pump' = Started
    /\ UNCHANGED <<record, output, paused, batch, worker, handle, cancelling, faults,
                   restarts, stranded>>

Pause ==
    /\ paused' = TRUE
    /\ UNCHANGED <<record, output, cancelled, pump, batch, worker, handle, cancelling,
                   starting, faults, restarts, stranded>>

Resume ==
    /\ paused' = FALSE
    /\ cancelled' = FALSE
    /\ pump' = Started
    /\ UNCHANGED <<record, output, batch, worker, handle, cancelling, starting, faults,
                   restarts, stranded>>

(* cancel(): the flag and every abort signal at once; then a walk of its   *)
(* own over the records that were not started.                             *)
Cancel ==
    /\ ~cancelling.on
    /\ cancelled' = TRUE
    /\ worker' = [w \in Workers |->
           IF \E i \in Items : handle[i] = w THEN [worker[w] EXCEPT !.aborted = TRUE] ELSE worker[w]]
    /\ cancelling' = [on |-> TRUE, unread |-> Recorded, page |-> {}]
    /\ UNCHANGED <<record, output, paused, pump, batch, handle, starting, faults, restarts,
                   stranded>>

CancelReads(i) ==
    /\ i \in cancelling.unread
    /\ cancelling' = [cancelling EXCEPT !.unread = @ \ {i},
           !.page = IF record[i] \in {"queued", "paused"} THEN @ \cup {i} ELSE @]
    /\ UNCHANGED <<record, output, paused, cancelled, pump, batch, worker, handle, starting,
                   faults, restarts, stranded>>

CancelUpdates(i) ==
    /\ cancelling.unread = {} /\ i \in cancelling.page
    /\ record' = [record EXCEPT ![i] = "cancelled"]
    /\ cancelling' = [cancelling EXCEPT !.page = @ \ {i}]
    /\ UNCHANGED <<output, paused, cancelled, pump, batch, worker, handle, starting, faults,
                   restarts, stranded>>

CancelReturns ==
    /\ cancelling.on /\ cancelling.unread = {} /\ cancelling.page = {}
    /\ cancelling' = NotCancelling
    /\ UNCHANGED <<record, output, paused, cancelled, pump, batch, worker, handle, starting,
                   faults, restarts, stranded>>

-----------------------------------------------------------------------------
(* The pump walks the directory, filling a page of at most Concurrency ... *)
Reading == pump.on /\ batch = {}

PageIsFull_OneMore == Cardinality(pump.page) = Concurrency + 1

PageIsFull == Cardinality(pump.page) = Concurrency

PumpReads(i) ==
    /\ Reading /\ ~PageIsFull
    /\ i \in pump.unread
    /\ pump' = [pump EXCEPT !.unread = @ \ {i},
           !.page = IF record[i] \in {"queued", "paused", "running"}
                    THEN @ \cup {[item |-> i, wasRunning |-> record[i] = "running"]} ELSE @]
    /\ UNCHANGED <<record, output, paused, cancelled, batch, worker, handle, cancelling,
                   starting, faults, restarts, stranded>>

(* ... and hands a full or final page over, unless paused or cancelled:    *)
(* every entry gets a runOne and an abort controller of its own.           *)
NewJob(e) ==
    [at |-> IF e.wasRunning THEN "reconciling" ELSE "marking",
     item |-> e.item, aborted |-> FALSE, linked |-> FALSE, held |-> "none"]

Dispatch ==
    /\ \E slot \in [pump.page -> Workers \ Active] :
           /\ \A e, f \in pump.page : slot[e] = slot[f] => e = f
           /\ batch' = {slot[e] : e \in pump.page}
           /\ worker' = [w \in Workers |->
                 IF w \in batch' THEN NewJob(CHOOSE e \in pump.page : slot[e] = w) ELSE worker[w]]
           /\ handle' = [i \in Items |->
                 IF \E e \in pump.page : e.item = i
                 THEN slot[CHOOSE e \in pump.page : e.item = i] ELSE handle[i]]
    /\ pump' = [pump EXCEPT !.page = {}]
    /\ stranded' = stranded \ {e.item : e \in pump.page}
    /\ UNCHANGED <<record, output, paused, cancelled, cancelling, starting, faults, restarts>>

PumpYields ==
    /\ Reading /\ pump.page # {}
    /\ PageIsFull \/ pump.unread = {}
    /\ ~paused /\ ~cancelled
    /\ Dispatch

PumpEnds_EmptyPage ==
    /\ Reading
    /\ \/ pump.page = {}
       \/ (PageIsFull \/ pump.unread = {}) /\ (paused \/ cancelled)
    /\ pump' = PumpOff
    /\ UNCHANGED <<record, output, paused, cancelled, batch, worker, handle, cancelling,
                   starting, faults, restarts, stranded>>

PumpEnds ==
    /\ Reading
    /\ \/ pump.unread = {} /\ pump.page = {}
       \/ (PageIsFull \/ pump.unread = {}) /\ (paused \/ cancelled)
    /\ pump' = PumpOff
    /\ UNCHANGED <<record, output, paused, cancelled, batch, worker, handle, cancelling,
                   starting, faults, restarts, stranded>>

-----------------------------------------------------------------------------
(* runOne, up to each of its awaits.                                       *)
At(w, phase) == worker[w] # Idle /\ worker[w].at = phase

MovesTo(w, phase) == worker' = [worker EXCEPT ![w].at = phase]

OnlyWorker ==
    UNCHANGED <<record, output, paused, cancelled, pump, batch, handle, cancelling, starting,
                faults, restarts, stranded>>

(* An awaited call throws.  All the catch block looks at is the signal.    *)
Thrown(w) ==
    worker' = [worker EXCEPT ![w] = [@ EXCEPT !.at = "caught", !.linked = FALSE, !.held = "none"]]

Throws(w) == Thrown(w) /\ OnlyWorker

(* The record's status is rewritten and runOne goes on or returns.         *)
Writes(w, status) == record' = [record EXCEPT ![worker[w].item] = status]

OnlyRecordAndWorker ==
    UNCHANGED <<output, paused, cancelled, pump, batch, handle, cancelling, starting, faults,
                restarts, stranded>>

Goes(w, phase) == MovesTo(w, phase) /\ OnlyRecordAndWorker

Leaves(w) ==
    /\ worker' = [worker EXCEPT ![w] = Idle]
    /\ handle' = [handle EXCEPT ![worker[w].item] = NoWorker]

Returns(w) ==
    /\ Leaves(w)
    /\ batch' = batch \ {w}
    /\ UNCHANGED <<output, paused, cancelled, pump, cancelling, starting, faults, restarts,
                   stranded>>

(* A record found running is compared with its destination first.          *)
Reconcile_TrustsAnyFile(w) ==
    /\ At(w, "reconciling")
    /\ \/ output[worker[w].item] # "absent" /\ MovesTo(w, "recovered")
       \/ MovesTo(w, "marking")
       \/ Thrown(w)
    /\ OnlyWorker

(* It retries when a file is missing, the destination or the source, and   *)
(* throws when the destination is another file or one cannot be read.      *)
Reconcile(w) ==
    /\ At(w, "reconciling")
    /\ \/ output[worker[w].item] = "ours" /\ MovesTo(w, "recovered")
       \/ MovesTo(w, "marking")
       \/ Thrown(w)
    /\ OnlyWorker

MarkRecovered(w) == At(w, "recovered") /\ Writes(w, "converted") /\ Returns(w)

MarkRunning(w) == At(w, "marking") /\ Writes(w, "running") /\ Goes(w, "preflight")

(* The adapter is missing, the source gone or too large, the disk full.    *)
Preflight(w) ==
    /\ At(w, "preflight")
    /\ \/ MovesTo(w, "reading") /\ OnlyWorker
       \/ Throws(w)

(* convertFile: abort is looked at before and after the source is read ... *)
Read(w) ==
    /\ At(w, "reading")
    /\ \/ ~worker[w].aborted /\ MovesTo(w, "reporting") /\ OnlyWorker
       \/ Throws(w)

(* ... each progress report rewrites the record with what it read of it ...*)
Report(w) ==
    /\ At(w, "reporting")
    /\ worker' = [worker EXCEPT ![w].at = "reported", ![w].held = record[worker[w].item]]
    /\ OnlyWorker

Reported(w) ==
    /\ At(w, "reported")
    /\ Writes(w, worker[w].held)
    /\ worker' = [worker EXCEPT ![w] = [@ EXCEPT
           !.at = IF worker[w].linked THEN "finishing" ELSE "linking", !.held = "none"]]
    /\ OnlyRecordAndWorker

(* ... and the finished file is linked to a destination nobody has taken;  *)
(* removing its temporary name may still throw.                            *)
Link_Overwrites(w) ==
    /\ At(w, "linking")
    /\ ~worker[w].aborted
    /\ output' = [output EXCEPT ![worker[w].item] = "ours"]
    /\ \/ worker' = [worker EXCEPT ![w].at = "reporting", ![w].linked = TRUE]
       \/ Thrown(w)
    /\ UNCHANGED <<record, paused, cancelled, pump, batch, handle, cancelling, starting,
                   faults, restarts, stranded>>

Link(w) ==
    /\ At(w, "linking")
    /\ ~worker[w].aborted
    /\ output[worker[w].item] = "absent"
    /\ output' = [output EXCEPT ![worker[w].item] = "ours"]
    /\ \/ worker' = [worker EXCEPT ![w].at = "reporting", ![w].linked = TRUE]
       \/ Thrown(w)
    /\ UNCHANGED <<record, paused, cancelled, pump, batch, handle, cancelling, starting,
                   faults, restarts, stranded>>

(* Aborted, the destination taken, the bytes not convertible, the disk     *)
(* full, the written file not valid.                                       *)
LinkRefused(w) == At(w, "linking") /\ Throws(w)

MarkConverted(w) == At(w, "finishing") /\ Writes(w, "converted") /\ Returns(w)

(* The catch block, with the flags of that moment.                         *)
Caught(w) ==
    /\ At(w, "caught")
    /\ Writes(w, IF worker[w].aborted \/ cancelled THEN "cancelled"
                 ELSE IF paused THEN "paused" ELSE "failed")
    /\ Returns(w)

(* An update of the record fails: in the body it is caught, in the catch   *)
(* block it rejects the pump's Promise.all, and the pump is gone while the *)
(* rest of its page still runs.                                            *)
UpdateFails(w) ==
    /\ faults < MaxFaults /\ faults' = faults + 1
    /\ \/ /\ \E phase \in {"recovered", "marking", "reported", "finishing"} : At(w, phase)
          /\ Thrown(w)
          /\ UNCHANGED <<pump, batch, handle>>
       \/ /\ At(w, "caught")
          /\ Leaves(w)
          /\ IF w \in batch THEN pump' = PumpOff /\ batch' = {} ELSE UNCHANGED <<pump, batch>>
    /\ UNCHANGED <<record, output, paused, cancelled, cancelling, starting, restarts, stranded>>

-----------------------------------------------------------------------------
(* The main process is lost; records and outputs stay.  Nothing restarts   *)
(* the pump by itself.                                                     *)
Restart ==
    /\ restarts < MaxRestarts /\ restarts' = restarts + 1
    /\ paused' = FALSE /\ cancelled' = FALSE
    /\ pump' = PumpOff /\ batch' = {}
    /\ worker' = [w \in Workers |-> Idle]
    /\ handle' = [i \in Items |-> NoWorker]
    /\ cancelling' = NotCancelling
    /\ starting' = {}
    /\ stranded' = {i \in Items : record[i] = "running"}
    /\ UNCHANGED <<record, output, faults>>

(* Environment: another program writes a file at a free destination.       *)
ForeignWrite(i) ==
    /\ i \in Contested
    /\ output[i] = "absent"
    /\ output' = [output EXCEPT ![i] = "foreign"]
    /\ UNCHANGED <<record, memoryVars, faults, restarts, stranded>>

WorkerStep(w) ==
    \/ Reconcile(w) \/ MarkRecovered(w) \/ MarkRunning(w) \/ Preflight(w) \/ Read(w)
    \/ Report(w) \/ Reported(w) \/ Link(w) \/ LinkRefused(w) \/ MarkConverted(w) \/ Caught(w)

PumpStep == (\E i \in Items : PumpReads(i)) \/ PumpYields \/ PumpEnds

CancelStep == (\E i \in Items : CancelReads(i) \/ CancelUpdates(i)) \/ CancelReturns

QueueNext ==
    \/ \E i \in Items : Enqueue(i) \/ EnqueueStarts(i) \/ ForeignWrite(i)
    \/ Pause \/ Resume \/ Cancel \/ CancelStep
    \/ PumpStep
    \/ \E w \in Workers : WorkerStep(w) \/ UpdateFails(w)
    \/ Restart

(* Awaited file operations settle.                                         *)
QueueFairness ==
    /\ WF_queueVars(PumpStep)
    /\ WF_queueVars(CancelStep)
    /\ \A w \in Workers : WF_queueVars(WorkerStep(w))

QueueSpec == QueueInit /\ [][QueueNext]_queueVars /\ QueueFairness

-----------------------------------------------------------------------------
(* Never more conversions at a time than configured, whatever is paused,   *)
(* cancelled, resumed or enqueued meanwhile, and no item twice; as long as *)
(* no update of a record fails, which can leave two pumps running.         *)
ConcurrencyIsBounded ==
    faults = 0 =>
        /\ Cardinality(Active) <= Concurrency
        /\ \A v, w \in Active : worker[v].item = worker[w].item => v = w

(* A record says converted only when the converted file is really there.   *)
ConvertedHasOutput == \A i \in Items : record[i] = "converted" => output[i] = "ours"

(* Conversion never replaces a file it did not write, even one that turns  *)
(* up while it runs or while the process is down.                          *)
ForeignIsKept ==
    [][\A i \in Items : output[i] = "foreign" => output'[i] = "foreign"]_queueVars

(* A record left at running is one a worker is on, or one a restart left; *)
(* as long as no update of a record fails.                                 *)
RunningIsWatched ==
    faults = 0 =>
        \A i \in Items : record[i] = "running" =>
            i \in stranded \/ \E w \in Active : worker[w].item = i

(* As long as no record's update fails, workers and records tell the same  *)
(* story: no conversion too many, none twice, none that nobody is on.      *)
WorkersAreAccountedFor == ConcurrencyIsBounded /\ RunningIsWatched

(* "Cancelled before conversion": a cancelled item is not converted later. *)
CancelledIsNotConverted ==
    [][\A i \in Items : record[i] = "cancelled" /\ output[i] = "absent" => output'[i] # "ours"]_queueVars

(* A pump comes to an end: resume and start await it.                      *)
PumpFinishes == pump.on ~> ~pump.on

(* A queued record the pump has not passed yet is worked on, unless the    *)
(* queue is paused or cancelled on the way.                                *)
SeenItemIsWorkedOn ==
    \A i \in Items :
        (i \in pump.unread /\ record[i] = "queued") ~> (record[i] # "queued" \/ paused \/ cancelled)

(* The queue serves what it has begun on: neither a walk nor a page of it  *)
(* hangs, and nothing ahead of the walk is passed over                     *)
(* (converter-queue.ts#start and #run).                                    *)
QueueIsServed == PumpFinishes /\ SeenItemIsWorkedOn

=============================================================================
