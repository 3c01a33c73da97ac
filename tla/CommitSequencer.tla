-------------------------- MODULE CommitSequencer --------------------------
(***************************************************************************)
(* The write path of one active server (server.clj, database.clj): the     *)
(* connection workers that enqueue mutations, the singleton commit         *)
(* sequencer that runs them in cohorts on a private root, appends their    *)
(* frames to the FRAMLOG under one force(true) barrier, publishes the new  *)
(* root and delivers the answers; the fence after an append failure;       *)
(* orderly shutdown; crash and the torn-tail repair of the next boot.      *)
(*                                                                         *)
(* A transaction is the request it carries out, so a store root and a      *)
(* published snapshot are sequences of requests.  A frame keeps its        *)
(* tx-sequence and whether it was written deflated.  A process serves once *)
(* and exits: a boot is a new process.                                     *)
(***************************************************************************)
EXTENDS Integers, Sequences, FiniteSets, SequencesExt

CONSTANTS Request,          \* client mutations, each sent at most once
          Based,            \* those that name the version they are based on
          Size,             \* request-body-bytes of each request
          CohortMaxFrames,  \* commit-cohort-max-frames
          CohortMaxBytes,   \* commit-cohort-max-bytes
          HeaderDeflate,    \* deflate-flag of the generation's header
          MaxSequence,      \* max-transaction-sequence
          MaxBoots,         \* bound on boots explored
          MaxCancels,       \* bound on cancellations by clients at one time
          MaxFailures       \* bound on failing writes, barriers and rereads

NoTicket == "no-ticket"
Stop == "stop"                  \* the {:stop true} ticket
NoVersion == -1                 \* no expected-version

ASSUME SequencerAssumption ==
    /\ NoTicket \notin Request /\ Stop \notin Request
    /\ Based \subseteq Request
    /\ Size \in [Request -> Nat]
    /\ CohortMaxFrames \in Nat \ {0}
    /\ CohortMaxBytes \in Nat
    /\ HeaderDeflate \in BOOLEAN
    /\ MaxSequence \in Nat
    /\ MaxBoots \in Nat
    /\ MaxCancels \in Nat
    /\ MaxFailures \in Nat

VARIABLES
    \* the FRAMLOG file
    log,        \* its complete frames, page cache included
    forced,     \* how many of them a force(true) covers
    tail,       \* what follows them: incomplete or damaged bytes
    \* the server process
    server,     \* "down", "serving", "stopping", "interrupted", "closing"
    status,     \* :mutation-state of the database
    store,      \* root of the live TermStore
    deflate,    \* :deflate? of the open database
    published,  \* published-snapshot
    queue,      \* the LinkedBlockingQueue of tickets
    current,    \* @commit-sequencer is this queue
    \* the commit sequencer thread
    pc,         \* where it stands
    pending,    \* ticket polled for the next cohort
    cohort,     \* tickets of the cohort not answered yet
    scratch,    \* private root the cohort runs on
    frames,     \* *deferred-frames*
    results,    \* results not delivered yet
    \* the requests
    phase,      \* where the worker of each request stands
    expected,   \* rpcrequest-expected-version
    cancelled,  \* requests whose cancellation flag is set
    promise,    \* :completion of each ticket
    reply,      \* the response each worker computed
    \* bounds
    boots, failures

disk == <<log, forced, tail>>
process == <<server, status, store, deflate, published>>
tickets == <<queue, current>>
thread == <<pc, pending, cohort, scratch, frames, results>>
clients == <<phase, expected, cancelled, promise, reply>>
bounds == <<boots, failures>>
vars == <<disk, process, tickets, thread, clients, bounds>>

\* Codes that say nothing of what became of the mutation.
Uncertain == {"durability-ambiguous", "database-corrupt", "internal-error", "lost"}
\* Codes of a definite refusal.
Refusal == {"conflict", "cancelled", "refused", "recovery-required", "not-booted"}
Code == {"committed"} \cup Uncertain \cup Refusal
Result == [code : Code, version : Nat]
None == [code |-> "none", version |-> 0]
Error(code) == [code |-> code, version |-> 0]

Frame == [sequence : Nat, request : Request, deflated : BOOLEAN]

Active(r) == phase[r] \in {"serving", "enqueue", "waiting"}
Requests(frs) == [i \in 1..Len(frs) |-> frs[i].request]
InFile(r) == \E i \in 1..Len(log) : log[i].request = r

\* read-triple-log! then replay-frames!: every frame decodes the way the header
\* says, sequences advance, and the bytes after the last frame are a torn tail.
Readable(frs, rest) ==
    /\ \A i \in 1..Len(frs) : frs[i].deflated = HeaderDeflate
    /\ \A i \in 1..Len(frs) : frs[i].sequence <= MaxSequence
    /\ \A i \in 2..Len(frs) : frs[i - 1].sequence < frs[i].sequence
    /\ rest # "damaged"

Bytes(trs) == FoldLeft(LAMBDA sum, r : sum + Size[r], 0, trs)

\* Mutant: the version is compared with the live root, not the cohort's.
CurrentOnLiveRoot(r) == expected[r] \in {NoVersion, Len(store)}

\* require-expected!, on the root the cohort has built so far.
Current(r) == expected[r] \in {NoVersion, Len(scratch)}

Deliver(r, result) ==
    promise' = [promise EXCEPT ![r] = result]

-----------------------------------------------------------------------------
\* create-triple-log!: a header-only generation, forced before it is moved in.
Init ==
    /\ log = <<>> /\ forced = 0 /\ tail = "none"
    /\ server = "down" /\ status = "ready" /\ store = <<>>
    /\ deflate = FALSE /\ published = <<>>
    /\ queue = <<>> /\ current = FALSE
    /\ pc = "off" /\ pending = NoTicket /\ cohort = <<>>
    /\ scratch = <<>> /\ frames = <<>> /\ results = <<>>
    /\ phase = [r \in Request |-> "idle"]
    /\ expected = [r \in Request |-> NoVersion]
    /\ cancelled = {}
    /\ promise = [r \in Request |-> None]
    /\ reply = [r \in Request |-> None]
    /\ boots = 0 /\ failures = 0

\* Mutant: boot without the truncation of the torn tail.
BootUnrepaired ==
    /\ server = "down"
    /\ boots < MaxBoots
    /\ Readable(log, tail)
    /\ server' = "serving"
    /\ status' = "ready"
    /\ store' = Requests(log)
    /\ published' = Requests(log)
    /\ deflate' = HeaderDeflate
    /\ current' = TRUE
    /\ pc' = "loop"
    /\ boots' = boots + 1
    /\ UNCHANGED <<disk, queue, pending, cohort, scratch, frames, results, clients, failures>>

\* Mutant: boot without publish-snapshot!.
BootUnpublished ==
    /\ server = "down"
    /\ boots < MaxBoots
    /\ Readable(log, tail)
    /\ server' = "serving"
    /\ status' = "ready"
    /\ store' = Requests(log)
    /\ deflate' = HeaderDeflate
    /\ forced' = IF tail = "none" THEN forced ELSE Len(log)
    /\ tail' = "none"
    /\ current' = TRUE
    /\ pc' = "loop"
    /\ boots' = boots + 1
    /\ UNCHANGED <<log, published, queue, pending, cohort, scratch, frames, results,
                   clients, failures>>

\* boot! as the active role: open-database! with {:repair-torn? true}, publish,
\* start the sequencer.  truncate-log! forces the whole file.  The branch of
\* parse-triple-log-bytes for a torn transaction frame leaves :deflate? out.
Boot ==
    /\ server = "down"
    /\ boots < MaxBoots
    /\ Readable(log, tail)
    /\ server' = "serving"
    /\ status' = "ready"
    /\ store' = Requests(log)
    /\ published' = Requests(log)
    /\ deflate' = (HeaderDeflate /\ tail # "frame")
    /\ forced' = IF tail = "none" THEN forced ELSE Len(log)
    /\ tail' = "none"
    /\ current' = TRUE
    /\ pc' = "loop"
    /\ boots' = boots + 1
    /\ UNCHANGED <<log, queue, pending, cohort, scratch, frames, results, clients, failures>>

-----------------------------------------------------------------------------
\* serve-connection!: an accepted connection delivers its request frame, whose
\* cancellation is registered; this can still happen while the server drains.
\* A client that names a version names one it has read.
Submit(r) ==
    /\ server \in {"serving", "stopping"}
    /\ phase[r] = "idle"
    /\ phase' = [phase EXCEPT ![r] = "serving"]
    /\ expected' = [expected EXCEPT ![r] = IF r \in Based THEN Len(published) ELSE NoVersion]
    /\ UNCHANGED <<disk, process, tickets, thread, cancelled, promise, reply, bounds>>

\* The worker finishes: handle-rpc-request! turned a result into a response.
Finish(r, result) ==
    /\ phase' = [phase EXCEPT ![r] = "done"]
    /\ reply' = [reply EXCEPT ![r] = result]

\* sequence-commit!: cancelled!, require-writer!, then the queue is read.
SequenceCommit(r) ==
    /\ phase[r] = "serving"
    /\ \/ /\ r \in cancelled
          /\ Finish(r, Error("cancelled"))
       \/ /\ r \notin cancelled
          /\ status # "ready"
          /\ Finish(r, Error("recovery-required"))
       \/ /\ r \notin cancelled
          /\ status = "ready"
          /\ ~current
          /\ Finish(r, Error("not-booted"))
       \/ /\ r \notin cancelled
          /\ status = "ready"
          /\ current
          /\ phase' = [phase EXCEPT ![r] = "enqueue"]
          /\ UNCHANGED reply
    /\ UNCHANGED <<disk, process, tickets, thread, expected, cancelled, promise, bounds>>

\* (.put queue ticket): refused once the worker is interrupted.
PutTicket(r) ==
    /\ phase[r] = "enqueue"
    /\ server \in {"serving", "stopping"}
    /\ queue' = Append(queue, r)
    /\ phase' = [phase EXCEPT ![r] = "waiting"]
    /\ UNCHANGED <<disk, process, current, thread, expected, cancelled, promise, reply, bounds>>

\* @completion
Receive(r) ==
    /\ phase[r] = "waiting"
    /\ server \in {"serving", "stopping"}
    /\ promise[r] # None
    /\ Finish(r, promise[r])
    /\ UNCHANGED <<disk, process, tickets, thread, expected, cancelled, promise, bounds>>

\* An InterruptedException out of the put or the deref has no code of its own.
WorkerInterrupted(r) ==
    /\ phase[r] \in {"enqueue", "waiting"}
    /\ server \in {"interrupted", "closing"}
    /\ Finish(r, Error("internal-error"))
    /\ UNCHANGED <<disk, process, tickets, thread, expected, cancelled, promise, bounds>>

\* A cancel frame, or the client hanging up; too late, it changes nothing.
Cancel(r) ==
    /\ Active(r)
    /\ promise[r] = None
    /\ r \notin cancelled
    /\ Cardinality(cancelled) < MaxCancels
    /\ cancelled' = cancelled \cup {r}
    /\ UNCHANGED <<disk, process, tickets, thread, phase, expected, promise, reply, bounds>>

-----------------------------------------------------------------------------
\* Head of commit-sequencer-loop!: is this still the queue in use?  If not, the
\* pending ticket is refused.
LoopHead ==
    /\ pc = "loop"
    /\ \/ /\ current
          /\ pc' = "take"
          /\ UNCHANGED <<pending, promise>>
       \/ /\ ~current
          /\ pending \in Request
          /\ Deliver(pending, Error("not-booted"))
          /\ pending' = NoTicket
          /\ pc' = "drain"
       \/ /\ ~current
          /\ pending \notin Request
          /\ pending' = NoTicket
          /\ pc' = "drain"
          /\ UNCHANGED promise
    /\ UNCHANGED <<disk, process, tickets, cohort, scratch, frames, results,
                   phase, expected, cancelled, reply, bounds>>

\* (or pending (.take queue))
TakeFirst ==
    /\ pc = "take"
    /\ \/ /\ pending # NoTicket
          /\ UNCHANGED queue
       \/ /\ pending = NoTicket
          /\ queue # <<>>
          /\ queue' = Tail(queue)
    /\ LET first == IF pending # NoTicket THEN pending ELSE Head(queue) IN
       IF first = Stop
       THEN pc' = "drain" /\ cohort' = <<>>
       ELSE pc' = "collect" /\ cohort' = <<first>>
    /\ pending' = NoTicket
    /\ UNCHANGED <<disk, process, current, scratch, frames, results, clients, bounds>>

\* Mutant: the ticket that does not fit is forgotten.
CollectForgets ==
    /\ pc = "collect"
    /\ Len(cohort) < CohortMaxFrames
    /\ queue # <<>>
    /\ queue' = Tail(queue)
    /\ LET ticket == Head(queue) IN
       IF ticket = Stop \/ Bytes(cohort) + Size[ticket] > CohortMaxBytes
       THEN pc' = "start" /\ UNCHANGED cohort
       ELSE cohort' = Append(cohort, ticket) /\ UNCHANGED pc
    /\ UNCHANGED <<disk, process, current, pending, scratch, frames, results, clients, bounds>>

\* take-commit-cohort!, a ticket is there: it joins the cohort, or it is the
\* stop ticket or one too large and opens the next round.
Collect ==
    /\ pc = "collect"
    /\ Len(cohort) < CohortMaxFrames
    /\ queue # <<>>
    /\ queue' = Tail(queue)
    /\ LET ticket == Head(queue) IN
       IF ticket = Stop \/ Bytes(cohort) + Size[ticket] > CohortMaxBytes
       THEN pending' = ticket /\ pc' = "start" /\ UNCHANGED cohort
       ELSE cohort' = Append(cohort, ticket) /\ UNCHANGED <<pending, pc>>
    /\ UNCHANGED <<disk, process, current, scratch, frames, results, clients, bounds>>

\* take-commit-cohort!, the cohort is full, or the queue is empty and the
\* deadline, which no model time measures, has passed.
CloseCohort ==
    /\ pc = "collect"
    /\ Len(cohort) >= CohortMaxFrames \/ queue = <<>>
    /\ pc' = "start"
    /\ UNCHANGED <<disk, process, tickets, pending, cohort, scratch, frames, results,
                   clients, bounds>>

\* commit-cohort!: require-mutation-ready!, then the fork of the live root.
StartCohort ==
    /\ pc = "start"
    /\ \/ /\ status = "ready"
          /\ scratch' = store
          /\ frames' = <<>>
          /\ results' = <<>>
          /\ pc' = "run"
       \/ /\ status # "ready"
          /\ results' = <<Error("recovery-required")>>
          /\ pc' = "fail"
          /\ UNCHANGED <<scratch, frames>>
    /\ UNCHANGED <<disk, process, tickets, pending, cohort, clients, bounds>>

\* One mutation function of the cohort, mutation-payload! on the scratch root:
\* expected version, fence and policies, cancellation, then commit!, whose
\* append-and-replay! defers the frame.
RunMutation ==
    /\ pc = "run"
    /\ Len(results) < Len(cohort)
    /\ LET r    == cohort[Len(results) + 1]
           next == Len(scratch) + 1
           Yield(code, version) ==
               results' = Append(results, [code |-> code, version |-> version])
       IN  \/ /\ ~Current(r)
              /\ Yield("conflict", Len(scratch))
              /\ UNCHANGED <<scratch, frames>>
           \/ /\ Current(r)
              /\ Yield("refused", Len(scratch))     \* fence, policy or encoding
              /\ UNCHANGED <<scratch, frames>>
           \/ /\ Current(r)
              /\ r \in cancelled
              /\ Yield("cancelled", Len(scratch))
              /\ UNCHANGED <<scratch, frames>>
           \/ /\ Current(r)
              /\ r \notin cancelled
              /\ next <= MaxSequence
              /\ frames' = Append(frames, [sequence |-> next, request |-> r,
                                           deflated |-> deflate])
              /\ scratch' = Append(scratch, r)
              /\ Yield("committed", next)
    /\ UNCHANGED <<disk, process, tickets, pc, pending, cohort, clients, bounds>>

\* The mutations have run; a cohort without frames needs no barrier.
EndRun ==
    /\ pc = "run"
    /\ Len(results) = Len(cohort)
    /\ pc' = IF frames = <<>> THEN "deliver" ELSE "append"
    /\ UNCHANGED <<disk, process, tickets, pending, cohort, scratch, frames, results,
                   clients, bounds>>

\* append-frame-cohort-durable!: the frames reach the file.
WriteFrames ==
    /\ pc = "append"
    /\ log' = log \o frames
    /\ pc' = "force"
    /\ UNCHANGED <<forced, tail, process, tickets, pending, cohort, scratch, frames,
                   results, clients, bounds>>

\* The write fails after some bytes.  Closing the buffered stream flushes again,
\* which may write the same bytes a second time behind the partial ones.
WriteFails ==
    /\ pc = "append"
    /\ failures < MaxFailures
    /\ \E written \in 0..(Len(frames) - 1) :
         log' = log \o SubSeq(frames, 1, written)
    /\ tail' \in {"none", "length", "frame", "damaged"}
    /\ status' = "unreconciled"
    /\ pc' = "reconcile"
    /\ failures' = failures + 1
    /\ UNCHANGED <<forced, server, store, deflate, published, tickets, pending, cohort,
                   scratch, frames, results, clients, boots>>

\* Mutant: the root is not published before the answers go out.
ForceThenDeliver ==
    /\ pc = "force"
    /\ forced' = Len(log)
    /\ store' = scratch
    /\ pc' = "deliver"
    /\ UNCHANGED <<log, tail, server, status, deflate, published, tickets, pending,
                   cohort, scratch, frames, results, clients, bounds>>

\* (.force channel true), then the live root becomes the scratch root.
ForceFrames ==
    /\ pc = "force"
    /\ forced' = Len(log)
    /\ store' = scratch
    /\ pc' = "publish"
    /\ UNCHANGED <<log, tail, server, status, deflate, published, tickets, pending,
                   cohort, scratch, frames, results, clients, bounds>>

\* The barrier fails: the frames are in the file and may or may not be durable.
ForceFails ==
    /\ pc = "force"
    /\ failures < MaxFailures
    /\ status' = "unreconciled"
    /\ pc' = "reconcile"
    /\ failures' = failures + 1
    /\ UNCHANGED <<disk, server, store, deflate, published, tickets, pending, cohort,
                   scratch, frames, results, clients, boots>>

\* Mutants: the fence is lifted after the reread; the live root is left as it
\* was; the waiters are told their mutations were refused.
ReconcileAndGoOn ==
    /\ pc = "reconcile"
    /\ Readable(log, tail)
    /\ store' = Requests(log)
    /\ status' = "ready"
    /\ results' = <<Error("durability-ambiguous")>>
    /\ pc' = "fail"
    /\ UNCHANGED <<disk, server, deflate, published, tickets, pending, cohort, scratch,
                   frames, clients, bounds>>

ReconcileKeepsRoot ==
    /\ pc = "reconcile"
    /\ Readable(log, tail)
    /\ status' = "recovery-required"
    /\ results' = <<Error("durability-ambiguous")>>
    /\ pc' = "fail"
    /\ UNCHANGED <<disk, server, store, deflate, published, tickets, pending, cohort,
                   scratch, frames, clients, bounds>>

ReconcileRefuses ==
    /\ pc = "reconcile"
    /\ Readable(log, tail)
    /\ store' = Requests(log)
    /\ status' = "recovery-required"
    /\ results' = <<Error("refused")>>
    /\ pc' = "fail"
    /\ UNCHANGED <<disk, server, deflate, published, tickets, pending, cohort, scratch,
                   frames, clients, bounds>>

\* fence-and-reconcile!: the file decides what the live root is; a file that
\* does not read, or a reread that fails, is corruption.
Reconcile ==
    /\ pc = "reconcile"
    /\ \/ /\ Readable(log, tail)
          /\ store' = Requests(log)
          /\ status' = "recovery-required"
          /\ results' = <<Error("durability-ambiguous")>>
          /\ UNCHANGED failures
       \/ /\ ~Readable(log, tail)
          /\ status' = "corrupt"
          /\ results' = <<Error("database-corrupt")>>
          /\ UNCHANGED <<store, failures>>
       \/ /\ failures < MaxFailures
          /\ failures' = failures + 1
          /\ status' = "corrupt"
          /\ results' = <<Error("database-corrupt")>>
          /\ UNCHANGED store
    /\ pc' = "fail"
    /\ UNCHANGED <<disk, server, deflate, published, tickets, pending, cohort, scratch,
                   frames, clients, boots>>

\* publish-snapshot!
PublishSnapshot ==
    /\ pc = "publish"
    /\ published' = store
    /\ pc' = "deliver"
    /\ UNCHANGED <<disk, server, status, store, deflate, tickets, pending, cohort,
                   scratch, frames, results, clients, bounds>>

\* deliver-commit-cohort!: each ticket gets its own result.
DeliverNext ==
    /\ pc = "deliver"
    /\ cohort # <<>>
    /\ Deliver(Head(cohort), Head(results))
    /\ cohort' = Tail(cohort)
    /\ results' = Tail(results)
    /\ UNCHANGED <<disk, process, tickets, pc, pending, scratch, frames,
                   phase, expected, cancelled, reply, bounds>>

\* The catch of deliver-commit-cohort!: every ticket gets the error.
DeliverErrors ==
    /\ pc = "fail"
    /\ cohort # <<>>
    /\ Deliver(Head(cohort), Head(results))
    /\ cohort' = Tail(cohort)
    /\ UNCHANGED <<disk, process, tickets, pc, pending, scratch, frames, results,
                   phase, expected, cancelled, reply, bounds>>

\* (recur next-pending)
NextRound ==
    /\ pc \in {"deliver", "fail"}
    /\ cohort = <<>>
    /\ pc' = "loop"
    /\ scratch' = <<>>
    /\ frames' = <<>>
    /\ results' = <<>>
    /\ UNCHANGED <<disk, process, tickets, pending, cohort, clients, bounds>>

\* The finally of commit-sequencer-loop!: what is still queued is refused.
Drain ==
    /\ pc = "drain"
    /\ \/ /\ queue = <<>>
          /\ pc' = "off"
          /\ UNCHANGED <<queue, promise>>
       \/ /\ queue # <<>>
          /\ queue' = Tail(queue)
          /\ IF Head(queue) = Stop THEN UNCHANGED promise
             ELSE Deliver(Head(queue), Error("not-booted"))
          /\ UNCHANGED pc
    /\ UNCHANGED <<disk, process, current, pending, cohort, scratch, frames, results,
                   phase, expected, cancelled, reply, bounds>>

-----------------------------------------------------------------------------
\* shutdown!: stopping? is set and every registered request cancelled; the
\* connection executor takes no new work.
BeginShutdown ==
    /\ server = "serving"
    /\ server' = "stopping"
    /\ cancelled' = cancelled \cup {r \in Request : Active(r)}
    /\ UNCHANGED <<disk, status, store, deflate, published, tickets, thread,
                   phase, expected, promise, reply, bounds>>

\* stop-connection-admission!: the grace and the stop timeout pass with workers
\* still running, so sockets are closed and workers interrupted.
InterruptWorkers ==
    /\ server = "stopping"
    /\ \E r \in Request : Active(r)
    /\ server' = "interrupted"
    /\ UNCHANGED <<disk, status, store, deflate, published, tickets, thread, clients, bounds>>

\* Mutant: the queue is taken out of use without a stop ticket.
StopUnannounced ==
    /\ \/ server = "interrupted"
       \/ server = "stopping" /\ \A r \in Request : ~Active(r)
    /\ server' = "closing"
    /\ current' = FALSE
    /\ UNCHANGED <<disk, status, store, deflate, published, queue, thread, clients, bounds>>

\* stop-commit-sequencer!, once the workers have ended or been interrupted.
StopSequencer ==
    /\ \/ server = "interrupted"
       \/ server = "stopping" /\ \A r \in Request : ~Active(r)
    /\ server' = "closing"
    /\ current' = FALSE
    /\ queue' = Append(queue, Stop)
    /\ UNCHANGED <<disk, status, store, deflate, published, thread, clients, bounds>>

\* Workers that are gone with the process answer nobody.
Abandon ==
    /\ phase' = [r \in Request |-> IF Active(r) THEN "done" ELSE phase[r]]
    /\ reply' = [r \in Request |-> IF Active(r) THEN Error("lost") ELSE reply[r]]
    /\ cancelled' = {}
    /\ UNCHANGED <<expected, promise>>

\* Everything the process kept in memory is gone.
Gone ==
    /\ server' = "down"
    /\ status' = "ready"
    /\ store' = <<>>
    /\ deflate' = FALSE
    /\ published' = <<>>
    /\ queue' = <<>>
    /\ current' = FALSE
    /\ pc' = "off"
    /\ pending' = NoTicket
    /\ cohort' = <<>>
    /\ scratch' = <<>>
    /\ frames' = <<>>
    /\ results' = <<>>

\* The join in stop-commit-sequencer! returns and shutdown! completes.
FinishShutdown ==
    /\ server = "closing"
    /\ pc = "off"
    /\ Gone
    /\ Abandon
    /\ UNCHANGED <<disk, bounds>>

\* The process is killed or the machine loses power, also in the middle of an
\* append: every forced frame is there, of the others some prefix, and behind
\* them perhaps part of the next one.
Crash ==
    LET file == log \o (IF pc = "append" THEN frames ELSE <<>>) IN
    /\ boots > 0
    /\ server # "down" \/ forced < Len(log)
    /\ \E kept \in forced..Len(file) :
         /\ log' = SubSeq(file, 1, kept)
         /\ \/ kept < Len(file) /\ tail' \in {"none", "length", "frame"}
            \/ kept = Len(file) /\ tail' \in {tail, "none"}
    /\ Gone
    /\ Abandon
    /\ UNCHANGED <<forced, bounds>>

-----------------------------------------------------------------------------
Sequencer ==
    \/ LoopHead \/ TakeFirst \/ Collect \/ CloseCohort \/ StartCohort
    \/ RunMutation \/ EndRun \/ WriteFrames \/ WriteFails \/ ForceFrames \/ ForceFails
    \/ Reconcile \/ PublishSnapshot \/ DeliverNext \/ DeliverErrors \/ NextRound \/ Drain

Worker(r) == SequenceCommit(r) \/ PutTicket(r) \/ Receive(r) \/ WorkerInterrupted(r)

Client(r) == Submit(r) \/ Cancel(r)

Shutdown == InterruptWorkers \/ StopSequencer \/ FinishShutdown

Next ==
    \/ Boot
    \/ \E r \in Request : Client(r) \/ Worker(r)
    \/ Sequencer
    \/ BeginShutdown
    \/ Shutdown
    \/ Crash

Spec == Init /\ [][Next]_vars

\* Threads run: the sequencer, every worker and, once begun, the shutdown.
\* Nobody has to boot, ask, cancel, fail, stop or crash.
Fairness ==
    /\ WF_vars(Sequencer)
    /\ \A r \in Request : WF_vars(Worker(r))
    /\ WF_vars(Shutdown)

FairSpec == Spec /\ Fairness

-----------------------------------------------------------------------------
Acked(r) == promise[r].code = "committed"

\* Types of the file, the process, the tickets, the thread and the clients.
TypeOK ==
    /\ log \in Seq(Frame)
    /\ forced \in 0..Len(log)
    /\ tail \in {"none", "length", "frame", "damaged"}
    /\ server \in {"down", "serving", "stopping", "interrupted", "closing"}
    /\ status \in {"ready", "unreconciled", "recovery-required", "corrupt"}
    /\ store \in Seq(Request)
    /\ deflate \in BOOLEAN
    /\ published \in Seq(Request)
    /\ queue \in Seq(Request \cup {Stop})
    /\ current \in BOOLEAN
    /\ pc \in {"off", "loop", "take", "collect", "start", "run", "append", "force",
               "reconcile", "publish", "deliver", "fail", "drain"}
    /\ pending \in Request \cup {Stop, NoTicket}
    /\ cohort \in Seq(Request)
    /\ Len(cohort) <= CohortMaxFrames
    /\ scratch \in Seq(Request)
    /\ frames \in Seq(Frame)
    /\ results \in Seq(Result)
    /\ phase \in [Request -> {"idle", "serving", "enqueue", "waiting", "done"}]
    /\ expected \in [Request -> Nat \cup {NoVersion}]
    /\ cancelled \subseteq Request
    /\ promise \in [Request -> Result \cup {None}]
    /\ reply \in [Request -> Result \cup {None}]
    /\ boots \in 0..MaxBoots
    /\ failures \in 0..MaxFailures

\* I3: while the server lives, the published root holds the transaction before
\* its waiter is told so.
AckedIsPublished ==
    \A r \in Request : Acked(r) /\ server # "down" =>
        /\ promise[r].version <= Len(published)
        /\ published[promise[r].version] = r

\* A definite refusal is final: the transaction is not in the file and nothing
\* that could still write it holds the ticket.
RefusedNeverCommits ==
    \A r \in Request : promise[r].code \in Refusal \/ reply[r].code \in Refusal =>
        /\ ~InFile(r)
        /\ ~Contains(queue, r) /\ pending # r
        /\ pc = "append" => ~Contains(Requests(frames), r)

\* I2: a transaction that named the version it was based on directly follows it.
OptimisticSound ==
    \A i \in 1..Len(log) : expected[log[i].request] \in {NoVersion, i - 1}

\* R1 and the comment on fence-and-reconcile!: outside an append the live root
\* is what a replay of the file gives, and readers see a prefix of it.
RootMatchesFile ==
    server # "down" =>
        /\ IsPrefix(published, store)
        /\ pc \notin {"force", "reconcile"} /\ status # "corrupt" =>
             store = Requests(log)

\* D2: bytes of an incomplete frame are never followed by a frame: nothing is
\* appended before a boot has cut them off.
TornTailNeverBuried ==
    [][tail # "none" => Len(log') <= Len(log)]_vars

\* D4: from an append failure to the end of the process nothing more is
\* written, published or acknowledged.
FencedUntilRestart ==
    [][status # "ready" /\ server' # "down" =>
         /\ status' # "ready"
         /\ UNCHANGED <<log, published>>
         /\ \A r \in Request : Acked(r)' => Acked(r)]_vars

\* D2: every frame of the file can be read back by the next open.
FramesDecode == \A i \in 1..Len(log) : log[i].deflated = HeaderDeflate

\* Every accepted request is answered, or its process is gone.
EveryRequestAnswered == \A r \in Request : Active(r) ~> phase[r] = "done"

\* An orderly shutdown comes to its end.
ShutdownCompletes == server = "stopping" ~> server = "down"

\* The write path implements the promise of AtomicHistory: the history is what
\* readers see or, with no server, what the next boot will show.
VerdictOf(code) ==
    IF code = "none" THEN "open"
    ELSE IF code = "committed" THEN "acked"
    ELSE IF code \in Refusal THEN "rejected" ELSE "unknown"

Promised == INSTANCE AtomicHistory
    WITH hist    <- IF server = "down" THEN Requests(log) ELSE published,
         verdict <- [r \in Request |-> VerdictOf(reply[r].code)],
         up      <- (server # "down")

ImplementsAtomicHistory == Promised!ASpec
=============================================================================
