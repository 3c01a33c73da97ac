------------------------ MODULE CommitSequencerProofs ------------------------
(***************************************************************************)
(* Proofs about the commit sequencer, for any requests, any cohort limits,  *)
(* any header and any bounds: what is acknowledged is published and         *)
(* durable, what is refused never commits, the live root is what the file   *)
(* replays to, a failure fences the process, and the write path implements  *)
(* AtomicHistory.                                                          *)
(***************************************************************************)
EXTENDS CommitSequencer, SequenceTheorems, TLAPS

Up == server # "down"

\* TypeOK, in parts.
DiskTypes ==
    log \in Seq(Frame) /\ forced \in 0..Len(log)

RootTypes ==
    store \in Seq(Request) /\ published \in Seq(Request) /\ scratch \in Seq(Request)

ThreadTypes ==
    /\ queue \in Seq(Request \cup {Stop})
    /\ pending \in Request \cup {Stop, NoTicket}
    /\ cohort \in Seq(Request) /\ Len(cohort) <= CohortMaxFrames
    /\ frames \in Seq(Frame)
    /\ results \in Seq(Result)

FlagTypes == deflate \in BOOLEAN /\ current \in BOOLEAN

PlaceTypes ==
    /\ tail \in {"none", "length", "frame", "damaged"}
    /\ server \in {"down", "serving", "stopping", "interrupted", "closing"}
    /\ status \in {"ready", "unreconciled", "recovery-required", "corrupt"}
    /\ pc \in {"off", "loop", "take", "collect", "start", "run", "append", "force",
               "reconcile", "publish", "deliver", "fail", "drain"}

ClientTypes ==
    /\ phase \in [Request -> {"idle", "serving", "enqueue", "waiting", "done"}]
    /\ expected \in [Request -> Nat \cup {NoVersion}]
    /\ cancelled \subseteq Request
    /\ promise \in [Request -> Result \cup {None}]
    /\ reply \in [Request -> Result \cup {None}]
    /\ boots \in 0..MaxBoots
    /\ failures \in 0..MaxFailures

Types == DiskTypes /\ RootTypes /\ ThreadTypes /\ FlagTypes /\ PlaceTypes /\ ClientTypes

\* Places of the thread from which frames reach the file or answers go out.
Writing   == {"run", "append"}
Answering == {"run", "append", "force", "publish", "deliver"}

\* A process that is gone has no tickets; a sequencer at work on a cohort that
\* can still succeed is not fenced; a torn tail fences or waits for a boot.
Fences ==
    /\ ~Up => /\ status = "ready" /\ pc = "off" /\ queue = <<>> /\ pending = NoTicket
              /\ \A r \in Request : ~Active(r)
    /\ pc \in {"off", "loop", "take", "drain"} => cohort = <<>>
    /\ pc \in Answering => status = "ready"
    /\ status = "unreconciled" <=> pc = "reconcile"
    /\ tail # "none" => ~Up \/ status # "ready"

\* The file is replayed to the live root, frame for frame, and readers see a
\* prefix of it; only publish-snapshot! and a reread let the two roots differ.
Roots ==
    Up => /\ Len(published) <= Len(log)
          /\ \A i \in 1..Len(published) : published[i] = log[i].request
          /\ pc \notin {"force", "reconcile"} /\ status # "corrupt" =>
                Len(store) = Len(log) /\ \A i \in 1..Len(log) : store[i] = log[i].request
          /\ pc # "publish" /\ status # "recovery-required" => store = published

\* The root a cohort runs on is the live one and its deferred frames; from the
\* write on it is what the file holds.
Planned ==
    /\ pc \in Writing \cup {"force"} =>
          /\ Len(scratch) = Len(store) + Len(frames)
          /\ \A i \in 1..Len(store) : scratch[i] = store[i]
          /\ \A i \in 1..Len(frames) : scratch[Len(store) + i] = frames[i].request
    /\ pc \in Writing =>
          /\ \A i, j \in 1..Len(scratch) : scratch[i] = scratch[j] => i = j
          /\ \A i \in 1..Len(scratch) : expected[scratch[i]] \in {NoVersion, i - 1}
          /\ \A i \in 1..Len(frames) : \E j \in 1..Len(results) : frames[i].request = cohort[j]
    /\ pc = "force" =>
          Len(log) = Len(scratch) /\ \A i \in 1..Len(log) : scratch[i] = log[i].request
    /\ pc \in {"publish", "deliver"} => scratch = store
    /\ pc = "publish" => forced = Len(log)

InQueue(r)  == \E i \in 1..Len(queue) : queue[i] = r
InCohort(r) == \E i \in 1..Len(cohort) : cohort[i] = r
Ticketed(r) == InQueue(r) \/ pending = r \/ InCohort(r)

\* The ticket of a request is in one place.
Places ==
    /\ \A i, j \in 1..Len(queue) : queue[i] = queue[j] /\ queue[i] # Stop => i = j
    /\ \A i, j \in 1..Len(cohort) : cohort[i] = cohort[j] => i = j
    /\ \A r \in Request : InQueue(r) => pending # r /\ ~InCohort(r)
    /\ \A r \in Request : pending = r => ~InCohort(r)

\* While it is anywhere, its waiter has no result.
Waits ==
    \A r \in Request : Ticketed(r) =>
        /\ promise[r] = None
        /\ phase[r] \in {"waiting", "done"}
        /\ reply[r].code \in Uncertain \cup {"none"}

\* A request is in the file once, at the place its version named, and not
\* before its cohort is written.
File ==
    /\ \A i, j \in 1..Len(log) : log[i].request = log[j].request => i = j
    /\ OptimisticSound
    /\ \A r \in Request : InQueue(r) \/ pending = r => ~InFile(r)
    /\ pc \in {"collect", "start", "run", "append"} =>
          \A r \in Request : InCohort(r) => ~InFile(r)
    /\ \A r \in Request : phase[r] \in {"idle", "serving", "enqueue"} => ~InFile(r)

\* What a result of the cohort says of the roots.
True(i) ==
    /\ results[i].code \in {"committed"} \cup Refusal
    /\ results[i].code = "committed" =>
          /\ results[i].version \in 1..Len(scratch)
          /\ scratch[results[i].version] = cohort[i]
          /\ pc \in Writing \cup {"force"} => results[i].version > Len(store)
          /\ pc = "deliver" => results[i].version <= forced
    /\ results[i].code \in Refusal =>
          \A k \in 1..Len(scratch) : scratch[k] # cohort[i]

Results ==
    /\ pc = "run" => Len(results) <= Len(cohort)
    /\ pc \in Answering \ {"run"} => Len(results) = Len(cohort)
    /\ pc \in Answering => \A i \in 1..Len(results) : True(i)
    /\ pc = "fail" =>
          /\ Len(results) = 1
          /\ \/ results[1].code \in Uncertain
             \/ /\ results[1].code = "recovery-required"
                /\ \A r \in Request : InCohort(r) => ~InFile(r)

\* What clients have been told is so, and durably.
Told ==
    \A r \in Request :
        /\ phase[r] \in {"idle", "serving", "enqueue"} => promise[r] = None
        /\ phase[r] # "done" => reply[r] = None
        /\ reply[r].code = "committed" => promise[r] = reply[r]
        /\ InFile(r) => promise[r].code \notin Refusal /\ reply[r].code \notin Refusal
        /\ Acked(r) => /\ promise[r].version \in 1..forced
                       /\ log[promise[r].version].request = r

IInv == Types /\ Fences /\ Roots /\ Planned /\ Places /\ Waits /\ File /\ Results /\ Told /\ AckedIsPublished

-----------------------------------------------------------------------------
(* Which steps change the file, and how                                    *)

LEMMA LogSteps ==
    ASSUME [Next]_vars
    PROVE  \/ UNCHANGED <<log, forced>>
           \/ Boot \/ WriteFrames \/ WriteFails \/ ForceFrames \/ Crash
  BY DEF Next, vars, disk, process, tickets, thread, clients, bounds, Sequencer, Worker,
         Client, Shutdown, Submit, Cancel, SequenceCommit, PutTicket, Receive,
         WorkerInterrupted, LoopHead, TakeFirst, Collect, CloseCohort, StartCohort,
         RunMutation, EndRun, ForceFails, Reconcile, PublishSnapshot, DeliverNext,
         DeliverErrors, NextRound, Drain, BeginShutdown, InterruptWorkers, StopSequencer,
         FinishShutdown

\* Frames that follow a file, up to a place.
LEMMA Joined ==
    ASSUME NEW l \in Seq(Frame), NEW f \in Seq(Frame)
    PROVE  /\ l \o f \in Seq(Frame) /\ Len(l \o f) = Len(l) + Len(f)
           /\ \A i \in 1..Len(l) : (l \o f)[i] = l[i]
           /\ \A i \in (Len(l) + 1)..(Len(l) + Len(f)) : (l \o f)[i] = f[i - Len(l)]
  OBVIOUS

LEMMA Cut ==
    ASSUME NEW l \in Seq(Frame), NEW k \in 0..Len(l)
    PROVE  /\ SubSeq(l, 1, k) \in Seq(Frame) /\ Len(SubSeq(l, 1, k)) = k
           /\ \A i \in 1..k : SubSeq(l, 1, k)[i] = l[i]
  OBVIOUS

\* Place i of the file after a step: the frame that was there, or the cohort's.
Placed(i) ==
    \/ i <= Len(log) /\ log'[i] = log[i]
    \/ /\ pc = "append" /\ i > Len(log) /\ i - Len(log) <= Len(frames)
       /\ log'[i] = frames[i - Len(log)]

\* Nothing forced is lost, nothing at all while the process lives, and only
\* the frames of the cohort being written are new.
FileKept ==
    /\ log' \in Seq(Frame) /\ forced' \in 0..Len(log') /\ forced <= forced'
    /\ \A i \in 1..forced : log'[i] = log[i]
    /\ \A i \in 1..Len(log') : Placed(i)
    /\ server' # "down" => Len(log) <= Len(log') /\ \A i \in 1..Len(log) : log'[i] = log[i]

LEMMA FileStep ==
    ASSUME Types, [Next]_vars
    PROVE  FileKept
  <1> USE DEF FileKept, Placed
  <1>a. /\ log \in Seq(Frame) /\ forced \in Nat /\ forced <= Len(log) /\ Len(log) \in Nat
        /\ frames \in Seq(Frame) /\ Len(frames) \in Nat
    BY DEF Types, DiskTypes, ThreadTypes
  <1>1. CASE log' = log /\ forced' \in {forced, Len(log)} BY <1>1, <1>a
  <1>2. CASE WriteFrames
    <2>1. pc = "append" /\ log' = log \o frames /\ forced' = forced BY <1>2 DEF WriteFrames
    <2>2. /\ log' \in Seq(Frame) /\ Len(log') = Len(log) + Len(frames)
          /\ \A i \in 1..Len(log) : log'[i] = log[i]
          /\ \A i \in (Len(log) + 1)..(Len(log) + Len(frames)) : log'[i] = frames[i - Len(log)]
      BY <1>a, <2>1, Joined
    <2> QED BY <1>a, <2>1, <2>2
  <1>3. CASE WriteFails
    <2>1. PICK k \in 0..(Len(frames) - 1) : log' = log \o SubSeq(frames, 1, k)
      BY <1>3 DEF WriteFails
    <2> DEFINE part == SubSeq(frames, 1, k)
    <2>2. part \in Seq(Frame) /\ Len(part) = k /\ \A i \in 1..k : part[i] = frames[i]
      BY <1>a, Cut
    <2>3. pc = "append" /\ log' = log \o part /\ forced' = forced
      BY <1>3, <2>1 DEF WriteFails
    <2> HIDE DEF part
    <2>4. /\ log' \in Seq(Frame) /\ Len(log') = Len(log) + Len(part)
          /\ \A i \in 1..Len(log) : log'[i] = log[i]
          /\ \A i \in (Len(log) + 1)..(Len(log) + Len(part)) : log'[i] = part[i - Len(log)]
      BY <1>a, <2>2, <2>3, Joined
    <2> QED BY <1>a, <2>2, <2>3, <2>4
  <1>4. CASE Crash
    <2> DEFINE file == log \o (IF pc = "append" THEN frames ELSE <<>>)
    <2>1. PICK k \in forced..Len(file) : log' = SubSeq(file, 1, k) BY <1>4 DEF Crash
    <2>2. /\ file \in Seq(Frame) /\ Len(file) \in Nat
          /\ \A i \in 1..Len(log) : file[i] = log[i]
          /\ pc = "append" => /\ Len(file) = Len(log) + Len(frames)
                              /\ \A i \in (Len(log) + 1)..(Len(log) + Len(frames)) :
                                    file[i] = frames[i - Len(log)]
          /\ pc # "append" => Len(file) = Len(log)
      BY <1>a, Joined
    <2> HIDE DEF file
    <2>3. k \in 0..Len(file) BY <1>a, <2>1, <2>2
    <2>4. log' \in Seq(Frame) /\ Len(log') = k /\ \A i \in 1..k : log'[i] = file[i]
      BY <2>1, <2>2, <2>3, Cut
    <2>5. forced' = forced /\ server' = "down" BY <1>4 DEF Crash, Gone
    <2> QED BY <1>a, <2>1, <2>2, <2>3, <2>4, <2>5
  <1>5. CASE Boot BY <1>1, <1>5 DEF Boot
  <1>6. CASE ForceFrames BY <1>1, <1>6 DEF ForceFrames
  <1> QED BY <1>1, <1>2, <1>3, <1>4, <1>5, <1>6, LogSteps

-----------------------------------------------------------------------------
(* Types                                                                   *)

LEMMA RequestsOf ==
    ASSUME NEW l \in Seq(Frame)
    PROVE  /\ Requests(l) \in Seq(Request) /\ Len(Requests(l)) = Len(l)
           /\ \A i \in 1..Len(l) : Requests(l)[i] = l[i].request
  <1>0. \A f \in Frame : f.request \in Request BY DEF Frame
  <1>1. Len(l) \in Nat /\ \A i \in 1..Len(l) : l[i].request \in Request BY <1>0
  <1>2. Requests(l) \in [1..Len(l) -> Request] BY <1>1 DEF Requests
  <1>3. Requests(l) \in Seq(Request) BY <1>1, <1>2, SeqDef
  <1>4. Len(Requests(l)) \in Nat /\ 1..Len(Requests(l)) = 1..Len(l)
    BY <1>2, <1>3, LenProperties
  <1>5. Len(Requests(l)) = Len(l) BY <1>1, <1>4
  <1> QED BY <1>3, <1>5 DEF Requests

\* A queue without its head.
LEMMA TailOf ==
    ASSUME NEW S, NEW s \in Seq(S), s # <<>>
    PROVE  /\ Head(s) \in S /\ Head(s) = s[1] /\ Len(s) \in Nat \ {0}
           /\ Tail(s) \in Seq(S) /\ Len(Tail(s)) = Len(s) - 1
           /\ \A i \in 1..(Len(s) - 1) : Tail(s)[i] = s[i + 1]
  OBVIOUS

LEMMA RootTypesStep ==
    ASSUME Types, [Next]_vars
    PROVE  RootTypes'
  <1>a. Requests(log) \in Seq(Request) BY RequestsOf DEF Types, DiskTypes
  <1>b. RootTypes /\ cohort \in Seq(Request) BY DEF Types, ThreadTypes
  <1>1. CASE UNCHANGED <<store, published, scratch>> BY <1>b, <1>1 DEF RootTypes
  <1>2. CASE Boot BY <1>a, <1>b, <1>2 DEF Boot, RootTypes
  <1>3. CASE Reconcile BY <1>a, <1>b, <1>3 DEF Reconcile, RootTypes
  <1>4. CASE StartCohort \/ NextRound \/ ForceFrames \/ PublishSnapshot
    BY <1>b, <1>4 DEF StartCohort, NextRound, ForceFrames, PublishSnapshot, RootTypes, process
  <1>5. CASE RunMutation
    <2>1. Len(results) + 1 \in 1..Len(cohort)
      BY <1>5 DEF RunMutation, Types, ThreadTypes
    <2>2. cohort[Len(results) + 1] \in Request BY <1>b, <2>1
    <2>3. /\ UNCHANGED <<store, published>>
          /\ scratch' \in {scratch, Append(scratch, cohort[Len(results) + 1])}
      BY <1>5 DEF RunMutation, process
    <2>4. Append(scratch, cohort[Len(results) + 1]) \in Seq(Request)
      BY <1>b, <2>2 DEF RootTypes
    <2> QED BY <1>b, <2>3, <2>4 DEF RootTypes
  <1>6. CASE FinishShutdown \/ Crash
    <2>1. Gone BY <1>6 DEF FinishShutdown, Crash
    <2>2. <<>> \in Seq(Request) OBVIOUS
    <2> QED BY <2>1, <2>2 DEF Gone, RootTypes
  <1> QED BY <1>1, <1>2, <1>3, <1>4, <1>5, <1>6
      DEF Next, vars, disk, process, tickets, thread, clients, bounds, Sequencer, Worker,
         Client, Shutdown, Submit, Cancel, SequenceCommit, PutTicket, Receive,
         WorkerInterrupted, LoopHead, TakeFirst, Collect, CloseCohort,
         EndRun, WriteFrames, WriteFails, ForceFails, DeliverNext,
         DeliverErrors, Drain, BeginShutdown, InterruptWorkers, StopSequencer

LEMMA ThreadTypesStep ==
    ASSUME Types, Results, [Next]_vars
    PROVE  ThreadTypes'
  <1>a. /\ queue \in Seq(Request \cup {Stop}) /\ pending \in Request \cup {Stop, NoTicket}
        /\ cohort \in Seq(Request) /\ Len(cohort) <= CohortMaxFrames
        /\ frames \in Seq(Frame) /\ results \in Seq(Result)
        /\ scratch \in Seq(Request) /\ CohortMaxFrames \in Nat \ {0}
        /\ deflate \in BOOLEAN
    BY SequencerAssumption DEF Types, ThreadTypes, RootTypes, FlagTypes
  <1>b. /\ <<>> \in Seq(Request) /\ <<>> \in Seq(Frame) /\ <<>> \in Seq(Result)
        /\ <<>> \in Seq(Request \cup {Stop}) /\ Len(<<>>) = 0
    OBVIOUS
  <1>c. queue # <<>> => Head(queue) \in Request \cup {Stop} /\ Tail(queue) \in Seq(Request \cup {Stop})
    BY <1>a, TailOf
  <1>d. cohort # <<>> => Tail(cohort) \in Seq(Request) /\ Len(Tail(cohort)) <= CohortMaxFrames
    BY <1>a, TailOf
  <1> USE DEF ThreadTypes
  <1>1. CASE UNCHANGED <<queue, pending, cohort, frames, results>> BY <1>a, <1>1
  <1>2. ASSUME NEW r \in Request, PutTicket(r) PROVE ThreadTypes'
    BY <1>a, <1>2 DEF PutTicket, thread
  <1>3. CASE LoopHead BY <1>a, <1>3 DEF LoopHead, tickets
  <1>4. CASE TakeFirst
    <2> DEFINE first == IF pending # NoTicket THEN pending ELSE Head(queue)
    <2>1. first \in Request \cup {Stop} BY <1>a, <1>c, <1>4 DEF TakeFirst
    <2>2. first # Stop => <<first>> \in Seq(Request) /\ Len(<<first>>) = 1 BY <2>1
    <2>3. cohort' = IF first = Stop THEN <<>> ELSE <<first>> BY <1>4 DEF TakeFirst
    <2>4. queue' \in Seq(Request \cup {Stop}) BY <1>a, <1>c, <1>4 DEF TakeFirst
    <2> HIDE DEF first
    <2>5. cohort' \in Seq(Request) /\ Len(cohort') <= CohortMaxFrames
      BY <1>a, <1>b, <2>2, <2>3
    <2> QED BY <1>a, <1>4, <2>4, <2>5 DEF TakeFirst
  <1>5. CASE Collect
    <2>1. Head(queue) \in Request \cup {Stop} /\ queue' \in Seq(Request \cup {Stop})
      BY <1>c, <1>5 DEF Collect
    <2>2. CASE pending' = Head(queue) /\ UNCHANGED cohort
      BY <1>a, <1>5, <2>1, <2>2 DEF Collect
    <2>3. CASE Head(queue) # Stop /\ cohort' = Append(cohort, Head(queue)) /\ UNCHANGED pending
      <3>1. cohort' \in Seq(Request) /\ Len(cohort') = Len(cohort) + 1 BY <1>a, <2>1, <2>3
      <3> QED BY <1>a, <1>5, <2>1, <2>3, <3>1 DEF Collect
    <2> QED BY <1>5, <2>2, <2>3 DEF Collect
  <1>6. CASE StartCohort
    <2>1. <<Error("recovery-required")>> \in Seq(Result)
      BY DEF Error, Result, Code, Refusal
    <2> QED BY <1>a, <1>b, <1>6, <2>1 DEF StartCohort, tickets
  <1>7. CASE RunMutation
    <2>1. cohort[Len(results) + 1] \in Request BY <1>a, <1>7 DEF RunMutation
    <2>2. Len(scratch) \in Nat /\ Len(scratch) + 1 \in Nat BY <1>a
    <2>3. \A code \in {"conflict", "refused", "cancelled", "committed"},
             v \in {Len(scratch), Len(scratch) + 1} :
             Append(results, [code |-> code, version |-> v]) \in Seq(Result)
      BY <1>a, <2>2 DEF Result, Code, Refusal
    <2>4. Append(frames, [sequence |-> Len(scratch) + 1, request |-> cohort[Len(results) + 1],
                          deflated |-> deflate]) \in Seq(Frame)
      BY <1>a, <2>1, <2>2 DEF Frame
    <2>5. results' \in Seq(Result) BY <1>7, <2>3 DEF RunMutation
    <2>6. frames' \in Seq(Frame) BY <1>a, <1>7, <2>4 DEF RunMutation
    <2> QED BY <1>a, <1>7, <2>5, <2>6 DEF RunMutation, tickets
  <1>8. CASE Reconcile
    <2>1. <<Error("durability-ambiguous")>> \in Seq(Result)
          /\ <<Error("database-corrupt")>> \in Seq(Result)
      BY DEF Error, Result, Code, Uncertain
    <2>2. results' \in Seq(Result) BY <1>8, <2>1 DEF Reconcile
    <2> QED BY <1>a, <1>8, <2>2 DEF Reconcile, tickets
  <1>9. CASE DeliverNext
    <2>1. results # <<>> BY <1>a, <1>b, <1>9 DEF DeliverNext, Results, Answering
    <2>2. Tail(results) \in Seq(Result) BY <1>a, <2>1, TailOf
    <2> QED BY <1>a, <1>d, <1>9, <2>2 DEF DeliverNext, tickets
  <1>10. CASE DeliverErrors BY <1>a, <1>d, <1>10 DEF DeliverErrors, tickets
  <1>11. CASE NextRound BY <1>a, <1>b, <1>11 DEF NextRound, tickets
  <1>12. CASE Drain BY <1>a, <1>c, <1>12 DEF Drain
  <1>13. CASE StopSequencer BY <1>a, <1>13 DEF StopSequencer, thread
  <1>14. CASE FinishShutdown \/ Crash
    <2>1. Gone BY <1>14 DEF FinishShutdown, Crash
    <2>2. Len(<<>>) <= CohortMaxFrames BY <1>a, <1>b
    <2> QED BY <1>b, <2>1, <2>2 DEF Gone
  <1> QED BY <1>1, <1>2, <1>3, <1>4, <1>5, <1>6, <1>7, <1>8, <1>9, <1>10, <1>11, <1>12,
             <1>13, <1>14
      DEF Next, vars, disk, process, tickets, thread, clients, bounds, Sequencer, Worker,
         Client, Shutdown, Boot, Submit, Cancel, SequenceCommit, Receive,
         WorkerInterrupted, CloseCohort, EndRun, WriteFrames, WriteFails, ForceFrames,
         ForceFails, PublishSnapshot, BeginShutdown, InterruptWorkers

\* Every answer that is delivered is a result.
LEMMA Deliveries ==
    ASSUME Types, Results, [Next]_vars
    PROVE  \/ UNCHANGED promise
           \/ \E r \in Request : \E m \in Result : Deliver(r, m)
  <1>a. /\ queue \in Seq(Request \cup {Stop}) /\ cohort \in Seq(Request)
        /\ results \in Seq(Result)
    BY DEF Types, ThreadTypes
  <1>b. Error("not-booted") \in Result BY DEF Error, Result, Code, Refusal
  <1>1. CASE LoopHead BY <1>b, <1>1 DEF LoopHead
  <1>2. CASE Drain
    <2>1. CASE UNCHANGED promise BY <2>1
    <2>2. CASE queue # <<>> /\ Head(queue) # Stop /\ Deliver(Head(queue), Error("not-booted"))
      <3>1. Head(queue) \in Request BY <1>a, <2>2, TailOf
      <3> QED BY <1>b, <2>2, <3>1
    <2> QED BY <1>2, <2>1, <2>2 DEF Drain
  <1>3. CASE DeliverNext \/ DeliverErrors
    <2>1. cohort # <<>> /\ Deliver(Head(cohort), Head(results))
      BY <1>3 DEF DeliverNext, DeliverErrors
    <2>2. Len(cohort) \in Nat \ {0} /\ Head(cohort) \in Request BY <1>a, <2>1, TailOf
    <2>3. Len(results) # 0
      BY <1>3, <2>2 DEF DeliverNext, DeliverErrors, Results, Answering
    <2>4. results # <<>> BY <2>3
    <2>5. Head(results) \in Result BY <1>a, <2>4, TailOf
    <2> QED BY <2>1, <2>2, <2>5
  <1> QED BY <1>1, <1>2, <1>3
      DEF Next, vars, disk, process, tickets, thread, clients, bounds, Sequencer, Worker,
         Client, Shutdown, Boot, Submit, Cancel, SequenceCommit, PutTicket, Receive,
         WorkerInterrupted, TakeFirst, Collect, CloseCohort, StartCohort, RunMutation,
         EndRun, WriteFrames, WriteFails, ForceFrames, ForceFails, Reconcile,
         PublishSnapshot, NextRound, BeginShutdown, InterruptWorkers, StopSequencer,
         FinishShutdown, Crash, Abandon

LEMMA TypesStep ==
    ASSUME Types, Results, [Next]_vars
    PROVE  Types'
  <1> USE SequencerAssumption
      DEF Next, vars, disk, process, tickets, thread, clients, bounds, Sequencer, Worker,
         Client, Shutdown, Boot, Submit, Cancel, SequenceCommit, PutTicket, Receive,
         WorkerInterrupted, LoopHead, TakeFirst, Collect, CloseCohort, StartCohort,
         RunMutation, EndRun, WriteFrames, WriteFails, ForceFrames, ForceFails, Reconcile,
         PublishSnapshot, DeliverNext, DeliverErrors, NextRound, Drain, BeginShutdown,
         InterruptWorkers, StopSequencer, FinishShutdown, Crash, Gone, Abandon, Finish
  <1>1. DiskTypes' BY FileStep DEF FileKept, DiskTypes
  <1>2. RootTypes' BY RootTypesStep
  <1>3. ThreadTypes' BY ThreadTypesStep
  <1>4. FlagTypes'
    <2>1. ASSUME deflate \in BOOLEAN PROVE deflate' \in BOOLEAN
      <3>1. (HeaderDeflate /\ tail # "frame") \in BOOLEAN OBVIOUS
      <3> QED BY <2>1, <3>1
    <2>2. ASSUME current \in BOOLEAN PROVE current' \in BOOLEAN BY <2>2
    <2> QED BY <2>1, <2>2 DEF Types, FlagTypes
  <1>5. PlaceTypes'
    <2>1. tail' \in {"none", "length", "frame", "damaged"} BY DEF Types, PlaceTypes
    <2>2. server' \in {"down", "serving", "stopping", "interrupted", "closing"}
      BY DEF Types, PlaceTypes
    <2>3. status' \in {"ready", "unreconciled", "recovery-required", "corrupt"}
      BY DEF Types, PlaceTypes
    <2>4. pc' \in {"off", "loop", "take", "collect", "start", "run", "append", "force",
               "reconcile", "publish", "deliver", "fail", "drain"}
      BY DEF Types, PlaceTypes
    <2> QED BY <2>1, <2>2, <2>3, <2>4 DEF PlaceTypes
  <1>6. ClientTypes'
    <2>1. phase' \in [Request -> {"idle", "serving", "enqueue", "waiting", "done"}]
      BY DEF Types, ClientTypes
    <2>2. expected' \in [Request -> Nat \cup {NoVersion}]
      <3>1. Len(published) \in Nat BY DEF Types, RootTypes
      <3>2. expected \in [Request -> Nat \cup {NoVersion}] BY DEF Types, ClientTypes
      <3> QED BY <3>1, <3>2
    <2>3. cancelled' \subseteq Request BY DEF Types, ClientTypes
    <2>4. promise' \in [Request -> Result \cup {None}]
      <3>1. promise \in [Request -> Result \cup {None}] BY DEF Types, ClientTypes
      <3> QED BY <3>1, Deliveries DEF Deliver
    <2>5. reply' \in [Request -> Result \cup {None}]
      <3>1. /\ promise \in [Request -> Result \cup {None}]
            /\ reply \in [Request -> Result \cup {None}]
        BY DEF Types, ClientTypes
      <3>2. \A code \in Code : Error(code) \in Result BY DEF Error, Result
      <3>3. /\ "cancelled" \in Code /\ "recovery-required" \in Code /\ "not-booted" \in Code
            /\ "internal-error" \in Code /\ "lost" \in Code
        BY DEF Code, Uncertain, Refusal
      <3>4. \/ UNCHANGED reply
            \/ reply' = [r \in Request |-> IF Active(r) THEN Error("lost") ELSE reply[r]]
            \/ \E r \in Request :
                  \/ \E code \in {"cancelled", "recovery-required", "not-booted", "internal-error"} :
                        reply' = [reply EXCEPT ![r] = Error(code)]
                  \/ reply' = [reply EXCEPT ![r] = promise[r]]
        OBVIOUS
      <3>5. CASE UNCHANGED reply BY <3>1, <3>5
      <3>6. CASE reply' = [r \in Request |-> IF Active(r) THEN Error("lost") ELSE reply[r]]
        BY ONLY <3>1, <3>2, <3>3, <3>6
      <3>7. ASSUME NEW r \in Request,
                   NEW m \in Result \cup {None}, reply' = [reply EXCEPT ![r] = m]
            PROVE  reply' \in [Request -> Result \cup {None}]
        BY ONLY <3>1, <3>7
      <3>8. \A code \in {"cancelled", "recovery-required", "not-booted", "internal-error"} :
               Error(code) \in Result \cup {None}
        BY <3>2, <3>3
      <3>9. \A r \in Request : promise[r] \in Result \cup {None} BY <3>1
      <3> QED BY ONLY <3>4, <3>5, <3>6, <3>7, <3>8, <3>9
    <2>6. boots' \in 0..MaxBoots BY DEF Types, ClientTypes
    <2>7. failures' \in 0..MaxFailures BY DEF Types, ClientTypes
    <2> QED BY <2>1, <2>2, <2>3, <2>4, <2>5, <2>6, <2>7 DEF ClientTypes
  <1> QED BY <1>1, <1>2, <1>3, <1>4, <1>5, <1>6 DEF Types

-----------------------------------------------------------------------------
(* Fences                                                                  *)

LEMMA FencesStep ==
    ASSUME Types, Fences, [Next]_vars
    PROVE  Fences'
  <1> USE DEF Next, vars, disk, process, tickets, thread, clients, bounds, Sequencer, Worker,
         Client, Shutdown, Boot, Submit, Cancel, SequenceCommit, PutTicket, Receive,
         WorkerInterrupted, LoopHead, TakeFirst, Collect, CloseCohort, StartCohort,
         RunMutation, EndRun, WriteFrames, WriteFails, ForceFrames, ForceFails, Reconcile,
         PublishSnapshot, DeliverNext, DeliverErrors, NextRound, Drain, BeginShutdown,
         InterruptWorkers, StopSequencer, FinishShutdown, Crash, Gone, Abandon, Finish,
         Answering
  <1>a. /\ phase \in [Request -> {"idle", "serving", "enqueue", "waiting", "done"}]
        /\ pc \in {"off", "loop", "take", "collect", "start", "run", "append", "force",
                   "reconcile", "publish", "deliver", "fail", "drain"}
    BY DEF Types, ClientTypes, PlaceTypes
  <1>1. ~Up' => status' = "ready" /\ pc' = "off" /\ queue' = <<>> /\ pending' = NoTicket
    BY <1>a DEF Fences, Up, Active
  <1>2. ~Up' => \A r \in Request : ~Active(r)'
    BY <1>a DEF Fences, Up, Active
  <1>3. pc' \in {"off", "loop", "take", "drain"} => cohort' = <<>>
    BY <1>a DEF Fences, Up
  <1>4. pc' \in Answering => status' = "ready" BY <1>a DEF Fences, Up
  <1>5. status' = "unreconciled" <=> pc' = "reconcile" BY <1>a DEF Fences, Up
  <1>6. tail' # "none" => ~Up' \/ status' # "ready" BY <1>a DEF Fences, Up
  <1> QED BY <1>1, <1>2, <1>3, <1>4, <1>5, <1>6 DEF Fences

-----------------------------------------------------------------------------
(* Roots                                                                   *)

LEMMA RootSteps ==
    ASSUME [Next]_vars
    PROVE  \/ /\ UNCHANGED <<log, store, published, status, server>>
              /\ pc' = pc \/ {pc, pc'} \cap {"force", "reconcile", "publish"} = {}
           \/ Up /\ UNCHANGED <<log, store, published, status, pc>>
           \/ Boot \/ WriteFrames \/ WriteFails \/ ForceFrames \/ ForceFails \/ Reconcile
           \/ PublishSnapshot
           \/ ~Up'
  BY DEF Next, vars, disk, process, tickets, thread, clients, bounds, Sequencer, Worker,
         Client, Shutdown, Submit, Cancel, SequenceCommit, PutTicket, Receive,
         WorkerInterrupted, LoopHead, TakeFirst, Collect, CloseCohort, StartCohort,
         RunMutation, EndRun, DeliverNext, DeliverErrors, NextRound, Drain, BeginShutdown,
         InterruptWorkers, StopSequencer, FinishShutdown, Crash, Gone, Up

LEMMA RootsStep ==
    ASSUME Types, Fences, Roots, Planned, [Next]_vars
    PROVE  Roots'
  <1>a. /\ log \in Seq(Frame) /\ Len(log) \in Nat /\ Len(published) \in Nat
        /\ store \in Seq(Request) /\ published \in Seq(Request) /\ scratch \in Seq(Request)
    BY DEF Types, DiskTypes, RootTypes
  <1>b. FileKept BY FileStep
  <1>c. pc # "off" => Up BY DEF Fences
  <1>1. CASE UNCHANGED <<log, store, published, status, server>>
             /\ (pc' = pc \/ {pc, pc'} \cap {"force", "reconcile", "publish"} = {})
    BY <1>1 DEF Roots, Up
  <1>2. CASE Up /\ UNCHANGED <<log, store, published, status, pc>>
    BY <1>2 DEF Roots
  <1>3. CASE Boot
    <2>1. store' = Requests(log) /\ published' = Requests(log) /\ log' = log
      BY <1>3 DEF Boot
    <2> QED BY <1>a, <2>1, RequestsOf DEF Roots
  <1>4. CASE WriteFrames \/ WriteFails
    <2>1. /\ UNCHANGED <<store, published, server>> /\ pc = "append"
          /\ pc' \in {"force", "reconcile"} /\ status' # "recovery-required"
          /\ status = "ready" /\ Up
      BY <1>4, <1>c DEF WriteFrames, WriteFails, process, Fences, Answering
    <2>2. Len(log') \in Nat /\ Len(log) <= Len(log') /\ \A i \in 1..Len(log) : log'[i] = log[i]
      BY <1>b, <2>1 DEF FileKept, Up
    <2>3. store = published BY <2>1 DEF Roots
    <2>4. \A i \in 1..Len(published) : published[i] = log'[i].request
      BY <1>a, <2>1, <2>2 DEF Roots
    <2> QED BY <1>a, <2>1, <2>2, <2>3, <2>4 DEF Roots
  <1>5. CASE ForceFrames
    <2>1. /\ UNCHANGED <<log, published, server, status>> /\ pc = "force"
          /\ pc' = "publish" /\ store' = scratch /\ Up
      BY <1>5, <1>c DEF ForceFrames
    <2> QED BY <2>1 DEF Roots, Planned
  <1>6. CASE ForceFails
    <2>1. /\ UNCHANGED <<log, published, store, server>> /\ pc = "force"
          /\ pc' = "reconcile" /\ Up /\ status = "ready"
      BY <1>6, <1>c DEF ForceFails, disk, Fences, Answering
    <2> QED BY <2>1 DEF Roots
  <1>7. CASE Reconcile
    <2>1. /\ UNCHANGED <<log, published, server>> /\ pc = "reconcile" /\ pc' = "fail"
          /\ status = "unreconciled" /\ Up
          /\ \/ store' = Requests(log) /\ status' = "recovery-required"
             \/ store' = store /\ status' = "corrupt"
      BY <1>7, <1>c DEF Reconcile, disk, Fences
    <2> QED BY <1>a, <2>1, RequestsOf DEF Roots
  <1>8. CASE PublishSnapshot
    <2>1. /\ UNCHANGED <<log, store, server, status>> /\ pc = "publish" /\ pc' = "deliver"
          /\ published' = store /\ status = "ready" /\ Up
      BY <1>8, <1>c DEF PublishSnapshot, disk, Fences, Answering
    <2> QED BY <1>a, <2>1 DEF Roots
  <1>9. CASE ~Up' BY <1>9 DEF Roots
  <1> QED BY <1>1, <1>2, <1>3, <1>4, <1>5, <1>6, <1>7, <1>8, <1>9, RootSteps

-----------------------------------------------------------------------------
(* Tickets                                                                 *)

LEMMA QueueTail ==
    ASSUME Types, Places, queue # <<>>, queue' = Tail(queue)
    PROVE  /\ \A i, j \in 1..Len(queue') : queue'[i] = queue'[j] /\ queue'[i] # Stop => i = j
           /\ \A r \in Request : InQueue(r)' => InQueue(r) /\ r # Head(queue)
           /\ Head(queue) \in Request => InQueue(Head(queue))
  <1>a. queue \in Seq(Request \cup {Stop}) BY DEF Types, ThreadTypes
  <1>b. \A i, j \in 1..Len(queue) : queue[i] = queue[j] /\ queue[i] # Stop => i = j
    BY DEF Places
  <1>1. /\ Head(queue) = queue[1] /\ Len(queue) \in Nat \ {0} /\ Len(queue') = Len(queue) - 1
        /\ \A i \in 1..(Len(queue) - 1) : queue'[i] = queue[i + 1]
    BY <1>a, TailOf
  <1>2. \A i, j \in 1..Len(queue') : queue'[i] = queue'[j] /\ queue'[i] # Stop => i = j
    BY <1>b, <1>1
  <1>3. \A r \in Request : InQueue(r)' => InQueue(r) /\ r # Head(queue)
    <2> SUFFICES ASSUME NEW r \in Request, NEW i \in 1..Len(queue'), queue'[i] = r
                 PROVE  InQueue(r) /\ r # Head(queue)
      BY DEF InQueue
    <2>1. queue[i + 1] = r /\ i + 1 \in 1..Len(queue) /\ i + 1 # 1 BY <1>1
    <2>2. r # Stop BY SequencerAssumption
    <2> QED BY <1>b, <1>1, <2>1, <2>2 DEF InQueue
  <1>4. InQueue(Head(queue)) BY <1>1 DEF InQueue
  <1> QED BY <1>2, <1>3, <1>4

LEMMA CohortTail ==
    ASSUME Types, Places, cohort # <<>>, cohort' = Tail(cohort)
    PROVE  /\ \A i, j \in 1..Len(cohort') : cohort'[i] = cohort'[j] => i = j
           /\ \A r \in Request : InCohort(r)' => InCohort(r) /\ r # Head(cohort)
           /\ Head(cohort) \in Request /\ InCohort(Head(cohort))
  <1>a. cohort \in Seq(Request) BY DEF Types, ThreadTypes
  <1>b. \A i, j \in 1..Len(cohort) : cohort[i] = cohort[j] => i = j BY DEF Places
  <1>1. /\ Head(cohort) = cohort[1] /\ Head(cohort) \in Request
        /\ Len(cohort) \in Nat \ {0} /\ Len(cohort') = Len(cohort) - 1
        /\ \A i \in 1..(Len(cohort) - 1) : cohort'[i] = cohort[i + 1]
    BY <1>a, TailOf
  <1>2. \A i, j \in 1..Len(cohort') : cohort'[i] = cohort'[j] => i = j
    BY <1>b, <1>1
  <1>3. \A r \in Request : InCohort(r)' => InCohort(r) /\ r # Head(cohort)
    <2> SUFFICES ASSUME NEW r \in Request, NEW i \in 1..Len(cohort'), cohort'[i] = r
                 PROVE  InCohort(r) /\ r # Head(cohort)
      BY DEF InCohort
    <2>1. cohort[i + 1] = r /\ i + 1 \in 1..Len(cohort) /\ i + 1 # 1 BY <1>1
    <2> QED BY <1>b, <1>1, <2>1 DEF InCohort
  <1>4. InCohort(Head(cohort)) BY <1>1 DEF InCohort
  <1> QED BY <1>1, <1>2, <1>3, <1>4

LEMMA QueueAppend ==
    ASSUME Types, Places, NEW x \in Request \cup {Stop}, queue' = Append(queue, x),
           x # Stop => ~InQueue(x)
    PROVE  /\ \A i, j \in 1..Len(queue') : queue'[i] = queue'[j] /\ queue'[i] # Stop => i = j
           /\ \A r \in Request : InQueue(r)' => InQueue(r) \/ r = x
  <1>a. queue \in Seq(Request \cup {Stop}) BY DEF Types, ThreadTypes
  <1>b. \A i, j \in 1..Len(queue) : queue[i] = queue[j] /\ queue[i] # Stop => i = j
    BY DEF Places
  <1>1. /\ Len(queue) \in Nat /\ Len(queue') = Len(queue) + 1 /\ queue'[Len(queue) + 1] = x
        /\ \A i \in 1..Len(queue) : queue'[i] = queue[i]
    BY <1>a
  <1>2. \A i \in 1..Len(queue) : x # Stop => queue[i] # x BY DEF InQueue
  <1> QED BY <1>b, <1>1, <1>2 DEF InQueue

LEMMA CohortAppend ==
    ASSUME Types, Places, NEW x \in Request, cohort' = Append(cohort, x), ~InCohort(x)
    PROVE  /\ \A i, j \in 1..Len(cohort') : cohort'[i] = cohort'[j] => i = j
           /\ \A r \in Request : InCohort(r)' => InCohort(r) \/ r = x
  <1>a. cohort \in Seq(Request) BY DEF Types, ThreadTypes
  <1>b. \A i, j \in 1..Len(cohort) : cohort[i] = cohort[j] => i = j BY DEF Places
  <1>1. /\ Len(cohort) \in Nat /\ Len(cohort') = Len(cohort) + 1 /\ cohort'[Len(cohort) + 1] = x
        /\ \A i \in 1..Len(cohort) : cohort'[i] = cohort[i]
    BY <1>a
  <1> QED BY <1>b, <1>1 DEF InCohort

LEMMA PlaceSteps ==
    ASSUME [Next]_vars
    PROVE  \/ UNCHANGED <<queue, pending, cohort>>
           \/ (\E r \in Request : PutTicket(r)) \/ StopSequencer \/ LoopHead \/ TakeFirst
           \/ Collect \/ DeliverNext \/ DeliverErrors \/ Drain \/ Gone
  BY DEF Next, vars, disk, process, tickets, thread, clients, bounds, Sequencer, Worker,
         Client, Shutdown, Boot, Submit, Cancel, SequenceCommit, Receive,
         WorkerInterrupted, CloseCohort, StartCohort, RunMutation, EndRun, WriteFrames,
         WriteFails, ForceFrames, ForceFails, Reconcile, PublishSnapshot, NextRound,
         BeginShutdown, InterruptWorkers, FinishShutdown, Crash

\* A ticket moves from the queue to the cohort and is gone once answered; a
\* step brings in none but the one that is put.
LEMMA PlacesStep ==
    ASSUME Types, Fences, Places, Waits, [Next]_vars
    PROVE  /\ Places'
           /\ \A r \in Request : InQueue(r)' => InQueue(r) \/ PutTicket(r)
           /\ \A r \in Request : pending' = r => pending = r \/ InQueue(r)
           /\ \A r \in Request : InCohort(r)' => InCohort(r) \/ pending = r \/ InQueue(r)
  <1> DEFINE Good ==
           /\ Places'
           /\ \A r \in Request : InQueue(r)' => InQueue(r) \/ PutTicket(r)
           /\ \A r \in Request : pending' = r => pending = r \/ InQueue(r)
           /\ \A r \in Request : InCohort(r)' => InCohort(r) \/ pending = r \/ InQueue(r)
  <1>a. /\ queue \in Seq(Request \cup {Stop}) /\ cohort \in Seq(Request)
        /\ pending \in Request \cup {Stop, NoTicket}
    BY DEF Types, ThreadTypes
  <1>b. NoTicket \notin Request /\ Stop \notin Request BY SequencerAssumption
  <1>1. CASE UNCHANGED <<queue, pending, cohort>>
    BY <1>1 DEF Places, InQueue, InCohort
  <1>2. ASSUME NEW r \in Request, PutTicket(r) PROVE Good
    <2>1. queue' = Append(queue, r) /\ UNCHANGED <<pending, cohort>> /\ ~Ticketed(r)
      BY <1>2 DEF PutTicket, thread, Waits
    <2>2. /\ \A i, j \in 1..Len(queue') : queue'[i] = queue'[j] /\ queue'[i] # Stop => i = j
          /\ \A q \in Request : InQueue(q)' => InQueue(q) \/ q = r
      BY <2>1, QueueAppend DEF Ticketed
    <2>3. \A q \in Request : InCohort(q)' <=> InCohort(q) BY <2>1 DEF InCohort
    <2> QED BY <1>2, <2>1, <2>2, <2>3 DEF Places, Ticketed
  <1>3. CASE StopSequencer
    <2>1. queue' = Append(queue, Stop) /\ UNCHANGED <<pending, cohort>>
      BY <1>3 DEF StopSequencer, thread
    <2>2. /\ \A i, j \in 1..Len(queue') : queue'[i] = queue'[j] /\ queue'[i] # Stop => i = j
          /\ \A q \in Request : InQueue(q)' => InQueue(q)
      BY <1>b, <2>1, QueueAppend
    <2>3. \A q \in Request : InCohort(q)' <=> InCohort(q) BY <2>1 DEF InCohort
    <2> QED BY <2>1, <2>2, <2>3 DEF Places
  <1>4. CASE LoopHead
    <2>1. UNCHANGED <<queue, cohort>> /\ pending' \in {pending, NoTicket}
      BY <1>4 DEF LoopHead, tickets
    <2> QED BY <1>b, <2>1 DEF Places, InQueue, InCohort
  <1>5. CASE TakeFirst
    <2> DEFINE first == IF pending # NoTicket THEN pending ELSE Head(queue)
    <2>1. pending' = NoTicket /\ cohort' = (IF first = Stop THEN <<>> ELSE <<first>>)
      BY <1>5 DEF TakeFirst
    <2>2. \/ pending # NoTicket /\ queue' = queue /\ first = pending
          \/ queue # <<>> /\ queue' = Tail(queue) /\ first = Head(queue)
      BY <1>5 DEF TakeFirst
    <2>3. first # Stop => first \in Request BY <1>a, <2>2, TailOf
    <2> HIDE DEF first
    <2>4. \A i, j \in 1..Len(queue') : queue'[i] = queue'[j] /\ queue'[i] # Stop => i = j
      BY <2>2, QueueTail DEF Places
    <2>5. \A r \in Request : InQueue(r)' => InQueue(r) /\ r # first
      <3>1. CASE pending # NoTicket /\ queue' = queue /\ first = pending
        BY <3>1 DEF Places, InQueue
      <3>2. CASE queue # <<>> /\ queue' = Tail(queue) /\ first = Head(queue)
        BY <3>2, QueueTail
      <3> QED BY <2>2, <3>1, <3>2
    <2>6. /\ \A i, j \in 1..Len(cohort') : cohort'[i] = cohort'[j] => i = j
          /\ \A r \in Request : InCohort(r)' => r = first
      <3>1. CASE first = Stop
        <4>1. Len(cohort') = 0 BY <2>1, <3>1
        <4> QED BY <4>1 DEF InCohort
      <3>2. CASE first # Stop
        <4>1. Len(cohort') = 1 /\ cohort'[1] = first BY <2>1, <3>2
        <4> QED BY <4>1 DEF InCohort
      <3> QED BY <3>1, <3>2
    <2>7. first \in Request => first = pending \/ InQueue(first)
      BY <2>2, QueueTail
    <2> QED BY <1>b, <2>1, <2>4, <2>5, <2>6, <2>7 DEF Places
  <1>6. CASE Collect
    <2>1. /\ queue # <<>> /\ queue' = Tail(queue) /\ Head(queue) \in Request \cup {Stop}
          /\ \/ pending' = Head(queue) /\ UNCHANGED cohort
             \/ /\ Head(queue) # Stop /\ cohort' = Append(cohort, Head(queue))
                /\ UNCHANGED pending
      BY <1>a, <1>6, TailOf DEF Collect
    <2>2. /\ \A i, j \in 1..Len(queue') : queue'[i] = queue'[j] /\ queue'[i] # Stop => i = j
          /\ \A r \in Request : InQueue(r)' => InQueue(r) /\ r # Head(queue)
          /\ Head(queue) \in Request => InQueue(Head(queue))
      BY <2>1, QueueTail
    <2>3. CASE pending' = Head(queue) /\ UNCHANGED cohort
      <3>1. \A q \in Request : InCohort(q)' <=> InCohort(q) BY <2>3 DEF InCohort
      <3> QED BY <2>2, <2>3, <3>1 DEF Places
    <2>4. CASE Head(queue) # Stop /\ cohort' = Append(cohort, Head(queue)) /\ UNCHANGED pending
      <3>1. Head(queue) \in Request /\ InQueue(Head(queue)) BY <2>1, <2>2, <2>4
      <3>2. ~InCohort(Head(queue)) /\ pending # Head(queue) BY <3>1 DEF Places
      <3>3. /\ \A i, j \in 1..Len(cohort') : cohort'[i] = cohort'[j] => i = j
            /\ \A r \in Request : InCohort(r)' => InCohort(r) \/ r = Head(queue)
        BY <2>4, <3>1, <3>2, CohortAppend
      <3> QED BY <2>2, <2>4, <3>1, <3>2, <3>3 DEF Places
    <2> QED BY <2>1, <2>3, <2>4
  <1>7. CASE DeliverNext \/ DeliverErrors
    <2>1. cohort # <<>> /\ cohort' = Tail(cohort) /\ UNCHANGED <<queue, pending>>
      BY <1>7 DEF DeliverNext, DeliverErrors, tickets
    <2>2. \A q \in Request : InQueue(q)' <=> InQueue(q) BY <2>1 DEF InQueue
    <2> QED BY <2>1, <2>2, CohortTail DEF Places
  <1>8. CASE Drain
    <2>1. CASE queue # <<>> /\ queue' = Tail(queue) /\ UNCHANGED <<pending, cohort>>
      <3>2. \A q \in Request : InCohort(q)' <=> InCohort(q) BY <2>1 DEF InCohort
      <3> QED BY <2>1, <3>2, QueueTail DEF Places
    <2> QED BY <1>1, <1>8, <2>1 DEF Drain
  <1>9. CASE Gone
    <2>1. queue' = <<>> /\ pending' = NoTicket /\ cohort' = <<>> BY <1>9 DEF Gone
    <2>2. Len(queue') = 0 /\ Len(cohort') = 0 BY <2>1
    <2> QED BY <1>b, <2>1, <2>2 DEF Places, InQueue, InCohort
  <1> QED BY <1>1, <1>2, <1>3, <1>4, <1>5, <1>6, <1>7, <1>8, <1>9, PlaceSteps

\* Who is answered, and that the ticket is gone then.
LEMMA DeliverSteps ==
    ASSUME Types, Fences, Places, Waits, Results, [Next]_vars
    PROVE  \/ UNCHANGED promise
           \/ \E r \in Request :
                /\ Ticketed(r) /\ ~Ticketed(r)'
                /\ \/ /\ LoopHead \/ Drain
                      /\ InQueue(r) \/ pending = r
                      /\ Deliver(r, Error("not-booted"))
                   \/ /\ DeliverNext \/ DeliverErrors
                      /\ r = Head(cohort) /\ cohort # <<>> /\ results # <<>>
                      /\ Deliver(r, Head(results))
  <1>a. /\ queue \in Seq(Request \cup {Stop}) /\ cohort \in Seq(Request)
        /\ results \in Seq(Result)
    BY DEF Types, ThreadTypes
  <1>b. NoTicket \notin Request /\ Stop \notin Request BY SequencerAssumption
  <1>1. ASSUME LoopHead, ~UNCHANGED promise
        PROVE  \E r \in Request : /\ r = pending /\ ~Ticketed(r)'
                                  /\ Deliver(r, Error("not-booted"))
    <2>1. /\ pending \in Request /\ pending' = NoTicket /\ UNCHANGED <<queue, cohort>>
          /\ Deliver(pending, Error("not-booted"))
      BY <1>1 DEF LoopHead, tickets
    <2>2. PICK r \in Request : r = pending BY <2>1
    <2>3. ~Ticketed(r)' BY <1>b, <2>1, <2>2 DEF Places, Ticketed, InQueue, InCohort
    <2> QED BY <2>1, <2>2, <2>3
  <1>2. ASSUME Drain, ~UNCHANGED promise
        PROVE  \E r \in Request : /\ InQueue(r) /\ ~Ticketed(r)'
                                  /\ Deliver(r, Error("not-booted"))
    <2>1. /\ queue # <<>> /\ Head(queue) # Stop /\ queue' = Tail(queue)
          /\ UNCHANGED <<pending, cohort>>
          /\ Deliver(Head(queue), Error("not-booted"))
      BY <1>2 DEF Drain
    <2>2. PICK r \in Request : r = Head(queue) BY <1>a, <2>1, TailOf
    <2>3. InQueue(r) /\ ~InQueue(r)' BY <2>1, <2>2, QueueTail
    <2>4. ~Ticketed(r)' BY <2>1, <2>3 DEF Places, Ticketed, InCohort
    <2> QED BY <2>1, <2>2, <2>3, <2>4
  <1>3. ASSUME DeliverNext \/ DeliverErrors
        PROVE  \E r \in Request :
                  /\ InCohort(r) /\ ~Ticketed(r)' /\ r = Head(cohort)
                  /\ cohort # <<>> /\ results # <<>> /\ Deliver(r, Head(results))
    <2>1. /\ cohort # <<>> /\ cohort' = Tail(cohort) /\ UNCHANGED <<queue, pending>>
          /\ Deliver(Head(cohort), Head(results))
      BY <1>3 DEF DeliverNext, DeliverErrors, tickets
    <2>2. PICK r \in Request : r = Head(cohort) BY <1>a, <2>1, TailOf
    <2>3. InCohort(r) /\ ~InCohort(r)' BY <2>1, <2>2, CohortTail
    <2>4. ~Ticketed(r)' BY <2>1, <2>3 DEF Places, Ticketed, InQueue
    <2>5. Len(cohort) \in Nat \ {0} BY <1>a, <2>1, TailOf
    <2>6. Len(results) # 0
      BY <1>3, <2>5 DEF DeliverNext, DeliverErrors, Results, Answering
    <2>7. results # <<>> BY <2>6
    <2> QED BY <2>1, <2>2, <2>3, <2>4, <2>7
  <1>4. UNCHANGED promise \/ LoopHead \/ Drain \/ DeliverNext \/ DeliverErrors
    BY DEF Next, vars, disk, process, tickets, thread, clients, bounds, Sequencer, Worker,
         Client, Shutdown, Boot, Submit, Cancel, SequenceCommit, PutTicket, Receive,
         WorkerInterrupted, TakeFirst, Collect, CloseCohort, StartCohort, RunMutation,
         EndRun, WriteFrames, WriteFails, ForceFrames, ForceFails, Reconcile,
         PublishSnapshot, NextRound, BeginShutdown, InterruptWorkers, StopSequencer,
         FinishShutdown, Crash, Abandon
  <1> HIDE DEF Deliver
  <1> QED BY <1>1, <1>2, <1>3, <1>4 DEF Ticketed

LEMMA WaitsStep ==
    ASSUME Types, Fences, Places, Waits, Results, Told, [Next]_vars
    PROVE  Waits'
  <1> SUFFICES ASSUME NEW r \in Request, Ticketed(r)'
      PROVE  /\ promise'[r] = None
             /\ phase'[r] \in {"waiting", "done"}
             /\ reply'[r].code \in Uncertain \cup {"none"}
    BY DEF Waits
  <1>a. /\ phase \in [Request -> {"idle", "serving", "enqueue", "waiting", "done"}]
        /\ promise \in [Request -> Result \cup {None}]
        /\ reply \in [Request -> Result \cup {None}]
    BY DEF Types, ClientTypes
  <1>1. Ticketed(r) \/ PutTicket(r) BY PlacesStep DEF Ticketed
  <1>b. /\ promise[r] = None
        /\ Ticketed(r) => phase[r] \in {"waiting", "done"}
        /\ reply[r].code \in Uncertain \cup {"none"}
    BY <1>1 DEF Waits, Told, PutTicket, None
  <1>2. promise'[r] = None
    <2>1. CASE UNCHANGED promise BY <1>b, <2>1
    <2>2. ASSUME NEW q \in Request, NEW m, Deliver(q, m), ~Ticketed(q)'
          PROVE  promise'[r] = None
      BY <1>a, <1>b, <2>2 DEF Deliver
    <2> HIDE DEF Deliver
    <2> QED BY <2>1, <2>2, DeliverSteps
  <1>3. ~Gone
    <2> SUFFICES ASSUME Gone PROVE FALSE OBVIOUS
    <2>1. Len(queue') = 0 /\ Len(cohort') = 0 /\ pending' = NoTicket BY DEF Gone
    <2> QED BY <2>1, SequencerAssumption DEF Ticketed, InQueue, InCohort
  <1>4. CASE PutTicket(r)
    BY <1>a, <1>b, <1>2, <1>4 DEF PutTicket
  <1>5. CASE Ticketed(r)
    <2>1. phase[r] \in {"waiting", "done"} BY <1>b, <1>5
    <2>2. phase'[r] \in {"waiting", "done"}
      BY <1>a, <1>3, <2>1 DEF Next, vars, disk, process, tickets, thread, clients, bounds,
         Sequencer, Worker, Client, Shutdown, Boot, Submit, Cancel, SequenceCommit,
         PutTicket, Receive, WorkerInterrupted, LoopHead, TakeFirst, Collect, CloseCohort,
         StartCohort, RunMutation, EndRun, WriteFrames, WriteFails, ForceFrames, ForceFails,
         Reconcile, PublishSnapshot, DeliverNext, DeliverErrors, NextRound, Drain,
         BeginShutdown, InterruptWorkers, StopSequencer, FinishShutdown, Crash, Finish
    <2>3. reply'[r] \in {reply[r], Error("internal-error")}
      BY <1>a, <1>b, <1>3, <2>1 DEF Next, vars, disk, process, tickets, thread, clients,
         bounds, Sequencer, Worker, Client, Shutdown, Boot, Submit, Cancel, SequenceCommit,
         PutTicket, Receive, WorkerInterrupted, LoopHead, TakeFirst, Collect, CloseCohort,
         StartCohort, RunMutation, EndRun, WriteFrames, WriteFails, ForceFrames, ForceFails,
         Reconcile, PublishSnapshot, DeliverNext, DeliverErrors, NextRound, Drain,
         BeginShutdown, InterruptWorkers, StopSequencer, FinishShutdown, Crash, Finish
    <2> QED BY <1>b, <1>2, <2>2, <2>3 DEF Error, Uncertain
  <1> QED BY <1>1, <1>4, <1>5

-----------------------------------------------------------------------------
(* The file and the root of the cohort                                     *)

\* A request that is new in the file is one of the cohort being written, and
\* the file is then the root the cohort ran on, as far as it goes.
LEMMA NewInFile ==
    ASSUME Types, Fences, Roots, Planned, Results, [Next]_vars
    PROVE  /\ \A r \in Request : InFile(r)' => InFile(r) \/ (pc = "append" /\ InCohort(r))
           /\ pc = "append" => \A i \in 1..Len(log') :
                 i \in 1..Len(scratch) /\ log'[i].request = scratch[i]
           /\ pc # "append" => \A i \in 1..Len(log') : i \in 1..Len(log) /\ log'[i] = log[i]
  <1>a. /\ log \in Seq(Frame) /\ log' \in Seq(Frame) /\ Len(log) \in Nat /\ Len(log') \in Nat
        /\ Len(frames) \in Nat /\ Len(scratch) \in Nat /\ Len(store) \in Nat
        /\ Len(results) \in Nat /\ Len(cohort) \in Nat
    BY FileStep DEF FileKept, Types, DiskTypes, ThreadTypes, RootTypes
  <1>b. \A i \in 1..Len(log') : Placed(i) BY FileStep DEF FileKept
  <1>1. ASSUME pc = "append", NEW i \in 1..Len(log')
        PROVE  /\ i \in 1..Len(scratch) /\ log'[i].request = scratch[i]
               /\ InFile(log'[i].request) \/ InCohort(log'[i].request)
    <2>1. /\ Len(scratch) = Len(store) + Len(frames)
          /\ \A k \in 1..Len(store) : scratch[k] = store[k]
          /\ \A k \in 1..Len(frames) : scratch[Len(store) + k] = frames[k].request
          /\ \A k \in 1..Len(frames) : \E j \in 1..Len(results) : frames[k].request = cohort[j]
      BY <1>1 DEF Planned, Writing
    <2>2. Len(store) = Len(log) /\ \A k \in 1..Len(log) : store[k] = log[k].request
      BY <1>1 DEF Roots, Fences, Answering
    <2>3. Len(results) = Len(cohort) BY <1>1 DEF Results, Answering
    <2>4. CASE i <= Len(log) /\ log'[i] = log[i]
      <3>1. i \in 1..Len(log) /\ i \in 1..Len(store) /\ i \in 1..Len(scratch)
        BY <1>a, <2>1, <2>2, <2>4
      <3>2. log'[i].request = log[i].request /\ InFile(log'[i].request)
        BY <2>4, <3>1 DEF InFile
      <3>3. scratch[i] = store[i] /\ store[i] = log[i].request BY <2>1, <2>2, <3>1
      <3> QED BY <3>1, <3>2, <3>3
    <2>5. CASE i > Len(log) /\ i - Len(log) <= Len(frames) /\ log'[i] = frames[i - Len(log)]
      <3>1. i - Len(log) \in 1..Len(frames) BY <1>a, <2>5
      <3>2. scratch[Len(store) + (i - Len(log))] = log'[i].request BY <2>1, <2>5, <3>1
      <3>3. Len(store) + (i - Len(log)) = i BY <1>a, <2>2
      <3>4. InCohort(log'[i].request) BY <2>1, <2>3, <2>5, <3>1 DEF InCohort
      <3> QED BY <1>a, <2>1, <2>2, <2>5, <3>2, <3>3, <3>4
    <2> QED BY <1>1, <1>b, <2>4, <2>5 DEF Placed
  <1>2. pc # "append" => \A i \in 1..Len(log') : i \in 1..Len(log) /\ log'[i] = log[i]
    BY <1>a, <1>b DEF Placed
  <1>3. ASSUME NEW r \in Request, InFile(r)'
        PROVE  InFile(r) \/ (pc = "append" /\ InCohort(r))
    <2>1. PICK i \in 1..Len(log') : log'[i].request = r BY <1>3 DEF InFile
    <2> QED BY <1>1, <1>2, <2>1 DEF InFile
  <1> QED BY <1>1, <1>2, <1>3

LEMMA ExpectedSteps ==
    ASSUME [Next]_vars
    PROVE  UNCHANGED expected \/ \E r \in Request : Submit(r)
  BY DEF Next, vars, disk, process, tickets, thread, clients, bounds, Sequencer, Worker,
         Client, Shutdown, Boot, Cancel, SequenceCommit, PutTicket, Receive,
         WorkerInterrupted, LoopHead, TakeFirst, Collect, CloseCohort, StartCohort,
         RunMutation, EndRun, WriteFrames, WriteFails, ForceFrames, ForceFails, Reconcile,
         PublishSnapshot, DeliverNext, DeliverErrors, NextRound, Drain, BeginShutdown,
         InterruptWorkers, StopSequencer, FinishShutdown, Crash, Abandon

LEMMA FileInvStep ==
    ASSUME Types, Fences, Roots, Planned, Places, Waits, File, Results, [Next]_vars
    PROVE  File'
  <1>a. /\ phase \in [Request -> {"idle", "serving", "enqueue", "waiting", "done"}]
        /\ expected \in [Request -> Nat \cup {NoVersion}]
        /\ pc \in {"off", "loop", "take", "collect", "start", "run", "append", "force",
                   "reconcile", "publish", "deliver", "fail", "drain"}
    BY DEF Types, ClientTypes, PlaceTypes
  <1>b. \A i \in 1..Len(log) : log[i].request \in Request
    <2>1. \A f \in Frame : f.request \in Request BY DEF Frame
    <2>2. log \in Seq(Frame) BY DEF Types, DiskTypes
    <2> QED BY <2>1, <2>2
  <1>1. \A i, j \in 1..Len(log') : log'[i].request = log'[j].request => i = j
    <2>1. CASE pc = "append"
      <3>1. \A i, j \in 1..Len(scratch) : scratch[i] = scratch[j] => i = j
        BY <2>1 DEF Planned, Writing
      <3> QED BY <2>1, <3>1, NewInFile
    <2>2. CASE pc # "append" BY <2>2, NewInFile DEF File
    <2> QED BY <2>1, <2>2
  <1>2. OptimisticSound'
    <2>1. \A i \in 1..Len(log') : expected[log'[i].request] \in {NoVersion, i - 1}
      <3>1. CASE pc = "append"
        <4>1. \A i \in 1..Len(scratch) : expected[scratch[i]] \in {NoVersion, i - 1}
          BY <3>1 DEF Planned, Writing
        <4> QED BY <3>1, <4>1, NewInFile
      <3>2. CASE pc # "append" BY <3>2, NewInFile DEF File, OptimisticSound
      <3> QED BY <3>1, <3>2
    <2>2. CASE UNCHANGED expected BY <2>1, <2>2 DEF OptimisticSound
    <2>3. ASSUME NEW r \in Request, Submit(r) PROVE OptimisticSound'
      <3>1. log' = log /\ ~InFile(r) BY <2>3 DEF Submit, disk, File
      <3>2. \A q \in Request : q # r => expected'[q] = expected[q]
        BY <1>a, <2>3 DEF Submit
      <3> QED BY <1>b, <2>1, <3>1, <3>2 DEF OptimisticSound, InFile
    <2> QED BY <2>2, <2>3, ExpectedSteps
  <1>3. \A r \in Request : InQueue(r)' \/ pending' = r => ~InFile(r)'
    <2> SUFFICES ASSUME NEW r \in Request, InQueue(r)' \/ pending' = r PROVE ~InFile(r)'
      OBVIOUS
    <2>1. InQueue(r) \/ pending = r \/ PutTicket(r) BY PlacesStep
    <2>2. ~InFile(r) BY <2>1 DEF File, PutTicket
    <2>3. ~InCohort(r) BY <2>1 DEF Places, Waits, Ticketed, PutTicket
    <2> QED BY <2>2, <2>3, NewInFile
  <1>4. ASSUME pc' \in {"collect", "start", "run", "append"}, NEW r \in Request, InCohort(r)'
        PROVE  ~InFile(r)'
    <2>1. log' = log
      BY <1>4, LogSteps DEF Boot, WriteFrames, WriteFails, ForceFrames, Crash, Gone
    <2>2. InCohort(r) => ~InFile(r)
      <3>1. pc \in {"take", "collect", "start", "run", "append"}
        BY <1>4 DEF Next, vars, disk, process, tickets, thread, clients, bounds,
         Sequencer, Worker, Client, Shutdown, Boot, Submit, Cancel, SequenceCommit,
         PutTicket, Receive, WorkerInterrupted, LoopHead, TakeFirst, Collect, CloseCohort,
         StartCohort, RunMutation, EndRun, WriteFrames, WriteFails, ForceFrames, ForceFails,
         Reconcile, PublishSnapshot, DeliverNext, DeliverErrors, NextRound, Drain,
         BeginShutdown, InterruptWorkers, StopSequencer, FinishShutdown, Crash, Gone
      <3>2. Len(<<>>) = 0 OBVIOUS
      <3> QED BY <3>1, <3>2 DEF Fences, InCohort, File
    <2>3. ~InFile(r) BY <1>4, <2>2, PlacesStep DEF File
    <2> QED BY <2>1, <2>3 DEF InFile
  <1>5. ASSUME NEW r \in Request, phase'[r] \in {"idle", "serving", "enqueue"}
        PROVE  ~InFile(r)'
    <2>1. phase[r] \in {"idle", "serving", "enqueue"}
      BY <1>a, <1>5 DEF Next, vars, disk, process, tickets, thread, clients, bounds,
         Sequencer, Worker, Client, Shutdown, Boot, Submit, Cancel, SequenceCommit,
         PutTicket, Receive, WorkerInterrupted, LoopHead, TakeFirst, Collect, CloseCohort,
         StartCohort, RunMutation, EndRun, WriteFrames, WriteFails, ForceFrames, ForceFails,
         Reconcile, PublishSnapshot, DeliverNext, DeliverErrors, NextRound, Drain,
         BeginShutdown, InterruptWorkers, StopSequencer, FinishShutdown, Crash, Finish,
         Abandon, Active
    <2>2. ~InFile(r) BY <2>1 DEF File
    <2>3. ~InCohort(r) BY <2>1 DEF Waits, Ticketed
    <2> QED BY <2>2, <2>3, NewInFile
  <1> QED BY <1>1, <1>2, <1>3, <1>4, <1>5 DEF File

\* What the thread does to the cohort it works on.
LEMMA WorkSteps ==
    ASSUME [Next]_vars
    PROVE  \/ pc' \notin Answering \cup {"fail"}
           \/ UNCHANGED <<pc, log, forced, store, scratch, frames, results, cohort>>
           \/ StartCohort \/ RunMutation \/ EndRun \/ WriteFrames \/ ForceFrames
           \/ Reconcile \/ PublishSnapshot \/ DeliverNext \/ DeliverErrors
  BY DEF Next, vars, disk, process, tickets, thread, clients, bounds, Sequencer, Worker,
         Client, Shutdown, Boot, Submit, Cancel, SequenceCommit, PutTicket, Receive,
         WorkerInterrupted, LoopHead, TakeFirst, Collect, CloseCohort, WriteFails,
         ForceFails, NextRound, Drain, BeginShutdown, InterruptWorkers, StopSequencer,
         FinishShutdown, Crash, Gone, Answering

\* What is on the root of a cohort that is not written yet: the file, and
\* requests of the cohort.
LEMMA ScratchOf ==
    ASSUME Types, Fences, Roots, Planned, Results, pc \in Writing
    PROVE  /\ Len(store) = Len(log) /\ \A i \in 1..Len(log) : store[i] = log[i].request
           /\ \A i \in 1..Len(scratch) :
                 \/ i \in 1..Len(log) /\ scratch[i] = log[i].request /\ InFile(scratch[i])
                 \/ \E j \in 1..Len(results) : j \in 1..Len(cohort) /\ scratch[i] = cohort[j]
  <1>a. /\ Len(log) \in Nat /\ Len(frames) \in Nat /\ Len(scratch) \in Nat
        /\ Len(store) \in Nat /\ Len(results) \in Nat /\ Len(cohort) \in Nat
    BY DEF Types, DiskTypes, ThreadTypes, RootTypes
  <1>b. /\ Len(scratch) = Len(store) + Len(frames)
        /\ \A k \in 1..Len(store) : scratch[k] = store[k]
        /\ \A k \in 1..Len(frames) : scratch[Len(store) + k] = frames[k].request
        /\ \A k \in 1..Len(frames) : \E j \in 1..Len(results) : frames[k].request = cohort[j]
    BY DEF Planned
  <1>1. Len(store) = Len(log) /\ \A i \in 1..Len(log) : store[i] = log[i].request
    BY DEF Roots, Fences, Answering, Writing
  <1>2. Len(results) <= Len(cohort) BY <1>a DEF Results, Writing, Answering
  <1>3. ASSUME NEW i \in 1..Len(scratch)
        PROVE  \/ i \in 1..Len(log) /\ scratch[i] = log[i].request /\ InFile(scratch[i])
               \/ \E j \in 1..Len(results) : j \in 1..Len(cohort) /\ scratch[i] = cohort[j]
    <2>1. CASE i \in 1..Len(log) BY <1>b, <1>1, <2>1 DEF InFile
    <2>2. CASE i \notin 1..Len(log)
      <3>1. i - Len(store) \in 1..Len(frames) /\ Len(store) + (i - Len(store)) = i
        BY <1>a, <1>b, <1>1, <2>2
      <3>2. scratch[i] = frames[i - Len(store)].request BY <1>b, <3>1
      <3>3. PICK j \in 1..Len(results) : frames[i - Len(store)].request = cohort[j]
        BY <1>b, <3>1
      <3>4. j \in 1..Len(cohort) BY <1>a, <1>2
      <3> QED BY <3>2, <3>3, <3>4
    <2> QED BY <2>1, <2>2
  <1> QED BY <1>1, <1>3

\* A mutation of the cohort is not on its root before it has run.
LEMMA NotPlanned ==
    ASSUME Types, Fences, Roots, Planned, Places, File, Results, pc = "run",
           NEW j \in (Len(results) + 1)..Len(cohort)
    PROVE  cohort[j] \in Request /\ \A i \in 1..Len(scratch) : scratch[i] # cohort[j]
  <1>a. Len(results) \in Nat /\ Len(cohort) \in Nat /\ cohort \in Seq(Request)
    BY DEF Types, ThreadTypes
  <1>1. j \in 1..Len(cohort) /\ cohort[j] \in Request BY <1>a
  <1>2. ~InFile(cohort[j]) BY <1>1 DEF File, InCohort
  <1>3. \A k \in 1..Len(results) : k \in 1..Len(cohort) => cohort[k] # cohort[j]
    BY <1>a, <1>1 DEF Places
  <1>4. \A i \in 1..Len(scratch) :
           \/ InFile(scratch[i])
           \/ \E k \in 1..Len(results) : k \in 1..Len(cohort) /\ scratch[i] = cohort[k]
    BY ScratchOf DEF Writing
  <1> QED BY <1>1, <1>2, <1>3, <1>4

LEMMA PlannedStep ==
    ASSUME Types, Fences, Roots, Planned, Places, Waits, File, Results, [Next]_vars
    PROVE  Planned'
  <1>a. /\ Len(log) \in Nat /\ Len(frames) \in Nat /\ Len(scratch) \in Nat
        /\ Len(store) \in Nat /\ Len(results) \in Nat /\ Len(cohort) \in Nat
        /\ scratch \in Seq(Request) /\ store \in Seq(Request) /\ frames \in Seq(Frame)
        /\ log \in Seq(Frame) /\ results \in Seq(Result)
        /\ expected \in [Request -> Nat \cup {NoVersion}]
    BY DEF Types, DiskTypes, ThreadTypes, RootTypes, ClientTypes
  <1>b. \A i \in 1..Len(scratch) : scratch[i] \in Request BY <1>a
  <1>1. CASE pc' \notin Answering \cup {"fail"} BY <1>1 DEF Planned, Answering, Writing
  <1>2. CASE UNCHANGED <<pc, log, forced, store, scratch, frames, results, cohort>>
    <2>1. CASE UNCHANGED expected BY <1>2, <2>1 DEF Planned
    <2>2. ASSUME NEW r \in Request, Submit(r) PROVE Planned'
      <3>1. phase[r] = "idle" /\ \A q \in Request : q # r => expected'[q] = expected[q]
        BY <1>a, <2>2 DEF Submit
      <3>2. ~InFile(r) /\ ~InCohort(r) BY <3>1 DEF File, Waits, Ticketed
      <3>3. pc \in Writing => \A i \in 1..Len(scratch) : scratch[i] # r
        BY <3>2, ScratchOf DEF InCohort
      <3>4. pc \in Writing =>
               \A i \in 1..Len(scratch) : expected'[scratch[i]] \in {NoVersion, i - 1}
        BY <1>b, <3>1, <3>3 DEF Planned
      <3> QED BY <1>2, <3>4 DEF Planned
    <2> QED BY <2>1, <2>2, ExpectedSteps
  <1>3. CASE StartCohort
    <2>1. CASE pc' = "run"
      <3>1. /\ status = "ready" /\ scratch' = store /\ frames' = <<>> /\ pc = "start"
            /\ UNCHANGED <<store, log, expected>>
        BY <1>3, <2>1 DEF StartCohort, process, disk, clients
      <3>2. Up BY <3>1 DEF Fences
      <3>3. Len(store) = Len(log) /\ \A i \in 1..Len(log) : store[i] = log[i].request
        BY <3>1, <3>2 DEF Roots
      <3>4. \A i, j \in 1..Len(log) : log[i].request = log[j].request => i = j BY DEF File
      <3>5. \A i \in 1..Len(log) : expected[log[i].request] \in {NoVersion, i - 1}
        BY DEF File, OptimisticSound
      <3>6. Len(frames') = 0 BY <3>1
      <3>7. Len(scratch') = Len(store') + Len(frames') BY <1>a, <3>1, <3>6
      <3>8. \A i, j \in 1..Len(scratch') : scratch'[i] = scratch'[j] => i = j
        BY <3>1, <3>3, <3>4
      <3>9. \A i \in 1..Len(scratch') : expected'[scratch'[i]] \in {NoVersion, i - 1}
        BY <3>1, <3>3, <3>5
      <3> QED BY <2>1, <3>1, <3>6, <3>7, <3>8, <3>9 DEF Planned
    <2>2. CASE pc' = "fail" BY <2>2 DEF Planned, Writing
    <2> QED BY <1>3, <2>1, <2>2 DEF StartCohort
  <1>4. CASE RunMutation
    <2> DEFINE r == cohort[Len(results) + 1]
               f == [sequence |-> Len(scratch) + 1, request |-> r, deflated |-> deflate]
    <2>1. /\ pc = "run" /\ pc' = "run" /\ Len(results) < Len(cohort)
          /\ UNCHANGED <<store, log, expected, cohort>>
          /\ \E m : results' = Append(results, m)
          /\ \/ UNCHANGED <<scratch, frames>>
             \/ /\ scratch' = Append(scratch, r) /\ frames' = Append(frames, f)
                /\ Current(r)
      BY <1>4 DEF RunMutation, process, disk, clients
    <2>2. /\ Len(results') = Len(results) + 1 BY <1>a, <2>1
    <2>3. CASE UNCHANGED <<scratch, frames>>
      <3>1. \A k \in 1..Len(frames) : \E j \in 1..Len(results') : frames[k].request = cohort[j]
        BY <1>a, <2>1, <2>2 DEF Planned, Writing
      <3> QED BY <2>1, <2>3, <3>1 DEF Planned, Writing
    <2>4. CASE scratch' = Append(scratch, r) /\ frames' = Append(frames, f) /\ Current(r)
      <3>1. Len(results) + 1 \in (Len(results) + 1)..Len(cohort) BY <1>a, <2>1
      <3>2. r \in Request /\ \A i \in 1..Len(scratch) : scratch[i] # r
        BY <2>1, <3>1, NotPlanned
      <3>3. /\ Len(scratch') = Len(scratch) + 1 /\ scratch'[Len(scratch) + 1] = r
            /\ \A i \in 1..Len(scratch) : scratch'[i] = scratch[i]
        BY <1>a, <2>4
      <3>4. /\ Len(frames') = Len(frames) + 1 /\ frames'[Len(frames) + 1] = f
            /\ \A i \in 1..Len(frames) : frames'[i] = frames[i]
        BY <1>a, <2>4
      <3>5. f.request = r OBVIOUS
      <3>6. expected[r] \in {NoVersion, Len(scratch)} BY <2>4 DEF Current
      <3> HIDE DEF f
      <3>7. /\ Len(scratch) = Len(store) + Len(frames)
            /\ \A i \in 1..Len(store) : scratch[i] = store[i]
            /\ \A i \in 1..Len(frames) : scratch[Len(store) + i] = frames[i].request
            /\ \A i, j \in 1..Len(scratch) : scratch[i] = scratch[j] => i = j
            /\ \A i \in 1..Len(scratch) : expected[scratch[i]] \in {NoVersion, i - 1}
            /\ \A i \in 1..Len(frames) : \E j \in 1..Len(results) : frames[i].request = cohort[j]
        BY <2>1 DEF Planned, Writing
      <3>8. Len(scratch') = Len(store) + Len(frames') BY <1>a, <3>3, <3>4, <3>7
      <3>9. \A i \in 1..Len(store) : scratch'[i] = store[i] BY <1>a, <3>3, <3>7
      <3>10. \A i \in 1..Len(frames') : scratch'[Len(store) + i] = frames'[i].request
        <4> SUFFICES ASSUME NEW i \in 1..Len(frames')
                     PROVE  scratch'[Len(store) + i] = frames'[i].request
          OBVIOUS
        <4>1. CASE i \in 1..Len(frames)
          <5>1. Len(store) + i \in 1..Len(scratch) BY <1>a, <3>7, <4>1
          <5> QED BY <3>3, <3>4, <3>7, <4>1, <5>1
        <4>2. CASE i = Len(frames) + 1
          <5>1. Len(store) + i = Len(scratch) + 1 BY <1>a, <3>7, <4>2
          <5> QED BY <3>3, <3>4, <3>5, <4>2, <5>1
        <4> QED BY <1>a, <3>4, <4>1, <4>2
      <3>a. /\ \A i \in 1..Len(scratch') : i \in 1..Len(scratch) \/ i = Len(scratch) + 1
            /\ \A i \in 1..Len(frames') : i \in 1..Len(frames) \/ i = Len(frames) + 1
            /\ \A j \in 1..Len(results) : j \in 1..Len(results')
            /\ Len(results) + 1 \in 1..Len(results') /\ (Len(scratch) + 1) - 1 = Len(scratch)
        BY <1>a, <2>2, <3>3, <3>4
      <3>11. \A i, j \in 1..Len(scratch') : scratch'[i] = scratch'[j] => i = j
        <4> HIDE DEF r
        <4> QED BY <3>a, <3>2, <3>3, <3>7
      <3>12. \A i \in 1..Len(scratch') : expected[scratch'[i]] \in {NoVersion, i - 1}
        <4> HIDE DEF r
        <4> SUFFICES ASSUME NEW i \in 1..Len(scratch')
                     PROVE  expected[scratch'[i]] \in {NoVersion, i - 1}
          OBVIOUS
        <4>1. CASE i \in 1..Len(scratch)
          <5>1. scratch'[i] = scratch[i] BY <3>3, <4>1
          <5> QED BY <3>7, <4>1, <5>1
        <4>2. CASE i = Len(scratch) + 1
          <5>1. scratch'[i] = r /\ i - 1 = Len(scratch) BY <3>a, <3>3, <4>2
          <5> QED BY <3>6, <5>1
        <4> QED BY <3>a, <4>1, <4>2
      <3>13. \A i \in 1..Len(frames') :
                \E j \in 1..Len(results') : frames'[i].request = cohort[j]
        <4> SUFFICES ASSUME NEW i \in 1..Len(frames')
                     PROVE  \E j \in 1..Len(results') : frames'[i].request = cohort[j]
          OBVIOUS
        <4>1. CASE i \in 1..Len(frames)
          <5>1. frames'[i] = frames[i] BY <3>4, <4>1
          <5>2. PICK j \in 1..Len(results) : frames[i].request = cohort[j] BY <3>7, <4>1
          <5>3. j \in 1..Len(results') BY <3>a
          <5> QED BY <5>1, <5>2, <5>3
        <4>2. CASE i = Len(frames) + 1 BY <3>a, <3>4, <3>5, <4>2
        <4> QED BY <3>a, <4>1, <4>2
      <3> QED BY <2>1, <3>8, <3>9, <3>10, <3>11, <3>12, <3>13 DEF Planned, Writing
    <2> QED BY <2>1, <2>3, <2>4
  <1>5. CASE EndRun
    <2>1. /\ pc = "run" /\ UNCHANGED <<log, store, scratch, frames, results, cohort, expected>>
          /\ IF frames = <<>> THEN pc' = "deliver" ELSE pc' = "append"
      BY <1>5 DEF EndRun, disk, process, clients
    <2>2. CASE frames = <<>>
      <3>1. Len(scratch) = Len(store) /\ \A i \in 1..Len(store) : scratch[i] = store[i]
        BY <1>a, <2>1, <2>2 DEF Planned, Writing
      <3>2. scratch = store BY <1>a, <3>1, SeqEqual
      <3> QED BY <2>1, <2>2, <3>2 DEF Planned, Writing
    <2>3. CASE frames # <<>> BY <2>1, <2>3 DEF Planned, Writing
    <2> QED BY <2>2, <2>3
  <1>6. CASE WriteFrames
    <2>1. /\ pc = "append" /\ pc' = "force" /\ log' = log \o frames
          /\ UNCHANGED <<store, scratch, frames>>
      BY <1>6 DEF WriteFrames, process
    <2>2. Len(log') = Len(log) + Len(frames) BY <1>a, <2>1, Joined
    <2>3. Len(log) = Len(store) BY <2>1, ScratchOf DEF Writing
    <2>4. Len(log') = Len(scratch) BY <2>1, <2>2, <2>3 DEF Planned, Writing
    <2>5. \A i \in 1..Len(log') : scratch[i] = log'[i].request BY <2>1, NewInFile
    <2> QED BY <2>1, <2>4, <2>5 DEF Planned, Writing
  <1>7. CASE ForceFrames
    <2>1. /\ pc = "force" /\ pc' = "publish" /\ forced' = Len(log) /\ store' = scratch
          /\ UNCHANGED <<log, scratch>>
      BY <1>7 DEF ForceFrames
    <2> QED BY <2>1 DEF Planned, Writing
  <1>8. CASE PublishSnapshot
    <2>1. pc = "publish" /\ pc' = "deliver" /\ UNCHANGED <<store, scratch>>
      BY <1>8 DEF PublishSnapshot
    <2> QED BY <2>1 DEF Planned, Writing
  <1>9. CASE Reconcile \/ DeliverErrors
    <2>1. pc' = "fail" BY <1>9 DEF Reconcile, DeliverErrors
    <2> QED BY <2>1 DEF Planned, Writing
  <1>10. CASE DeliverNext
    <2>1. pc = "deliver" /\ pc' = "deliver" /\ UNCHANGED <<store, scratch>>
      BY <1>10 DEF DeliverNext, disk, process
    <2> QED BY <2>1 DEF Planned, Writing
  <1> QED BY <1>1, <1>2, <1>3, <1>4, <1>5, <1>6, <1>7, <1>8, <1>9, <1>10, WorkSteps

-----------------------------------------------------------------------------
(* Results                                                                 *)

\* A mutation that ran: what was true of the earlier results stays true, and
\* its own result says whether it is on the root.
LEMMA RunResults ==
    ASSUME Types, Fences, Roots, Planned, Places, File, Results, RunMutation
    PROVE  Results'
  <1>0. PICK n \in Nat : n = Len(results) + 1 BY DEF Types, ThreadTypes
  <1> DEFINE r == cohort[n]
  <1>a. /\ Len(scratch) \in Nat /\ Len(store) \in Nat /\ Len(frames) \in Nat
        /\ Len(results) \in Nat /\ Len(cohort) \in Nat
        /\ scratch \in Seq(Request) /\ results \in Seq(Result)
    BY DEF Types, ThreadTypes, RootTypes
  <1>b. /\ pc = "run" /\ pc' = "run" /\ Len(results) < Len(cohort)
        /\ UNCHANGED <<store, cohort>>
    BY DEF RunMutation, process
  <1>c. r \in Request /\ \A i \in 1..Len(scratch) : scratch[i] # r
    <2>1. n \in (Len(results) + 1)..Len(cohort) BY <1>0, <1>a, <1>b
    <2> QED BY <1>b, <2>1, NotPlanned
  <1>d. \E m : /\ results' = Append(results, m)
               /\ \/ scratch' = scratch /\ m.code \in Refusal
                  \/ /\ scratch' = Append(scratch, r)
                     /\ m.code = "committed" /\ m.version = Len(scratch) + 1
    BY <1>0 DEF RunMutation, Refusal
  <1>e. Len(store) <= Len(scratch) BY <1>a, <1>b DEF Planned, Writing
  <1>f. "committed" \notin Refusal BY DEF Refusal
  <1> HIDE DEF r
  <1>1. PICK m : /\ results' = Append(results, m)
                 /\ \/ scratch' = scratch /\ m.code \in Refusal
                    \/ /\ scratch' = Append(scratch, r)
                       /\ m.code = "committed" /\ m.version = Len(scratch) + 1
    BY <1>d
  <1>2. /\ Len(results') = n /\ results'[n] = m
        /\ \A i \in 1..Len(results) : results'[i] = results[i]
    BY <1>0, <1>a, <1>1
  <1>3. \/ scratch' = scratch
        \/ /\ Len(scratch') = Len(scratch) + 1 /\ scratch'[Len(scratch) + 1] = r
           /\ \A i \in 1..Len(scratch) : scratch'[i] = scratch[i]
    <2>1. ASSUME scratch' = Append(scratch, r)
          PROVE  /\ Len(scratch') = Len(scratch) + 1 /\ scratch'[Len(scratch) + 1] = r
                 /\ \A i \in 1..Len(scratch) : scratch'[i] = scratch[i]
      BY <1>a, <1>c, <2>1
    <2> QED BY <1>1, <2>1
  <1>4. ASSUME NEW i \in 1..Len(results) PROVE True(i)'
    <2>1. True(i) BY <1>b DEF Results, Answering
    <2>2. i \in 1..Len(cohort) /\ n \in 1..Len(cohort) /\ i # n BY <1>0, <1>a, <1>b
    <2>3. cohort[i] # r BY <2>2 DEF Places, r
    <2>4. results'[i] = results[i] BY <1>2
    <2>5. CASE scratch' = scratch BY <1>b, <2>1, <2>4, <2>5 DEF True
    <2>6. CASE /\ Len(scratch') = Len(scratch) + 1 /\ scratch'[Len(scratch) + 1] = r
               /\ \A k \in 1..Len(scratch) : scratch'[k] = scratch[k]
      <3>1. \A k \in 1..Len(scratch') : k \in 1..Len(scratch) \/ k = Len(scratch) + 1
        BY <1>a, <2>6
      <3>2. \A k \in 1..Len(scratch) : k \in 1..Len(scratch') BY <1>a, <2>6
      <3>3. results[i].code \in Refusal => \A k \in 1..Len(scratch') : scratch'[k] # cohort[i]
        BY <2>1, <2>3, <2>6, <3>1 DEF True
      <3> QED BY <1>b, <2>1, <2>4, <2>6, <3>2, <3>3 DEF True, Writing
    <2> QED BY <1>3, <2>5, <2>6
  <1>5. True(n)'
    <2>1. results'[n] = m /\ cohort'[n] = r BY <1>b, <1>2 DEF r
    <2>2. CASE scratch' = scratch /\ m.code \in Refusal
      BY <1>c, <1>f, <2>1, <2>2 DEF True
    <2>3. CASE /\ scratch' = Append(scratch, r) /\ m.code = "committed"
               /\ m.version = Len(scratch) + 1
      <3>1. Len(scratch') = Len(scratch) + 1 /\ scratch'[Len(scratch) + 1] = r
        BY <1>a, <1>c, <2>3
      <3>2. m.version \in 1..Len(scratch') /\ m.version > Len(store') BY <1>a, <1>b, <1>e, <2>3, <3>1
      <3> QED BY <1>b, <1>f, <2>1, <2>3, <3>1, <3>2 DEF True
    <2> QED BY <1>1, <2>2, <2>3
  <1>6. \A i \in 1..Len(results') : i \in 1..Len(results) \/ i = n BY <1>0, <1>a, <1>2
  <1>7. Len(results') <= Len(cohort') BY <1>0, <1>a, <1>b, <1>2
  <1>8. ASSUME NEW i \in 1..Len(results') PROVE True(i)'
    <2>1. CASE i \in 1..Len(results) BY <1>4, <2>1
    <2>2. CASE i = n
      <3> HIDE DEF True
      <3> QED BY <1>5, <2>2
    <2> QED BY <1>6, <2>1, <2>2
  <1> QED BY <1>b, <1>7, <1>8 DEF Results, Answering

LEMMA ResultsStep ==
    ASSUME Types, Fences, Roots, Planned, Places, Waits, File, Results, [Next]_vars
    PROVE  Results'
  <1>a. /\ Len(log) \in Nat /\ Len(frames) \in Nat /\ Len(scratch) \in Nat
        /\ Len(store) \in Nat /\ Len(results) \in Nat /\ Len(cohort) \in Nat
        /\ scratch \in Seq(Request) /\ store \in Seq(Request) /\ frames \in Seq(Frame)
        /\ cohort \in Seq(Request) /\ results \in Seq(Result)
    BY DEF Types, DiskTypes, ThreadTypes, RootTypes
  <1>b. "committed" \notin Refusal BY DEF Refusal
  <1>1. CASE pc' \notin Answering \cup {"fail"} BY <1>1 DEF Results, Answering
  <1>2. CASE UNCHANGED <<pc, log, forced, store, scratch, frames, results, cohort>>
    BY <1>2 DEF Results, True, InFile, InCohort
  <1>3. CASE StartCohort
    <2>1. CASE pc' = "run"
      <3>1. results' = <<>> /\ cohort' = cohort BY <1>3, <2>1 DEF StartCohort
      <3>2. Len(results') = 0 BY <3>1
      <3> QED BY <1>a, <2>1, <3>1, <3>2 DEF Results, Answering
    <2>2. CASE pc' = "fail"
      <3>1. /\ pc = "start" /\ UNCHANGED <<log, cohort>>
            /\ results' = <<Error("recovery-required")>>
        BY <1>3, <2>2 DEF StartCohort, disk
      <3>2. Len(results') = 1 /\ results'[1].code = "recovery-required"
        BY <3>1 DEF Error
      <3>3. \A r \in Request : InCohort(r)' => ~InFile(r)'
        BY <3>1 DEF File, InCohort, InFile
      <3> QED BY <2>2, <3>2, <3>3 DEF Results, Answering
    <2> QED BY <1>3, <2>1, <2>2 DEF StartCohort
  <1>4. CASE RunMutation BY <1>4, RunResults
  <1>5. CASE EndRun
    <2>1. /\ pc = "run" /\ UNCHANGED <<log, forced, store, scratch, frames, results, cohort>>
          /\ IF frames = <<>> THEN pc' = "deliver" ELSE pc' = "append"
          /\ Len(results) = Len(cohort)
      BY <1>5 DEF EndRun, disk, process
    <2>2. \A i \in 1..Len(results) : True(i) BY <2>1 DEF Results, Answering
    <2>3. CASE frames = <<>>
      <3>1. Len(scratch) = Len(store) BY <1>a, <2>1, <2>3 DEF Planned, Writing
      <3>2. \A i \in 1..Len(results) : results[i].code # "committed"
        BY <1>a, <2>1, <2>2, <3>1 DEF True, Writing
      <3>3. \A i \in 1..Len(results') : True(i)' BY <2>1, <2>2, <3>2 DEF True
      <3> QED BY <2>1, <2>3, <3>3 DEF Results, Answering
    <2>4. CASE frames # <<>>
      <3>1. \A i \in 1..Len(results') : True(i)' BY <2>1, <2>2, <2>4 DEF True, Writing
      <3> QED BY <2>1, <2>4, <3>1 DEF Results, Answering
    <2> QED BY <2>3, <2>4
  <1>6. CASE WriteFrames
    <2>1. /\ pc = "append" /\ pc' = "force"
          /\ UNCHANGED <<forced, store, scratch, results, cohort>>
      BY <1>6 DEF WriteFrames, process
    <2>2. \A i \in 1..Len(results') : True(i)' BY <2>1 DEF Results, Answering, True, Writing
    <2> QED BY <2>1, <2>2 DEF Results, Answering
  <1>7. CASE ForceFrames
    <2>1. /\ pc = "force" /\ pc' = "publish" /\ UNCHANGED <<scratch, results, cohort>>
      BY <1>7 DEF ForceFrames
    <2>2. \A i \in 1..Len(results') : True(i)' BY <2>1 DEF Results, Answering, True, Writing
    <2> QED BY <2>1, <2>2 DEF Results, Answering
  <1>8. CASE PublishSnapshot
    <2>1. /\ pc = "publish" /\ pc' = "deliver"
          /\ UNCHANGED <<forced, scratch, results, cohort>>
      BY <1>8 DEF PublishSnapshot, disk
    <2>2. Len(scratch) = forced BY <2>1 DEF Planned, Roots, Fences, Answering
    <2>3. \A i \in 1..Len(results') : True(i)'
      BY <1>a, <2>1, <2>2 DEF Results, Answering, True, Writing
    <2> QED BY <2>1, <2>3 DEF Results, Answering
  <1>9. CASE Reconcile
    <2>1. /\ pc' = "fail"
          /\ results' \in {<<Error("durability-ambiguous")>>, <<Error("database-corrupt")>>}
      BY <1>9 DEF Reconcile
    <2>2. Len(results') = 1 /\ results'[1].code \in Uncertain
      BY <2>1 DEF Error, Uncertain
    <2> QED BY <2>1, <2>2 DEF Results, Answering
  <1>10. CASE DeliverNext
    <2>1. /\ pc = "deliver" /\ pc' = "deliver" /\ cohort # <<>>
          /\ cohort' = Tail(cohort) /\ results' = Tail(results)
          /\ UNCHANGED <<forced, store, scratch>>
      BY <1>10 DEF DeliverNext, disk, process
    <2>2. Len(results) = Len(cohort) BY <2>1 DEF Results, Answering
    <2>3. /\ Len(cohort) \in Nat \ {0} /\ Len(cohort') = Len(cohort) - 1
          /\ \A i \in 1..(Len(cohort) - 1) : cohort'[i] = cohort[i + 1]
      BY <1>a, <2>1, TailOf
    <2>4. results # <<>> BY <2>2, <2>3
    <2>5. /\ Len(results') = Len(results) - 1
          /\ \A i \in 1..(Len(results) - 1) : results'[i] = results[i + 1]
      BY <1>a, <2>1, <2>4, TailOf
    <2>6. ASSUME NEW i \in 1..Len(results') PROVE True(i)'
      <3>1. True(i + 1) BY <1>a, <2>1, <2>5 DEF Results, Answering
      <3>2. results'[i] = results[i + 1] /\ cohort'[i] = cohort[i + 1]
        BY <2>2, <2>3, <2>5
      <3> QED BY <2>1, <3>1, <3>2 DEF True
    <2>7. Len(results') = Len(cohort') BY <2>2, <2>3, <2>5
    <2> QED BY <2>1, <2>6, <2>7 DEF Results, Answering
  <1>11. CASE DeliverErrors
    <2>1. /\ pc = "fail" /\ pc' = "fail" /\ cohort # <<>> /\ cohort' = Tail(cohort)
          /\ UNCHANGED <<log, results>>
      BY <1>11 DEF DeliverErrors, disk
    <2>2. \A r \in Request : InCohort(r)' => InCohort(r) BY <2>1, CohortTail
    <2>3. \A r \in Request : InFile(r)' <=> InFile(r) BY <2>1 DEF InFile
    <2> QED BY <2>1, <2>2, <2>3 DEF Results, Answering
  <1> QED BY <1>1, <1>2, <1>3, <1>4, <1>5, <1>6, <1>7, <1>8, <1>9, <1>10, <1>11, WorkSteps

-----------------------------------------------------------------------------
(* Answers                                                                 *)

\* What an answer that is delivered says of the file, which it leaves alone.
Grounded(r, m) ==
    /\ m.code \in Refusal => ~InFile(r)
    /\ m.code = "committed" =>
          /\ m.version \in 1..forced /\ log[m.version].request = r
          /\ m.version <= Len(published)

LEMMA Answered ==
    ASSUME Types, Fences, Roots, Planned, Places, Waits, File, Results, [Next]_vars
    PROVE  \/ UNCHANGED promise
           \/ \E r \in Request : \E m :
                 /\ Deliver(r, m) /\ Ticketed(r) /\ Grounded(r, m)
                 /\ UNCHANGED <<log, forced, published, server, reply>>
  <1>a. /\ cohort \in Seq(Request) /\ results \in Seq(Result) /\ Len(log) \in Nat
        /\ forced \in Nat /\ forced <= Len(log)
    BY DEF Types, DiskTypes, ThreadTypes
  <1>b. ASSUME LoopHead \/ Drain \/ DeliverNext \/ DeliverErrors
        PROVE  UNCHANGED <<log, forced, published, server, reply>>
    BY <1>b DEF LoopHead, Drain, DeliverNext, DeliverErrors, disk, process
  <1>1. ASSUME NEW r \in Request, InQueue(r) \/ pending = r
        PROVE  Grounded(r, Error("not-booted"))
    BY <1>1 DEF File, Grounded, Error
  <1>2. ASSUME NEW r \in Request, DeliverNext \/ DeliverErrors,
               r = Head(cohort), cohort # <<>>, results # <<>>
        PROVE  Grounded(r, Head(results))
    <2>1. /\ r = cohort[1] /\ Len(cohort) \in Nat \ {0} /\ InCohort(r)
          /\ Head(results) = results[1] /\ Len(results) \in Nat \ {0}
      BY <1>a, <1>2, TailOf DEF InCohort
    <2>2. CASE DeliverNext
      <3>1. pc = "deliver" BY <2>2 DEF DeliverNext
      <3>2. True(1) BY <2>1, <3>1 DEF Results, Answering
      <3>3. scratch = store BY <3>1 DEF Planned
      <3>4. Up /\ status = "ready" BY <3>1 DEF Fences, Answering
      <3>5. Len(store) = Len(log) /\ \A i \in 1..Len(log) : store[i] = log[i].request
        BY <3>1, <3>4 DEF Roots
      <3>6. Len(published) = Len(log) BY <3>1, <3>4, <3>5 DEF Roots
      <3>7. results[1].code \in Refusal => ~InFile(r)
        BY <2>1, <3>2, <3>3, <3>5 DEF True, InFile
      <3>8. results[1].code = "committed" =>
               /\ results[1].version \in 1..Len(log)
               /\ store[results[1].version] = r
               /\ results[1].version <= forced
        BY <2>1, <3>1, <3>2, <3>3, <3>5 DEF True
      <3>9. results[1].code = "committed" =>
               /\ results[1].version \in 1..forced
               /\ log[results[1].version].request = r
               /\ results[1].version <= Len(published)
        BY <1>a, <3>5, <3>6, <3>8
      <3> QED BY <2>1, <3>7, <3>9 DEF Grounded
    <2>3. CASE DeliverErrors
      <3>1. pc = "fail" BY <2>3 DEF DeliverErrors
      <3>2. results[1].code \in Uncertain \/ (results[1].code = "recovery-required" /\ ~InFile(r))
        BY <2>1, <3>1 DEF Results
      <3> QED BY <2>1, <3>2 DEF Grounded, Uncertain, Refusal
    <2> QED BY <1>2, <2>2, <2>3
  <1> HIDE DEF Deliver, Grounded
  <1> QED BY <1>b, <1>1, <1>2, DeliverSteps

\* How the reply of a worker comes about.
LEMMA ReplySteps ==
    ASSUME Types, [Next]_vars, NEW r \in Request
    PROVE  \/ reply'[r] = reply[r]
           \/ reply'[r].code \in Uncertain
           \/ SequenceCommit(r) /\ reply'[r].code \in Refusal
           \/ Receive(r) /\ reply'[r] = promise[r]
  <1>a. reply \in [Request -> Result \cup {None}] BY DEF Types, ClientTypes
  <1> USE <1>a DEF Error, Uncertain, Refusal
  <1>1. ASSUME NEW q \in Request, SequenceCommit(q) PROVE
           reply'[r] = reply[r] \/ (q = r /\ reply'[r].code \in Refusal)
    BY <1>1 DEF SequenceCommit, Finish
  <1>2. ASSUME NEW q \in Request, Receive(q) PROVE
           reply'[r] = reply[r] \/ (q = r /\ reply'[r] = promise[r])
    BY <1>2 DEF Receive, Finish
  <1>3. ASSUME NEW q \in Request, WorkerInterrupted(q) PROVE
           reply'[r] = reply[r] \/ reply'[r].code \in Uncertain
    BY <1>3 DEF WorkerInterrupted, Finish
  <1>4. CASE Crash \/ FinishShutdown
    BY <1>4 DEF Crash, FinishShutdown, Abandon
  <1> QED BY <1>1, <1>2, <1>3, <1>4
      DEF Next, vars, disk, process, tickets, thread, clients, bounds, Sequencer, Worker,
         Client, Shutdown, Boot, Submit, Cancel, PutTicket,
         LoopHead, TakeFirst, Collect, CloseCohort, StartCohort, RunMutation,
         EndRun, WriteFrames, WriteFails, ForceFrames, ForceFails, Reconcile,
         PublishSnapshot, DeliverNext, DeliverErrors, NextRound, Drain, BeginShutdown,
         InterruptWorkers, StopSequencer

LEMMA PhaseSteps ==
    ASSUME Types, [Next]_vars, NEW r \in Request
    PROVE  /\ phase'[r] \in {"idle", "serving", "enqueue"} =>
                 phase[r] \in {"idle", "serving", "enqueue"}
           /\ phase'[r] # "done" => phase[r] # "done" /\ reply'[r] = reply[r]
  <1>a. /\ phase \in [Request -> {"idle", "serving", "enqueue", "waiting", "done"}]
        /\ reply \in [Request -> Result \cup {None}]
    BY DEF Types, ClientTypes
  <1> USE <1>a DEF Next, vars, disk, process, tickets, thread, clients, bounds, Sequencer,
         Worker, Client, Shutdown, Boot, Submit, Cancel, SequenceCommit,
         PutTicket, Receive, WorkerInterrupted, LoopHead, TakeFirst, Collect, CloseCohort,
         StartCohort, RunMutation, EndRun, WriteFrames, WriteFails, ForceFrames, ForceFails,
         Reconcile, PublishSnapshot, DeliverNext, DeliverErrors, NextRound, Drain,
         BeginShutdown, InterruptWorkers, StopSequencer, FinishShutdown, Crash, Finish,
         Abandon, Active
  <1>1. phase'[r] \in {"idle", "serving", "enqueue"} =>
           phase[r] \in {"idle", "serving", "enqueue"}
    OBVIOUS
  <1>2. phase'[r] # "done" => phase[r] # "done" OBVIOUS
  <1>3. phase'[r] # "done" => reply'[r] = reply[r] OBVIOUS
  <1> QED BY <1>1, <1>2, <1>3

LEMMA ToldStep ==
    ASSUME Types, Fences, Roots, Planned, Places, Waits, File, Results, Told, [Next]_vars
    PROVE  Told'
  <1> SUFFICES ASSUME NEW r \in Request
      PROVE  /\ phase'[r] \in {"idle", "serving", "enqueue"} => promise'[r] = None
             /\ phase'[r] # "done" => reply'[r] = None
             /\ reply'[r].code = "committed" => promise'[r] = reply'[r]
             /\ InFile(r)' => promise'[r].code \notin Refusal /\ reply'[r].code \notin Refusal
             /\ Acked(r)' => /\ promise'[r].version \in 1..forced'
                             /\ log'[promise'[r].version].request = r
    BY DEF Told
  <1>a. /\ promise \in [Request -> Result \cup {None}]
        /\ reply \in [Request -> Result \cup {None}]
    BY DEF Types, ClientTypes
  <1>b. /\ phase[r] \in {"idle", "serving", "enqueue"} => promise[r] = None
        /\ phase[r] # "done" => reply[r] = None
        /\ reply[r].code = "committed" => promise[r] = reply[r]
        /\ InFile(r) => promise[r].code \notin Refusal /\ reply[r].code \notin Refusal
        /\ Acked(r) => /\ promise[r].version \in 1..forced
                       /\ log[promise[r].version].request = r
    BY DEF Told
  <1>c. Ticketed(r) => /\ promise[r] = None /\ phase[r] \in {"waiting", "done"}
                       /\ reply[r].code \in Uncertain \cup {"none"}
    BY DEF Waits
  <1>d. /\ \A code \in Uncertain \cup {"none"} : code # "committed" /\ code \notin Refusal
        /\ "committed" \notin Refusal /\ None.code = "none"
    BY DEF Uncertain, Refusal, None
  <1>e. InFile(r)' => InFile(r) \/ (pc = "append" /\ InCohort(r)) BY NewInFile
  <1>1. \/ promise'[r] = promise[r]
        \/ /\ Ticketed(r) /\ Grounded(r, promise'[r])
           /\ UNCHANGED <<log, forced, published, server, reply>>
    <2>1. CASE UNCHANGED promise BY <2>1
    <2>2. ASSUME NEW q \in Request, NEW m, Deliver(q, m), Ticketed(q), Grounded(q, m),
                 UNCHANGED <<log, forced, published, server, reply>>
          PROVE  \/ promise'[r] = promise[r]
                 \/ Ticketed(r) /\ Grounded(r, promise'[r])
      BY <1>a, <2>2 DEF Deliver
    <2> HIDE DEF Deliver, Grounded, Ticketed
    <2> QED BY <2>1, <2>2, Answered
  <1>2. phase'[r] \in {"idle", "serving", "enqueue"} => promise'[r] = None
    <2>1. phase'[r] \in {"idle", "serving", "enqueue"} =>
             phase[r] \in {"idle", "serving", "enqueue"}
      BY PhaseSteps
    <2> QED BY <1>b, <1>c, <1>1, <2>1
  <1>3. phase'[r] # "done" => reply'[r] = None BY <1>b, PhaseSteps
  <1>4. reply'[r].code = "committed" => promise'[r] = reply'[r]
    <2>1. CASE reply'[r] = reply[r] BY <1>b, <1>c, <1>d, <1>1, <2>1
    <2>2. CASE reply'[r].code \in Uncertain BY <1>d, <2>2
    <2>3. CASE reply'[r].code \in Refusal BY <1>d, <2>3
    <2>4. CASE Receive(r) /\ reply'[r] = promise[r] BY <2>4 DEF Receive
    <2> QED BY <2>1, <2>2, <2>3, <2>4, ReplySteps
  <1>5. InFile(r)' => promise'[r].code \notin Refusal
    <2>1. CASE promise'[r] = promise[r] BY <1>b, <1>c, <1>d, <1>e, <2>1 DEF Ticketed
    <2>2. CASE Grounded(r, promise'[r]) /\ UNCHANGED log
      BY <2>2 DEF Grounded, InFile
    <2> QED BY <1>1, <2>1, <2>2
  <1>6. InFile(r)' => reply'[r].code \notin Refusal
    <2>1. CASE reply'[r] = reply[r] BY <1>b, <1>c, <1>d, <1>e, <2>1 DEF Ticketed
    <2>2. CASE reply'[r].code \in Uncertain BY <1>d, <2>2
    <2>3. CASE SequenceCommit(r)
      <3>1. phase[r] = "serving" /\ log' = log BY <2>3 DEF SequenceCommit, disk
      <3>2. ~InFile(r) BY <3>1 DEF File
      <3> QED BY <3>1, <3>2 DEF InFile
    <2>4. CASE Receive(r) /\ reply'[r] = promise[r]
      <3>1. log' = log BY <2>4 DEF Receive, disk
      <3> QED BY <1>b, <2>4, <3>1 DEF InFile
    <2> QED BY <2>1, <2>2, <2>3, <2>4, ReplySteps
  <1>7. Acked(r)' => /\ promise'[r].version \in 1..forced'
                     /\ log'[promise'[r].version].request = r
    <2>1. CASE promise'[r] = promise[r]
      <3>1. /\ forced \in Nat /\ forced' \in Nat /\ forced <= forced'
            /\ \A i \in 1..forced : log'[i] = log[i]
        BY FileStep DEF FileKept, Types, DiskTypes
      <3>2. Acked(r)' => Acked(r) BY <2>1 DEF Acked
      <3>3. Acked(r) => promise[r].version \in 1..forced /\ promise[r].version \in 1..forced'
        BY <1>b, <3>1
      <3> QED BY <1>b, <2>1, <3>1, <3>2, <3>3
    <2>2. CASE Grounded(r, promise'[r]) /\ UNCHANGED <<log, forced>>
      BY <2>2 DEF Grounded, Acked
    <2> QED BY <1>1, <2>1, <2>2
  <1> QED BY <1>2, <1>3, <1>4, <1>5, <1>6, <1>7

\* What readers see only grows while the process lives, and starts as the file.
LEMMA PublishedSteps ==
    ASSUME Types, Fences, Roots, [Next]_vars, Up'
    PROVE  \/ Up /\ Len(published) <= Len(published')
           \/ ~Up /\ UNCHANGED promise /\ Len(published') = Len(log)
  <1>a. log \in Seq(Frame) /\ Len(published) \in Nat
    BY DEF Types, DiskTypes, RootTypes
  <1>1. CASE Boot
    <2>1. published' = Requests(log) /\ ~Up /\ UNCHANGED promise
      BY <1>1 DEF Boot, Up, clients
    <2> QED BY <1>a, <2>1, RequestsOf
  <1>2. CASE PublishSnapshot
    <2>1. published' = store /\ pc = "publish" BY <1>2 DEF PublishSnapshot
    <2>2. Up /\ status = "ready" BY <2>1 DEF Fences, Answering
    <2>3. Len(store) = Len(log) /\ Len(published) <= Len(log) BY <2>1, <2>2 DEF Roots
    <2> QED BY <2>1, <2>2, <2>3
  <1>3. ~Boot /\ ~PublishSnapshot => published' = published /\ Up
    BY DEF Up, Next, vars, disk, process, tickets, thread, clients, bounds, Sequencer,
         Worker, Client, Shutdown, Submit, Cancel, SequenceCommit,
         PutTicket, Receive, WorkerInterrupted, LoopHead, TakeFirst, Collect, CloseCohort,
         StartCohort, RunMutation, EndRun, WriteFrames, WriteFails, ForceFrames, ForceFails,
         Reconcile, DeliverNext, DeliverErrors, NextRound, Drain,
         BeginShutdown, InterruptWorkers, StopSequencer, FinishShutdown, Crash, Gone, Fences
  <1> QED BY <1>a, <1>1, <1>2, <1>3

LEMMA AckedStep ==
    ASSUME Types, Fences, Roots, Planned, Places, Waits, File, Results, Told,
           AckedIsPublished, [Next]_vars
    PROVE  AckedIsPublished'
  <1> SUFFICES ASSUME NEW r \in Request, Acked(r)', Up'
      PROVE  promise'[r].version <= Len(published') /\ published'[promise'[r].version] = r
    BY DEF AckedIsPublished, Up
  <1>a. /\ promise \in [Request -> Result \cup {None}]
        /\ log' \in Seq(Frame) /\ forced' \in 0..Len(log') /\ Len(log') \in Nat
        /\ forced \in 0..Len(log) /\ Len(log) \in Nat
        /\ Len(published) \in Nat
    BY FileStep DEF FileKept, Types, ClientTypes, DiskTypes, RootTypes
  <1>b. Len(published') \in Nat BY RootTypesStep DEF RootTypes
  <1>1. promise'[r].version \in 1..forced' /\ log'[promise'[r].version].request = r
    BY ToldStep DEF Told
  <1>2. \A i \in 1..Len(published') : published'[i] = log'[i].request
    BY RootsStep DEF Roots
  <1>3. promise'[r].version <= Len(published')
    <2>1. CASE promise'[r] = promise[r]
      <3>1. Acked(r) BY <2>1 DEF Acked
      <3>2. promise[r].version \in 1..forced BY <3>1 DEF Told
      <3>3. Up => promise[r].version <= Len(published)
        BY <3>1 DEF AckedIsPublished, Up
      <3> QED BY <1>a, <1>b, <2>1, <3>2, <3>3, PublishedSteps
    <2>2. ASSUME NEW m, Deliver(r, m), Grounded(r, m), ~UNCHANGED promise
          PROVE  promise'[r].version <= Len(published')
      <3>1. promise'[r] = m BY <1>a, <2>2 DEF Deliver
      <3>2. m.version \in 1..forced /\ m.version <= Len(published)
        BY <2>2, <3>1 DEF Grounded, Acked
      <3> HIDE DEF Deliver
      <3>3. Len(published) <= Len(published') BY <2>2, PublishedSteps
      <3> QED BY <1>a, <1>b, <3>1, <3>2, <3>3
    <2>3. ASSUME NEW q \in Request, NEW m, Deliver(q, m), q # r
          PROVE  promise'[r] = promise[r]
      BY <1>a, <2>3 DEF Deliver
    <2> HIDE DEF Deliver, Grounded, Ticketed
    <2> QED BY <2>1, <2>2, <2>3, Answered
  <1> QED BY <1>a, <1>b, <1>1, <1>2, <1>3

-----------------------------------------------------------------------------
(* The invariant                                                           *)

LEMMA InitInv == Init => IInv
  <1> SUFFICES ASSUME Init PROVE IInv OBVIOUS
  <1> USE DEF Init
  <1>a. /\ Len(log) = 0 /\ Len(queue) = 0 /\ Len(cohort) = 0
        /\ <<>> \in Seq(Frame) /\ <<>> \in Seq(Request) /\ <<>> \in Seq(Result)
        /\ <<>> \in Seq(Request \cup {Stop})
    OBVIOUS
  <1>b. /\ CohortMaxFrames \in Nat \ {0} /\ MaxBoots \in Nat /\ MaxFailures \in Nat
        /\ NoTicket \notin Request
    BY SequencerAssumption
  <1>c. None.code = "none" /\ "none" \notin Refusal /\ "none" # "committed"
    BY DEF None, Refusal
  <1>1. Types
    <2>1. DiskTypes /\ RootTypes BY <1>a DEF DiskTypes, RootTypes
    <2>2. ThreadTypes BY <1>a, <1>b DEF ThreadTypes
    <2>3. FlagTypes /\ PlaceTypes BY DEF FlagTypes, PlaceTypes
    <2>4. ClientTypes BY <1>b DEF ClientTypes
    <2> QED BY <2>1, <2>2, <2>3, <2>4 DEF Types
  <1>2. Fences BY <1>b DEF Fences, Up, Answering, Active
  <1>3. Roots BY DEF Roots, Up
  <1>4. Planned /\ Results BY DEF Planned, Results, Writing, Answering
  <1>5. Places /\ Waits BY <1>a, <1>b DEF Places, Waits, Ticketed, InQueue, InCohort
  <1>6. File BY <1>a DEF File, OptimisticSound, InFile
  <1>7. Told BY <1>a, <1>c DEF Told, InFile, Acked
  <1>8. AckedIsPublished BY DEF AckedIsPublished
  <1> QED BY <1>1, <1>2, <1>3, <1>4, <1>5, <1>6, <1>7, <1>8 DEF IInv

LEMMA InvStep == IInv /\ [Next]_vars => IInv'
  <1> SUFFICES ASSUME IInv, [Next]_vars PROVE IInv' OBVIOUS
  <1>a. /\ Types /\ Fences /\ Roots /\ Planned /\ Places /\ Waits /\ File /\ Results /\ Told
        /\ AckedIsPublished
    BY DEF IInv
  <1>1. Types' BY <1>a, TypesStep
  <1>2. Fences' BY <1>a, FencesStep
  <1>3. Roots' BY <1>a, RootsStep
  <1>4. Planned' BY <1>a, PlannedStep
  <1>5. Places' BY <1>a, PlacesStep
  <1>6. Waits' BY <1>a, WaitsStep
  <1>7. File' BY <1>a, FileInvStep
  <1>8. Results' BY <1>a, ResultsStep
  <1>9. Told' BY <1>a, ToldStep
  <1>10. AckedIsPublished' BY <1>a, AckedStep
  <1> QED BY <1>1, <1>2, <1>3, <1>4, <1>5, <1>6, <1>7, <1>8, <1>9, <1>10 DEF IInv

\* The inductive invariant holds of every behaviour of the write path: where
\* each ticket is, what the cohort's root holds, what each result says of it.
THEOREM SequencerInvariant == Spec => []IInv
  <1>1. Init => IInv BY InitInv
  <1>2. IInv /\ [Next]_vars => IInv' BY InvStep
  <1> QED BY <1>1, <1>2, PTL DEF Spec

\* The file, the roots, the tickets and the waiters keep their types, and no
\* cohort is longer than commit-cohort-max-frames.
THEOREM SequencerTypes == Spec => []TypeOK
  <1>1. IInv => TypeOK
    BY DEF IInv, Types, DiskTypes, RootTypes, ThreadTypes, FlagTypes, PlaceTypes,
       ClientTypes, TypeOK
  <1> QED BY <1>1, SequencerInvariant, PTL

\* deliver-commit-cohort! runs after publish-snapshot!: a client that is told
\* its transaction committed finds it in what the server shows, at its version.
THEOREM AckedTheorem == Spec => []AckedIsPublished
  <1>1. IInv => AckedIsPublished BY DEF IInv
  <1> QED BY <1>1, SequencerInvariant, PTL

\* A transaction whose request named the version it was based on is, in the
\* file, the one that follows that version.
THEOREM OptimisticTheorem == Spec => []OptimisticSound
  <1>1. IInv => OptimisticSound BY DEF IInv, File
  <1> QED BY <1>1, SequencerInvariant, PTL

\* A request that got a definite refusal is not in the file, and no ticket, no
\* frame of a cohort is left that could bring it there.
THEOREM RefusedTheorem == Spec => []RefusedNeverCommits
  <1>1. ASSUME IInv, NEW r \in Request,
               promise[r].code \in Refusal \/ reply[r].code \in Refusal
        PROVE  /\ ~InFile(r)
               /\ ~Contains(queue, r) /\ pending # r
               /\ pc = "append" => ~Contains(Requests(frames), r)
    <2>1. ~InFile(r) BY <1>1 DEF IInv, Told
    <2>2. ~Ticketed(r) BY <1>1 DEF IInv, Waits, None, Uncertain, Refusal
    <2>3. ~Contains(queue, r) /\ pending # r BY <2>2 DEF Ticketed, InQueue, Contains
    <2>4. ASSUME pc = "append" PROVE ~Contains(Requests(frames), r)
      <3>1. frames \in Seq(Frame) BY <1>1 DEF IInv, Types, ThreadTypes
      <3>2. \A i \in 1..Len(frames) : \E j \in 1..Len(results) : frames[i].request = cohort[j]
        BY <1>1, <2>4 DEF IInv, Planned, Writing
      <3>3. Len(results) = Len(cohort) BY <1>1, <2>4 DEF IInv, Results, Answering
      <3>4. \A j \in 1..Len(cohort) : cohort[j] # r BY <2>2 DEF Ticketed, InCohort
      <3> QED BY <3>1, <3>2, <3>3, <3>4, RequestsOf DEF Contains
    <2> QED BY <2>1, <2>3, <2>4
  <1>2. IInv => RefusedNeverCommits BY <1>1 DEF RefusedNeverCommits
  <1> QED BY <1>2, SequencerInvariant, PTL

\* A sequence that goes no further than another, and agrees with it.
LEMMA PrefixOf ==
    ASSUME NEW S, NEW s \in Seq(S), NEW t \in Seq(S), Len(s) <= Len(t),
           \A i \in 1..Len(s) : s[i] = t[i]
    PROVE  SubSeq(t, 1, Len(s)) = s
  <1>1. Len(s) \in Nat /\ Len(t) \in Nat OBVIOUS
  <1>2. /\ SubSeq(t, 1, Len(s)) \in Seq(S) /\ Len(SubSeq(t, 1, Len(s))) = Len(s)
        /\ \A i \in 1..Len(s) : SubSeq(t, 1, Len(s))[i] = t[i]
    BY <1>1
  <1> QED BY <1>2, SeqEqual

\* The live root is what a replay of the file gives whenever no append is under
\* way and the file has not been found corrupt; readers see a prefix of it.
THEOREM RootTheorem == Spec => []RootMatchesFile
  <1>1. ASSUME IInv, Up
        PROVE  /\ IsPrefix(published, store)
               /\ pc \notin {"force", "reconcile"} /\ status # "corrupt" =>
                     store = Requests(log)
    <2>a. /\ log \in Seq(Frame) /\ store \in Seq(Request) /\ published \in Seq(Request)
          /\ Len(published) \in Nat
      BY <1>1 DEF IInv, Types, DiskTypes, RootTypes
    <2>b. Requests(log) \in Seq(Request) /\ Len(Requests(log)) = Len(log)
          /\ \A i \in 1..Len(log) : Requests(log)[i] = log[i].request
      BY <2>a, RequestsOf
    <2>1. ASSUME pc \notin {"force", "reconcile"}, status # "corrupt"
          PROVE  store = Requests(log) /\ IsPrefix(published, store)
      <3>1. /\ Len(store) = Len(log) /\ \A i \in 1..Len(log) : store[i] = log[i].request
            /\ Len(published) <= Len(log)
            /\ \A i \in 1..Len(published) : published[i] = log[i].request
        BY <1>1, <2>1 DEF IInv, Roots
      <3>2. store = Requests(log) BY <2>a, <2>b, <3>1, SeqEqual
      <3>3. \A i \in 1..Len(published) : published[i] = store[i] BY <2>a, <3>1
      <3>4. SubSeq(store, 1, Len(published)) = published BY <2>a, <3>1, <3>3, PrefixOf
      <3>5. SubSeq(published, 1, Len(published)) = published BY <2>a, PrefixOf
      <3> QED BY <3>1, <3>2, <3>4, <3>5 DEF IsPrefix
    <2>2. ASSUME pc \in {"force", "reconcile"} \/ status = "corrupt"
          PROVE  IsPrefix(published, store)
      <3>1. pc # "publish" /\ status # "recovery-required"
        BY <1>1, <2>2 DEF IInv, Fences, Answering
      <3>2. store = published BY <1>1, <3>1 DEF IInv, Roots
      <3> QED BY <2>a, <3>2 DEF IsPrefix
    <2> QED BY <2>1, <2>2
  <1>2. IInv => RootMatchesFile BY <1>1 DEF RootMatchesFile, Up
  <1> QED BY <1>2, SequencerInvariant, PTL

\* Nothing is appended behind the bytes of an incomplete frame.
THEOREM TornTailTheorem == Spec => TornTailNeverBuried
  <1>1. ASSUME IInv, [Next]_vars, tail # "none" PROVE Len(log') <= Len(log)
    <2>1. pc # "append" BY <1>1 DEF IInv, Fences, Answering
    <2>2. \A i \in 1..Len(log') : i \in 1..Len(log) BY <1>1, <2>1, NewInFile DEF IInv
    <2>3. Len(log) \in Nat /\ Len(log') \in Nat
      BY <1>1, FileStep DEF FileKept, IInv, Types, DiskTypes
    <2> QED BY <2>2, <2>3
  <1>2. IInv /\ [Next]_vars => [tail # "none" => Len(log') <= Len(log)]_vars
    BY <1>1
  <1> QED BY <1>2, SequencerInvariant, PTL DEF Spec, TornTailNeverBuried

\* From an append failure to the end of the process nothing more is written,
\* published or acknowledged.
THEOREM FenceTheorem == Spec => FencedUntilRestart
  <1>1. ASSUME IInv, [Next]_vars, status # "ready", Up'
        PROVE  /\ status' # "ready"
               /\ UNCHANGED <<log, published>>
               /\ \A r \in Request : Acked(r)' => Acked(r)
    <2> USE <1>1
    <2>1. Up /\ pc \notin Answering BY DEF IInv, Fences
    <2>2. log' = log
      BY <2>1, LogSteps DEF Boot, WriteFrames, WriteFails, ForceFrames, Crash, Gone,
         Answering, Up
    <2>3. published' = published
      BY <2>1 DEF Up, Next, vars, disk, process, tickets, thread, clients, bounds,
         Sequencer, Worker, Client, Shutdown, Boot, Submit, Cancel, SequenceCommit,
         PutTicket, Receive, WorkerInterrupted, LoopHead, TakeFirst, Collect, CloseCohort,
         StartCohort, RunMutation, EndRun, WriteFrames, WriteFails, ForceFrames, ForceFails,
         Reconcile, PublishSnapshot, DeliverNext, DeliverErrors, NextRound, Drain,
         BeginShutdown, InterruptWorkers, StopSequencer, FinishShutdown, Crash, Gone,
         Answering
    <2>4. status' # "ready"
      BY <2>1 DEF Up, Next, vars, disk, process, tickets, thread, clients, bounds,
         Sequencer, Worker, Client, Shutdown, Boot, Submit, Cancel, SequenceCommit,
         PutTicket, Receive, WorkerInterrupted, LoopHead, TakeFirst, Collect, CloseCohort,
         StartCohort, RunMutation, EndRun, WriteFrames, WriteFails, ForceFrames, ForceFails,
         Reconcile, PublishSnapshot, DeliverNext, DeliverErrors, NextRound, Drain,
         BeginShutdown, InterruptWorkers, StopSequencer, FinishShutdown, Crash, Gone
    <2>5. ASSUME NEW r \in Request, Acked(r)' PROVE Acked(r)
      <3>1. CASE UNCHANGED promise BY <2>5, <3>1 DEF Acked
      <3>2. ASSUME NEW q \in Request, NEW m, Deliver(q, m), m.code # "committed"
            PROVE  Acked(r)
        <4>1. promise \in [Request -> Result \cup {None}] BY DEF IInv, Types, ClientTypes
        <4> QED BY <2>5, <3>2, <4>1 DEF Acked, Deliver
      <3>3. Error("not-booted").code # "committed" BY DEF Error
      <3>4. ASSUME DeliverNext \/ DeliverErrors PROVE Head(results).code # "committed"
        <4>1. pc = "fail" BY <2>1, <3>4 DEF DeliverNext, DeliverErrors, Answering
        <4>2. Len(results) = 1 /\ results[1].code # "committed"
          BY <4>1 DEF IInv, Results, Uncertain
        <4>a. results \in Seq(Result) BY DEF IInv, Types, ThreadTypes
        <4>b. Len(<<>>) = 0 OBVIOUS
        <4>3. results \in Seq(Result) /\ results # <<>> BY <4>a, <4>b, <4>2
        <4>4. Head(results) = results[1] BY <4>3, TailOf
        <4> QED BY <4>2, <4>4
      <3> HIDE DEF Deliver
      <3> QED BY <3>1, <3>2, <3>3, <3>4, DeliverSteps DEF IInv
    <2> QED BY <2>2, <2>3, <2>4, <2>5
  <1>2. IInv /\ [Next]_vars =>
           [status # "ready" /\ server' # "down" =>
              /\ status' # "ready"
              /\ UNCHANGED <<log, published>>
              /\ \A r \in Request : Acked(r)' => Acked(r)]_vars
    BY <1>1 DEF Up
  <1> QED BY <1>2, SequencerInvariant, PTL DEF Spec, FencedUntilRestart

-----------------------------------------------------------------------------
(* The refinement of AtomicHistory                                         *)

Hist == IF Up THEN published ELSE Requests(log)
Verdicts == [r \in Request |-> VerdictOf(reply[r].code)]

\* What a client has been told is what the file and its readers hold.
LEMMA VerdictSound ==
    ASSUME IInv, NEW r \in Request
    PROVE  /\ Verdicts[r] \in {"open", "acked", "rejected", "unknown"}
           /\ Verdicts[r] = "acked" =>
                 \E i \in 1..forced : log[i].request = r /\ i \in 1..Len(Hist)
           /\ Verdicts[r] = "rejected" => ~InFile(r) /\ ~InCohort(r)
           /\ Active(r) => Up /\ Verdicts[r] = "open"
  <1>1. Verdicts[r] = VerdictOf(reply[r].code) BY DEF Verdicts
  <1>2. Verdicts[r] \in {"open", "acked", "rejected", "unknown"} BY <1>1 DEF VerdictOf
  <1>a. /\ log \in Seq(Frame) /\ forced \in Nat /\ forced <= Len(log) /\ Len(log) \in Nat
        /\ Len(published) \in Nat
    BY DEF IInv, Types, DiskTypes, RootTypes
  <1>3. ASSUME Verdicts[r] = "acked"
        PROVE  \E i \in 1..forced : log[i].request = r /\ i \in 1..Len(Hist)
    <2>1. reply[r].code = "committed" BY <1>1, <1>3 DEF VerdictOf
    <2>2. Acked(r) /\ promise[r] = reply[r] BY <2>1 DEF IInv, Told, Acked
    <2>3. promise[r].version \in 1..forced /\ log[promise[r].version].request = r
      BY <2>2 DEF IInv, Told
    <2>4. Up => promise[r].version <= Len(published)
      BY <2>2 DEF IInv, AckedIsPublished, Up
    <2>5. Len(Requests(log)) = Len(log) BY <1>a, RequestsOf
    <2>6. promise[r].version \in 1..Len(Hist) BY <1>a, <2>3, <2>4, <2>5 DEF Hist
    <2> QED BY <2>3, <2>6
  <1>4. ASSUME Verdicts[r] = "rejected" PROVE ~InFile(r) /\ ~InCohort(r)
    <2>1. reply[r].code \in Refusal BY <1>1, <1>4 DEF VerdictOf
    <2> QED BY <2>1 DEF IInv, Told, Waits, Ticketed, Uncertain, Refusal
  <1>5. ASSUME Active(r) PROVE Up /\ Verdicts[r] = "open"
    <2>1. phase[r] # "done" BY <1>5 DEF Active
    <2>2. reply[r] = None BY <2>1 DEF IInv, Told
    <2> QED BY <1>1, <1>5, <2>2 DEF IInv, Fences, VerdictOf, None
  <1> QED BY <1>2, <1>3, <1>4, <1>5

\* The history is a prefix of the file's requests.
LEMMA HistInFile ==
    ASSUME IInv
    PROVE  /\ Hist \in Seq(Request) /\ Len(Hist) \in Nat /\ Len(Hist) <= Len(log)
           /\ \A i \in 1..Len(Hist) : Hist[i] = log[i].request
  <1>1. log \in Seq(Frame) /\ published \in Seq(Request)
    BY DEF IInv, Types, DiskTypes, RootTypes
  <1>2. CASE Up BY <1>1, <1>2 DEF IInv, Roots, Hist
  <1>3. CASE ~Up BY <1>1, <1>3, RequestsOf DEF Hist
  <1> QED BY <1>2, <1>3

LEMMA InitMaps == Init => Promised!AInit
  <1> SUFFICES ASSUME Init PROVE Promised!AInit OBVIOUS
  <1>1. Hist = <<>>
    <2>1. <<>> \in Seq(Request) /\ <<>> \in Seq(Frame) /\ Len(<<>>) = 0 OBVIOUS
    <2>2. Requests(log) \in Seq(Request) /\ Len(Requests(log)) = 0
      BY <2>1, RequestsOf DEF Init
    <2>3. Requests(log) = <<>> BY <2>2
    <2> QED BY <2>3 DEF Hist, Up, Init
  <1>2. Verdicts = [r \in Request |-> "open"] BY DEF Init, Verdicts, VerdictOf, None
  <1>3. ~Up BY DEF Up, Init
  <1>4. Hist = <<>> /\ Verdicts = [r \in Request |-> "open"] /\ Up = FALSE
    BY <1>1, <1>2, <1>3 DEF Up
  <1> QED BY <1>4 DEF Promised!AInit, Hist, Verdicts, Up

\* A step whose verdicts, history and liveness stay is a stutter.
LEMMA Stutters ==
    ASSUME UNCHANGED <<Hist, Verdicts, Up>>
    PROVE  UNCHANGED Promised!avars
  BY DEF Hist, Verdicts, Up, Promised!avars

\* A boot shows the file as it is.
LEMMA StartMaps ==
    ASSUME IInv, Boot
    PROVE  Promised!Start
  <1>1. ~Up /\ Up' /\ published' = Requests(log) /\ reply' = reply
    BY DEF Boot, Up, clients
  <1>2. Hist' = Hist BY <1>1 DEF Hist
  <1>3. Verdicts' = Verdicts BY <1>1 DEF Verdicts
  <1> QED BY <1>1, <1>2, <1>3 DEF Promised!Start, Hist, Verdicts, Up

\* The end of a process, orderly or not: what was acknowledged is forced.
LEMMA StopMaps ==
    ASSUME IInv, IInv', [Next]_vars, Crash \/ FinishShutdown
    PROVE  Promised!Stop
  <1>a. /\ log \in Seq(Frame) /\ log' \in Seq(Frame) /\ Len(log) \in Nat /\ Len(log') \in Nat
        /\ forced \in Nat /\ forced <= Len(log) /\ forced <= Len(log')
        /\ \A i \in 1..forced : log'[i] = log[i]
    BY FileStep DEF FileKept, IInv, Types, DiskTypes
  <1>b. ~Up' BY DEF Crash, FinishShutdown, Gone, Up
  <1>1. /\ Hist' = Requests(log') /\ Hist' \in Seq(Request) /\ Len(Hist') = Len(log')
        /\ \A i \in 1..Len(log') : Hist'[i] = log'[i].request
    <2>1. Hist' = Requests(log') BY <1>b DEF Hist, Requests
    <2> HIDE DEF Hist
    <2> QED BY <1>a, <2>1, RequestsOf
  <1>2. \A i \in 1..Len(Hist) : Verdicts[Hist[i]] = "acked" =>
           i <= Len(Hist') /\ Hist'[i] = Hist[i]
    <2> SUFFICES ASSUME NEW i \in 1..Len(Hist), Verdicts[Hist[i]] = "acked"
                 PROVE  i <= Len(Hist') /\ Hist'[i] = Hist[i]
      OBVIOUS
    <2>1. Hist[i] \in Request /\ Hist[i] = log[i].request /\ i \in 1..Len(log)
      BY <1>a, HistInFile
    <2>2. PICK j \in 1..forced : log[j].request = Hist[i]
      BY <2>1, VerdictSound
    <2>3. \A k, l \in 1..Len(log) : log[k].request = log[l].request => k = l
      BY DEF IInv, File
    <2>4. i = j BY <1>a, <2>1, <2>2, <2>3
    <2> QED BY <1>a, <1>1, <2>1, <2>2, <2>4
  <1>3. \A i \in 1..Len(Hist') : Verdicts[Hist'[i]] # "rejected"
    <2> SUFFICES ASSUME NEW i \in 1..Len(Hist') PROVE Verdicts[Hist'[i]] # "rejected"
      OBVIOUS
    <2>1. PICK r \in Request : r = Hist'[i] BY <1>1
    <2>2. InFile(r)' BY <1>1, <2>1 DEF InFile
    <2>3. InFile(r) \/ InCohort(r) BY <2>2, NewInFile DEF IInv
    <2> QED BY <2>1, <2>3, VerdictSound
  <1>4. \A i, j \in 1..Len(Hist') : Hist'[i] = Hist'[j] => i = j
    <2>1. \A i, j \in 1..Len(log') : log'[i].request = log'[j].request => i = j
      BY DEF IInv, File
    <2> QED BY <1>1, <2>1
  <1>5. \A r \in Request : Verdicts'[r] = Verdicts[r]
                          \/ (Verdicts[r] = "open" /\ Verdicts'[r] = "unknown")
    <2> SUFFICES ASSUME NEW r \in Request
                 PROVE  Verdicts'[r] = Verdicts[r]
                        \/ (Verdicts[r] = "open" /\ Verdicts'[r] = "unknown")
      OBVIOUS
    <2>1. reply'[r] = IF Active(r) THEN Error("lost") ELSE reply[r]
      BY DEF Crash, FinishShutdown, Abandon
    <2>2. Verdicts'[r] = VerdictOf(reply'[r].code) /\ Verdicts[r] = VerdictOf(reply[r].code)
      BY DEF Verdicts, VerdictOf
    <2>3. VerdictOf(Error("lost").code) = "unknown"
      BY DEF VerdictOf, Error, Refusal
    <2>4. Active(r) => Verdicts[r] = "open" BY VerdictSound
    <2> QED BY <2>1, <2>2, <2>3, <2>4
  <1>6. Verdicts' \in [Request -> {"open", "acked", "rejected", "unknown"}]
    BY DEF Verdicts, VerdictOf
  <1> QED BY <1>b, <1>1, <1>2, <1>3, <1>4, <1>5, <1>6
          DEF Promised!Stop, Promised!Verdict, Hist, Verdicts, Up

\* publish-snapshot! shows a cohort as a whole, or nothing new.
LEMMA PublishMaps ==
    ASSUME IInv, PublishSnapshot
    PROVE  [Promised!ANext]_(Promised!avars)
  <1>a. /\ pc = "publish" /\ published' = store
        /\ UNCHANGED <<server, log, reply>>
    BY DEF PublishSnapshot, disk, clients
  <1>b. Up /\ status = "ready" BY <1>a DEF IInv, Fences, Answering
  <1>c. Up' BY <1>a, <1>b DEF Up
  <1>d. /\ log \in Seq(Frame) /\ store \in Seq(Request) /\ published \in Seq(Request)
        /\ Len(log) \in Nat /\ Len(store) \in Nat /\ Len(published) \in Nat
    BY DEF IInv, Types, DiskTypes, RootTypes
  <1>e. /\ Len(published) <= Len(log) /\ Len(store) = Len(log)
        /\ \A i \in 1..Len(published) : published[i] = log[i].request
        /\ \A i \in 1..Len(log) : store[i] = log[i].request
    BY <1>a, <1>b DEF IInv, Roots
  <1>1. Verdicts' = Verdicts BY <1>a DEF Verdicts, VerdictOf
  <1>2. Hist = published /\ Hist' = store BY <1>a, <1>b, <1>c DEF Hist
  <1>3. \A i \in 1..Len(published) : published[i] = store[i] BY <1>d, <1>e
  <1>4. CASE Len(published) = Len(store)
    <2>1. published = store BY <1>d, <1>3, <1>4, SeqEqual
    <2>2. Hist' = Hist BY <1>2, <2>1
    <2> QED BY <1>b, <1>c, <1>1, <2>2, Stutters DEF Up
  <1>5. CASE Len(published) < Len(store)
    <2>1. SubSeq(store, 1, Len(published)) = published BY <1>d, <1>3, <1>5, PrefixOf
    <2>2. \A i \in (Len(published) + 1)..Len(store) :
             /\ Verdicts[store[i]] # "rejected"
             /\ \A j \in 1..(i - 1) : store[j] # store[i]
      <3> SUFFICES ASSUME NEW i \in (Len(published) + 1)..Len(store)
                   PROVE  /\ Verdicts[store[i]] # "rejected"
                          /\ \A j \in 1..(i - 1) : store[j] # store[i]
        OBVIOUS
      <3>1. i \in 1..Len(log) /\ \A j \in 1..(i - 1) : j \in 1..Len(log) /\ j # i
        BY <1>d, <1>e
      <3>2. PICK r \in Request : r = store[i] BY <1>d, <1>e, <3>1
      <3>3. InFile(r) BY <1>e, <3>1, <3>2 DEF InFile
      <3>4. Verdicts[r] # "rejected" BY <3>3, VerdictSound
      <3>5. \A j, k \in 1..Len(log) : log[j].request = log[k].request => j = k
        BY DEF IInv, File
      <3>6. \A j \in 1..(i - 1) : store[j] # store[i] BY <1>e, <3>1, <3>5
      <3> QED BY <3>2, <3>4, <3>6
    <2>3. /\ Up /\ Hist' \in Seq(Request) /\ Len(Hist') > Len(Hist)
          /\ SubSeq(Hist', 1, Len(Hist)) = Hist
          /\ \A i \in (Len(Hist) + 1)..Len(Hist') :
               /\ Verdicts[Hist'[i]] # "rejected"
               /\ \A j \in 1..(i - 1) : Hist'[j] # Hist'[i]
          /\ Verdicts' = Verdicts /\ Up' = Up
      <3>1. Up' = Up BY <1>a DEF Up
      <3> HIDE DEF Hist, Verdicts, Up
      <3>2. Len(store) > Len(published) BY <1>d, <1>5
      <3> QED BY <1>b, <1>d, <1>1, <1>2, <2>1, <2>2, <3>1, <3>2
    <2>4. Promised!Publish BY <2>3 DEF Promised!Publish, Hist, Verdicts, Up
    <2> QED BY <2>4 DEF Promised!ANext
  <1> QED BY <1>d, <1>e, <1>4, <1>5

\* A worker answers its client with what the file holds.
LEMMA AnswerMaps ==
    ASSUME IInv, NEW r \in Request, NEW m, Active(r), reply' = [reply EXCEPT ![r] = m],
           UNCHANGED <<server, log, published>>,
           \/ m.code \in Uncertain
           \/ m.code \in Refusal /\ ~InFile(r)
           \/ m.code = "committed" /\ m = promise[r]
    PROVE  Promised!Answer(r)
  <1>a. reply \in [Request -> Result \cup {None}] BY DEF IInv, Types, ClientTypes
  <1>b. Up /\ Verdicts[r] = "open" BY VerdictSound
  <1>c. Up' /\ Hist' = Hist BY <1>b DEF Up, Hist, Requests
  <1>1. Verdicts' = [Verdicts EXCEPT ![r] = VerdictOf(m.code)]
    <2>1. \A q \in Request : reply'[q].code = IF q = r THEN m.code ELSE reply[q].code
      BY <1>a
    <2>2. Verdicts' = [q \in Request |-> VerdictOf(reply'[q].code)]
      BY DEF Verdicts, VerdictOf
    <2>3. \A q \in Request :
             VerdictOf(reply'[q].code) = [Verdicts EXCEPT ![r] = VerdictOf(m.code)][q]
      <3> HIDE DEF VerdictOf
      <3>1. \A q \in Request : Verdicts[q] = VerdictOf(reply[q].code) BY DEF Verdicts
      <3>2. Verdicts \in [Request -> {VerdictOf(reply[q].code) : q \in Request}]
        BY DEF Verdicts
      <3> HIDE DEF Verdicts
      <3> QED BY <2>1, <3>1, <3>2
    <2>4. DOMAIN Verdicts = Request BY DEF Verdicts
    <2> QED
      <3> HIDE DEF VerdictOf, Verdicts
      <3>1. Verdicts' = [q \in Request |-> [Verdicts EXCEPT ![r] = VerdictOf(m.code)][q]]
        BY <2>2, <2>3
      <3> QED BY <2>4, <3>1
  <1>2. CASE m.code \in Uncertain
    <2>1. VerdictOf(m.code) = "unknown" BY <1>2 DEF VerdictOf, Uncertain, Refusal
    <2> QED BY <1>b, <1>c, <1>1, <2>1 DEF Promised!Answer, Hist, Verdicts, Up
  <1>3. CASE m.code \in Refusal /\ ~InFile(r)
    <2>1. VerdictOf(m.code) = "rejected" BY <1>3 DEF VerdictOf, Refusal
    <2>2. ~Promised!InHist(r, Hist) BY <1>3, HistInFile DEF Promised!InHist, InFile
    <2> QED BY <1>b, <1>c, <1>1, <2>1, <2>2 DEF Promised!Answer, Hist, Verdicts, Up
  <1>4. CASE m.code = "committed" /\ m = promise[r]
    <2>1. VerdictOf(m.code) = "acked" BY <1>4 DEF VerdictOf
    <2>2. Acked(r) BY <1>4 DEF Acked
    <2>3. m.version \in 1..forced BY <1>4, <2>2 DEF IInv, Told
    <2>4. m.version <= Len(published) /\ published[m.version] = r
      BY <1>b, <1>4, <2>2 DEF IInv, AckedIsPublished, Up
    <2>5. Hist = published BY <1>b DEF Hist
    <2>6. m.version \in 1..Len(Hist) /\ Hist[m.version] = r
      <3>1. forced \in Nat /\ Len(published) \in Nat
        BY DEF IInv, Types, DiskTypes, RootTypes
      <3> QED BY <2>3, <2>4, <2>5, <3>1
    <2>7. Promised!InHist(r, Hist) BY <2>6 DEF Promised!InHist
    <2> QED BY <1>b, <1>c, <1>1, <2>1, <2>7 DEF Promised!Answer, Hist, Verdicts, Up
  <1> QED BY <1>2, <1>3, <1>4

\* The steps nobody sees leave what readers see and every reply alone.
LEMMA QuietSteps ==
    ASSUME IInv, [Next]_vars, ~Boot, ~Crash, ~FinishShutdown, ~PublishSnapshot,
           \A r \in Request : ~SequenceCommit(r) /\ ~Receive(r) /\ ~WorkerInterrupted(r)
    PROVE  UNCHANGED <<Hist, Verdicts, Up>>
  <1>1. UNCHANGED <<published, reply>>
    BY DEF Next, vars, disk, process, tickets, thread, clients, bounds,
         Sequencer, Worker, Client, Shutdown, Submit, Cancel,
         PutTicket, LoopHead, TakeFirst, Collect, CloseCohort,
         StartCohort, RunMutation, EndRun, WriteFrames, WriteFails, ForceFrames, ForceFails,
         Reconcile, DeliverNext, DeliverErrors, NextRound, Drain,
         BeginShutdown, InterruptWorkers, StopSequencer
  <1>2. server' = server \/ (Up /\ Up')
    BY DEF Up, Next, vars, disk, process, tickets, thread, clients, bounds,
         Sequencer, Worker, Client, Shutdown, Submit, Cancel,
         PutTicket, LoopHead, TakeFirst, Collect, CloseCohort,
         StartCohort, RunMutation, EndRun, WriteFrames, WriteFails, ForceFrames, ForceFails,
         Reconcile, DeliverNext, DeliverErrors, NextRound, Drain,
         BeginShutdown, InterruptWorkers, StopSequencer
  <1>3. ~Up => log' = log
    <2>1. ~Up => pc = "off" BY DEF IInv, Fences
    <2> QED BY <2>1, LogSteps DEF WriteFrames, WriteFails, ForceFrames
  <1>4. Up' = Up BY <1>2 DEF Up
  <1>5. Verdicts' = Verdicts BY <1>1 DEF Verdicts, VerdictOf
  <1>6. Hist' = Hist BY <1>1, <1>3, <1>4 DEF Hist, Requests
  <1> QED BY <1>4, <1>5, <1>6

LEMMA StepMaps ==
    ASSUME IInv, IInv', [Next]_vars
    PROVE  [Promised!ANext]_(Promised!avars)
  <1>a. reply \in [Request -> Result \cup {None}] /\ promise \in [Request -> Result \cup {None}]
    BY DEF IInv, Types, ClientTypes
  <1>1. CASE Boot BY <1>1, StartMaps DEF Promised!ANext
  <1>2. CASE Crash \/ FinishShutdown BY <1>2, StopMaps DEF Promised!ANext
  <1>3. CASE PublishSnapshot BY <1>3, PublishMaps
  <1>4. ASSUME NEW r \in Request, SequenceCommit(r) PROVE [Promised!ANext]_(Promised!avars)
    <2>1. Active(r) /\ phase[r] = "serving" /\ UNCHANGED <<server, log, published>>
      BY <1>4 DEF SequenceCommit, Active, disk, process
    <2>2. ~InFile(r) BY <2>1 DEF IInv, File
    <2>3. CASE UNCHANGED reply
      <3>1. UNCHANGED <<Hist, Verdicts, Up>>
        BY <2>1, <2>3 DEF Hist, Verdicts, VerdictOf, Up, Requests
      <3> QED BY <3>1, Stutters
    <2>4. ASSUME NEW code \in Refusal, reply' = [reply EXCEPT ![r] = Error(code)]
          PROVE  Promised!Answer(r)
      <3>1. Error(code).code \in Refusal BY DEF Error
      <3> QED BY <2>1, <2>2, <2>4, <3>1, AnswerMaps
    <2>5. UNCHANGED reply \/ \E code \in Refusal : reply' = [reply EXCEPT ![r] = Error(code)]
      BY <1>4 DEF SequenceCommit, Finish, Refusal
    <2> QED BY <2>3, <2>4, <2>5 DEF Promised!ANext
  <1>5. ASSUME NEW r \in Request, Receive(r) PROVE [Promised!ANext]_(Promised!avars)
    <2>1. /\ Active(r) /\ UNCHANGED <<server, log, published>>
          /\ reply' = [reply EXCEPT ![r] = promise[r]] /\ promise[r] # None
      BY <1>5 DEF Receive, Finish, Active, disk, process
    <2>2. promise[r].code \in Code BY <1>a, <2>1 DEF Result
    <2>3. promise[r].code \in Refusal => ~InFile(r) BY DEF IInv, Told
    <2>4. Promised!Answer(r) BY <2>1, <2>2, <2>3, AnswerMaps DEF Code
    <2> QED BY <2>4 DEF Promised!ANext
  <1>6. ASSUME NEW r \in Request, WorkerInterrupted(r)
        PROVE  [Promised!ANext]_(Promised!avars)
    <2>1. /\ Active(r) /\ UNCHANGED <<server, log, published>>
          /\ reply' = [reply EXCEPT ![r] = Error("internal-error")]
      BY <1>6 DEF WorkerInterrupted, Finish, Active, disk, process
    <2>2. Error("internal-error").code \in Uncertain BY DEF Error, Uncertain
    <2>3. Promised!Answer(r) BY <2>1, <2>2, AnswerMaps
    <2> QED BY <2>3 DEF Promised!ANext
  <1>7. UNCHANGED <<Hist, Verdicts, Up>> => [Promised!ANext]_(Promised!avars)
    BY Stutters
  <1> QED BY <1>1, <1>2, <1>3, <1>4, <1>5, <1>6, <1>7, QuietSteps

\* The write path keeps the promise of AtomicHistory: what a client is told of
\* its transaction is what the history holds, through every crash and boot.
THEOREM RefinementTheorem == Spec => ImplementsAtomicHistory
  BY InitMaps, StepMaps, SequencerInvariant, PTL
     DEF Spec, ImplementsAtomicHistory, Promised!ASpec
=============================================================================
