----------------------------- MODULE DurableObject -----------------------------
(***************************************************************************)
(* The Cloudflare Durable Object adapter (clients/cloudflare-do): one      *)
(* object owns a FRAMLOG and a snapshot image in its storage and serves    *)
(* them through a WebAssembly guest whose storage hooks are synchronous,   *)
(* so the bytes live in isolate memory during a call and are committed     *)
(* after it.  Requests run through the object's operations queue; callers  *)
(* that keep the instance fram() gave them call it directly.  Restores,    *)
(* rejected transactions and the loss of the isolate are modelled.         *)
(*                                                                         *)
(* A log byte is one transaction, named by its writer; Header is the       *)
(* FRAMLOG header.  Every byte of an image is the log it was taken of.     *)
(* The guest (libfram.wasm) is external: a write appends one byte, a       *)
(* checkpoint truncates the image and writes a new one, opening an empty   *)
(* log writes the header.                                                  *)
(***************************************************************************)
EXTENDS ChunkedRange, FiniteSets, SequencesExt

CONSTANTS Writer,         \* callers of transact() and exchange(), one write each
          Holder,         \* callers that keep an instance, one write each
          FirstChunkBytes, ChunkSizes, \* chunk size configured first, and later
          ImageSizes,     \* lengths of a snapshot image
          Supplied,       \* logs offered to restoreFramlog from outside
          MaxInstances,   \* instances alive in one isolate
          MaxCheckpoints, MaxRestores, MaxRecycles, MaxCrashes, MaxFaults,
          MaxEvents       \* all of these together

ASSUME ObjectAssumption ==
    /\ Writer \cap Holder = {} /\ {"op", "fence"} \cap Holder = {}
    /\ ChunkSizes \subseteq Nat \ {0} /\ FirstChunkBytes \in ChunkSizes
    /\ ImageSizes \subseteq Nat \ {0}
    /\ \A bytes \in Supplied : bytes \in Seq(Range(bytes))
    /\ MaxInstances \in Nat \ {0}

VARIABLES log, image,     \* the two key ranges in DurableObjectStorage
          marker,         \* the pending-restore marker, or NoLog
          config,         \* the chunk size this isolate is configured with
          fence,          \* administrativeFence: "open", "admin" or "restore"
          live, booting,  \* the object's instance and boot in progress, or 0
          inst,           \* the FramInstances of this isolate
          op,             \* the operation at the head of the operations queue
          hold,           \* what each holder is doing
          asked,          \* writers and holders that have sent their write
          backup,         \* the last exported log, or NoLog
          spent,          \* how much of each bound is used
          told,           \* history: transactions some answer vouched for
          landed,         \* history: what the last landed commits published
          crossed         \* history: a recycle met the boot of a direct caller

stored == <<log, image, marker>>
object == <<fence, live, booting>>
history == <<told, landed, crossed>>
vars == <<log, image, marker, config, fence, live, booting, inst, op, hold,
          asked, backup, spent, told, landed, crossed>>

Header == "header"
NoLog == <<"no log">>
Txns(bytes) == {bytes[k] : k \in DOMAIN bytes} \ {Header}

\* A supplied log that replays byte for byte at its declared version begins
\* with the header and holds no damaged frame.
Damaged == "damaged"
Replays(bytes) == bytes # <<>> /\ bytes[1] = Header /\ Damaged \notin Txns(bytes)

NoPlan == [writes |-> NoChunks, stale |-> {}, count |-> -1, meta |-> NoMeta,
           clears |-> FALSE]

NoHandle == [chunkBytes |-> 0, chunkCount |-> 0]

NewInstance ==
    [phase |-> "marker", log |-> HostImage(<<>>), image |-> HostImage(<<>>),
     logHandle |-> NoHandle, imageHandle |-> NoHandle,
     poisoned |-> FALSE, closed |-> FALSE, gate |-> <<>>,
     logPlan |-> NoPlan, imagePlan |-> NoPlan]

\* No instance: what a slot holds that nobody has taken.
Free == [NewInstance EXCEPT !.phase = "free"]

Idle == [kind |-> "none", pc |-> "none", at |-> 0, who |-> "none",
         bytes |-> <<>>, replace |-> FALSE, expected |-> <<>>,
         prior |-> "open", target |-> <<EmptyRange, EmptyRange>>]

Away == [state |-> "away", at |-> 0, call |-> "none"]

Init ==
    /\ log = EmptyRange /\ image = EmptyRange /\ marker = NoLog
    /\ config = FirstChunkBytes
    /\ fence = "open" /\ live = 0 /\ booting = 0
    /\ inst = [i \in 1 .. MaxInstances |-> Free]
    /\ op = Idle
    /\ hold = [h \in Holder |-> Away]
    /\ asked = {} /\ backup = NoLog /\ told = {}
    /\ spent = [checkpoints |-> 0, restores |-> 0, recycles |-> 0, crashes |-> 0,
                faults |-> 0]
    /\ landed = [log |-> <<>>, image |-> <<>>]
    /\ crossed = FALSE

\* Checkpoints, restores, recyclings, crashes and faults are bounded one by
\* one and together.
Spend(what, bound) ==
    /\ spent[what] < bound
    /\ spent.checkpoints + spent.restores + spent.recycles + spent.crashes
         + spent.faults < MaxEvents
    /\ spent' = [spent EXCEPT ![what] = @ + 1]

-----------------------------------------------------------------------------
(* fram(): refused by a fence, answered by the live instance, joins the    *)
(* boot in progress or starts one.  Referenced instances keep their slot;  *)
(* the rest is garbage.                                                    *)

Booting == {"marker", "load", "opening"}

Referenced(i) ==
    \/ i \in {live, booting, op.at}
    \/ \E h \in Holder : hold[h].at = i
    \/ inst[i].phase # "free" /\ (inst[i].gate # <<>> \/ inst[i].phase \in Booting)

Unused == {i \in 1 .. MaxInstances : ~Referenced(i)}

\* Mutant: a boot in progress is not joined.
FramBootsAgain(i) ==
    /\ fence = "open"
    /\ \/ live # 0 /\ i = live /\ UNCHANGED <<booting, inst>>
       \/ /\ live = 0 /\ i \in Unused
          /\ booting' = i
          /\ inst' = [inst EXCEPT ![i] = NewInstance]

\* The instance the caller gets or waits for; a new boot takes a free slot.
FramGives(i) ==
    /\ fence = "open"
    /\ \/ live # 0 /\ i = live /\ UNCHANGED <<booting, inst>>
       \/ live = 0 /\ booting # 0 /\ i = booting /\ UNCHANGED <<booting, inst>>
       \/ /\ live = 0 /\ booting = 0 /\ Unused # {}
          /\ i = CHOOSE j \in Unused : \A k \in Unused : j <= k
          /\ booting' = i
          /\ inst' = [inst EXCEPT ![i] = NewInstance]

Opened(i) == inst[i].phase \notin Booting \cup {"free"}

\* #drop()
Drop == live' = 0 /\ booting' = 0

-----------------------------------------------------------------------------
(* Booting.                                                                *)

\* Mutant: the operation that awaited the boot is not told.
BootFailsSilently(i, newFence) ==
    /\ fence' = newFence
    /\ booting' = 0
    /\ inst' = [inst EXCEPT ![i] = Free]
    /\ UNCHANGED <<live, hold, op>>

\* A failed boot: whoever awaited it gets its error, except a restore, which
\* goes on without a live guest.
BootFails(i, newFence) ==
    /\ fence' = newFence
    /\ booting' = 0
    /\ live' = IF op.kind = "restore" /\ op.at = i THEN 0 ELSE live
    /\ inst' = [inst EXCEPT ![i] = Free]
    /\ hold' = [h \in Holder |-> IF hold[h].at = i THEN Away ELSE hold[h]]
    /\ op' = IF op.at # i THEN op
             ELSE IF op.kind = "restore" THEN [op EXCEPT !.pc = "target", !.at = 0]
             ELSE Idle

\* Mutant: boot without a look at the marker.
BootUnmarked(i) ==
    /\ inst[i].phase = "marker"
    /\ inst' = [inst EXCEPT ![i].phase = "load"]
    /\ UNCHANGED <<stored, object, hold, op, config, asked, backup, spent, history>>

\* #bootData(): a pending restore fences the object.
BootMarker(i) ==
    /\ inst[i].phase = "marker"
    /\ \/ /\ marker = NoLog
          /\ inst' = [inst EXCEPT ![i].phase = "load"]
          /\ UNCHANGED <<object, hold, op>>
       \/ marker # NoLog /\ BootFails(i, "restore")
    /\ UNCHANGED <<stored, config, asked, backup, spent, history>>

\* Both ranges as open() finds them, and what the guest does to them.
Loaded(i) ==
    LET o == HostImage(LoadBytes(log))
    IN  [inst[i] EXCEPT
            !.log = IF o.bytes = <<>> THEN AppendBytes(o, <<Header>>) ELSE o,
            !.image = HostImage(LoadBytes(image)),
            !.logHandle = Handle(log, config),
            !.imageHandle = Handle(image, config)]

\* #commit(): stage the dirty ranges, from their low-water marks.
Stage(x) ==
    LET planOf(o, h) == IF Dirty(o) THEN Plan(h, o.bytes, o.low) ELSE NoPlan
    IN  [x EXCEPT !.logPlan = planOf(x.log, x.logHandle),
                  !.imagePlan = planOf(x.image, x.imageHandle),
                  !.log = TakeCommit(@), !.image = TakeCommit(@)]

\* The boot is done: the instance is the object's, whatever it was before.
BootDone(i) == live' = i /\ booting' = 0

\* open(): load both ranges, run fram_open, and commit what it wrote.
BootLoad(i) ==
    /\ inst[i].phase = "load"
    /\ IF Torn(log) \/ Torn(image)
       THEN BootFails(i, fence) /\ UNCHANGED spent
       ELSE  \/ /\ Dirty(Loaded(i).log)
                /\ inst' = [inst EXCEPT ![i] = [Stage(Loaded(i)) EXCEPT !.phase = "opening"]]
                /\ UNCHANGED <<object, spent, hold, op>>
             \/ /\ ~Dirty(Loaded(i).log)
                /\ inst' = [inst EXCEPT ![i] = [Loaded(i) EXCEPT !.phase = "idle"]]
                /\ BootDone(i)
                /\ UNCHANGED <<fence, spent, hold, op>>
             \/ Spend("faults", MaxFaults) /\ BootFails(i, fence)
    /\ UNCHANGED <<stored, config, asked, backup, history>>

-----------------------------------------------------------------------------
(* Calls into an instance: one at a time, in the order they were admitted. *)

\* The gate of instance i gains a caller: "op", "fence" or a holder.
Admit(i, caller) == inst' = [inst EXCEPT ![i].gate = Append(@, caller)]

CallOf(caller) == IF caller \in Holder THEN hold[caller].call ELSE op.kind
WriterOf(caller) == IF caller \in Holder THEN caller ELSE op.who

\* What the guest does to the two host images during a call.
GuestCall(x, caller) ==
    CASE CallOf(caller) = "write" ->
            {[x EXCEPT !.log = AppendBytes(@, <<WriterOf(caller)>>)]}
      [] CallOf(caller) = "checkpoint" ->
            {[x EXCEPT !.image = AppendBytes(Truncate(@, 0), [k \in 1 .. n |-> x.log.bytes])] :
                n \in ImageSizes}
      [] OTHER -> {x}

\* The caller at the head of the gate of i is answered with bytes; a holder
\* keeps its instance, an operation leaves the queue.
Answer(i, caller, bytes) ==
    /\ told' = told \cup Txns(bytes)
    /\ hold' = IF caller \in Holder
               THEN [hold EXCEPT ![caller].state = "holds", ![caller].call = "none"] ELSE hold
    /\ op' = IF caller = "op" THEN Idle ELSE op
    /\ backup' = IF caller = "op" /\ op.kind = "export" THEN bytes ELSE backup

\* The caller gets an error.  #use() drops a poisoned instance; export does not.
Fail(caller, poisoned) ==
    /\ hold' = IF caller \in Holder
               THEN [hold EXCEPT ![caller].state = "holds", ![caller].call = "none"] ELSE hold
    /\ op' = IF caller = "op" THEN Idle ELSE op
    /\ IF caller = "op" /\ poisoned /\ op.kind \notin {"export", "recycle"}
       THEN Drop ELSE UNCHANGED <<live, booting>>
    /\ UNCHANGED <<told, backup>>


\* A poisoned or closed instance refuses every call: its bytes are forgotten.
Dead(x) == [x EXCEPT !.log = HostImage(<<>>), !.image = HostImage(<<>>),
                     !.logHandle = NoHandle, !.imageHandle = NoHandle]

\* The call at the head is over; closes tells whether it closed the guest.
Finished(x, closes) ==
    LET y == [x EXCEPT !.gate = Tail(@), !.phase = "idle", !.closed = @ \/ closes,
                       !.logPlan = NoPlan, !.imagePlan = NoPlan]
    IN  IF y.closed \/ y.poisoned THEN Dead(y) ELSE y

Closes(caller) == CallOf(caller) \in {"close", "recycle"}

\* The head of the gate runs: refused by a poisoned or closed instance, else
\* the guest runs and what it dirtied is staged.  A guest that traps after it
\* wrote leaves its bytes in the host images, and the caller with an error.
RunCall(i) ==
    /\ inst[i].phase = "idle" /\ inst[i].gate # <<>>
    /\ LET caller == Head(inst[i].gate)
           usable == ~inst[i].poisoned /\ ~inst[i].closed
       IN  /\ caller # "fence"
           /\ \/ /\ ~usable
                 /\ Fail(caller, inst[i].poisoned)
                 /\ inst' = [inst EXCEPT ![i].gate = Tail(@)]
                 /\ UNCHANGED spent
              \/ /\ usable
                 /\ \E x \in GuestCall(inst[i], caller) :
                      IF Dirty(x.log) \/ Dirty(x.image)
                      THEN /\ inst' = [inst EXCEPT ![i] = [Stage(x) EXCEPT !.phase = "staged"]]
                           /\ UNCHANGED <<live, booting, hold, op, backup, told>>
                      ELSE /\ inst' = [inst EXCEPT ![i] = Finished(x, Closes(caller))]
                           /\ Answer(i, caller, x.log.bytes)
                           /\ UNCHANGED <<live, booting>>
                 /\ UNCHANGED spent
              \/ /\ usable /\ CallOf(caller) \in {"write", "checkpoint"}
                 /\ Spend("faults", MaxFaults)
                 /\ \E x \in GuestCall(inst[i], caller) :
                        inst' = [inst EXCEPT ![i] = [x EXCEPT !.gate = Tail(@)]]
                 /\ Fail(caller, FALSE)
    /\ UNCHANGED <<stored, config, fence, asked, landed, crossed>>

\* The storage transaction of instance i: both ranges or neither.
Applied(r, plan) == IF plan = NoPlan THEN r ELSE ApplyPlan(r, plan)
Settled(h, plan) == IF plan = NoPlan THEN h ELSE Settle(h, plan)

Lands(i) ==
    /\ log' = Applied(log, inst[i].logPlan)
    /\ image' = Applied(image, inst[i].imagePlan)
    /\ landed' = [log |-> IF inst[i].logPlan = NoPlan THEN landed.log ELSE inst[i].log.bytes,
                  image |-> IF inst[i].imagePlan = NoPlan THEN landed.image
                            ELSE inst[i].image.bytes]

AfterLanding(x) == [x EXCEPT !.logHandle = Settled(@, x.logPlan),
                             !.imageHandle = Settled(@, x.imagePlan)]

\* Mutant: an instance whose bytes did not land goes on.
AfterRejectionGoesOn(x) == x

\* Nothing landed: the instance is fenced.
AfterRejection(x) == [x EXCEPT !.poisoned = TRUE]

\* The end of a call that wrote.
CommitCall(i) ==
    /\ inst[i].phase = "staged"
    /\ LET caller == Head(inst[i].gate)
       IN  \/ /\ Lands(i)
              /\ inst' = [inst EXCEPT ![i] = Finished(AfterLanding(@), Closes(caller))]
              /\ Answer(i, caller, inst[i].log.bytes)
              /\ UNCHANGED <<live, booting, spent>>
           \/ /\ Spend("faults", MaxFaults)
              /\ inst' = [inst EXCEPT ![i] = Finished(AfterRejection(@), FALSE)]
              /\ Fail(caller, TRUE)
              /\ UNCHANGED <<log, image, landed>>
    /\ UNCHANGED <<marker, config, fence, asked, crossed>>

\* The end of open(): its own writes are durable, or the boot fails.
CommitOpen(i) ==
    /\ inst[i].phase = "opening"
    /\ \/ /\ Lands(i)
          /\ inst' = [inst EXCEPT ![i] = [AfterLanding(@) EXCEPT
                          !.phase = "idle", !.logPlan = NoPlan]]
          /\ BootDone(i)
          /\ UNCHANGED <<fence, hold, op, spent>>
       \/ /\ Spend("faults", MaxFaults)
          /\ BootFails(i, fence)
          /\ UNCHANGED <<log, image, landed>>
    /\ UNCHANGED <<marker, config, asked, backup, told, crossed>>

-----------------------------------------------------------------------------
(* Operations, one at a time.                                              *)

\* #use() and exportFramlog(): refused by a fence, else an instance is awaited.
Use(kind, who) ==
    /\ op = Idle
    /\ \/ fence # "open" /\ UNCHANGED <<op, booting, inst>>
       \/ \E i \in 1 .. MaxInstances :
            /\ FramGives(i)
            /\ op' = [Idle EXCEPT !.kind = kind, !.pc = "boot", !.at = i, !.who = who]
    /\ UNCHANGED <<stored, config, fence, live, hold, backup, history>>

Transact(w) == w \notin asked /\ asked' = asked \cup {w} /\ Use("write", w) /\ UNCHANGED spent
Checkpoint == Spend("checkpoints", MaxCheckpoints) /\ Use("checkpoint", "none") /\ UNCHANGED asked
Query == Use("query", "none") /\ UNCHANGED <<asked, spent>>
ExportFramlog == Use("export", "none") /\ UNCHANGED <<asked, spent>>

UseBooted ==
    /\ op.pc = "boot" /\ Opened(op.at)
    /\ Admit(op.at, "op")
    /\ op' = [op EXCEPT !.pc = "call"]
    /\ UNCHANGED <<stored, config, object, hold, asked, backup, spent, history>>

LiveUsable == live # 0 /\ ~inst[live].closed /\ ~inst[live].poisoned

\* recycle(): the references are dropped first, also that to a boot somebody
\* still awaits, then the guest is closed.
Recycle ==
    /\ op = Idle
    /\ Spend("recycles", MaxRecycles)
    /\ Drop
    /\ \/ /\ LiveUsable
          /\ Admit(live, "op")
          /\ op' = [Idle EXCEPT !.kind = "recycle", !.pc = "call", !.at = live]
       \/ ~LiveUsable /\ UNCHANGED <<inst, op>>
    /\ crossed' = (crossed \/ booting # 0)
    /\ UNCHANGED <<stored, config, fence, hold, asked, backup, told, landed>>

-----------------------------------------------------------------------------
(* Callers that keep the instance fram() gave them.                        *)

\* fram() waits for no operation: also not for the guest a recycle is closing.
HolderFram(h) ==
    /\ hold[h] = Away
    /\ \E i \in 1 .. MaxInstances :
         /\ FramGives(i)
         /\ hold' = [hold EXCEPT ![h] = [state |-> "waiting", at |-> i, call |-> "none"]]
    /\ crossed' = (crossed \/ op.kind = "recycle")
    /\ UNCHANGED <<stored, config, fence, live, op, asked, backup, spent, told, landed>>

HolderBooted(h) ==
    /\ hold[h].state = "waiting" /\ Opened(hold[h].at)
    /\ hold' = [hold EXCEPT ![h].state = "holds"]
    /\ UNCHANGED <<stored, config, object, inst, op, asked, backup, spent, history>>

HolderCall(h, call) ==
    /\ hold[h].state = "holds"
    /\ call = "write" => h \notin asked
    /\ asked' = IF call = "write" THEN asked \cup {h} ELSE asked
    /\ hold' = [hold EXCEPT ![h].state = "calls", ![h].call = call]
    /\ Admit(hold[h].at, h)
    /\ UNCHANGED <<stored, config, object, op, backup, spent, history>>

-----------------------------------------------------------------------------
(* restoreFramlog().                                                       *)

\* #loadTarget(): what counts as an occupied target.
TargetOccupied == LoadBytes(log) # <<>> \/ Occupied(image) \/ marker # NoLog

Known == {backup} \ {NoLog}

\* The identities an administrator can name: the exported log, the one a fence
\* reports, and the empty log.
Nameable == Known \cup {<<>>} \cup (IF fence = "restore" /\ marker # NoLog THEN {marker} ELSE {})

\* The backup is captured, verified and replayed through a throwaway guest.
RestoreFramlog(bytes, replace, expected) ==
    /\ op = Idle
    /\ IF Replays(bytes) THEN Spend("restores", MaxRestores) ELSE UNCHANGED spent
    /\ op' = IF ~Replays(bytes) THEN Idle
             ELSE [Idle EXCEPT !.kind = "restore", !.bytes = bytes, !.replace = replace,
                               !.expected = expected,
                               !.pc = IF replace THEN "fence" ELSE "peek"]
    /\ UNCHANGED <<stored, config, object, inst, hold, asked, backup, history>>

RestorePeek ==
    /\ op.pc = "peek"
    /\ op' = IF Torn(log) \/ TargetOccupied THEN Idle ELSE [op EXCEPT !.pc = "fence"]
    /\ UNCHANGED <<stored, config, object, inst, hold, asked, backup, spent, history>>

\* Mutant: the live guest is dropped, not fenced.
RestoreDrops ==
    /\ op.pc = "fence"
    /\ fence' = IF fence = "open" THEN "admin" ELSE fence
    /\ op' = [op EXCEPT !.pc = "target"]
    /\ Drop
    /\ UNCHANGED <<stored, config, inst, hold, asked, backup, spent, history>>

\* #fenceLiveForRestore(): no new caller, then behind every admitted call.
RestoreFence ==
    /\ op.pc = "fence"
    /\ fence' = IF fence = "open" THEN "admin" ELSE fence
    /\ \/ /\ live # 0 /\ Admit(live, "fence")
          /\ op' = [op EXCEPT !.pc = "fencing", !.at = live]
          /\ UNCHANGED <<live, booting>>
       \/ /\ live = 0 /\ booting # 0
          /\ op' = [op EXCEPT !.pc = "awaitBoot", !.at = booting]
          /\ UNCHANGED <<live, booting, inst>>
       \/ /\ live = 0 /\ booting = 0
          /\ op' = [op EXCEPT !.pc = "target"]
          /\ Drop /\ UNCHANGED inst
    /\ UNCHANGED <<stored, config, hold, asked, backup, spent, history>>

RestoreBooted ==
    /\ op.pc = "awaitBoot" /\ Opened(op.at)
    /\ Admit(op.at, "fence")
    /\ op' = [op EXCEPT !.pc = "fencing"]
    /\ UNCHANGED <<stored, config, object, hold, asked, backup, spent, history>>

\* fence(): its turn at the gate.
RestoreFenced(i) ==
    /\ inst[i].phase = "idle" /\ inst[i].gate # <<>> /\ Head(inst[i].gate) = "fence"
    /\ inst' = [inst EXCEPT ![i] = Dead([inst[i] EXCEPT !.poisoned = TRUE,
                                                    !.gate = Tail(inst[i].gate)])]
    /\ Drop
    /\ op' = [op EXCEPT !.pc = "target", !.at = 0]
    /\ UNCHANGED <<stored, config, fence, hold, asked, backup, spent, history>>

\* A restore that stops before publication lifts its own fence only.
RestoreStops ==
    /\ fence' = IF op.prior = "restore" THEN "restore" ELSE "open"
    /\ Drop
    /\ op' = Idle

\* The authoritative check, after the fence.
RestoreTarget ==
    /\ op.pc = "target"
    /\ LET refused == \/ Torn(log)
                      \/ TargetOccupied /\ ~op.replace
                      \/ op.replace /\ LoadBytes(log) # op.expected
       IN  \/ /\ refused
              /\ fence' = IF fence = "restore" THEN "restore" ELSE "open"
              /\ Drop /\ op' = Idle
           \/ /\ ~refused
              /\ op' = [op EXCEPT !.pc = "publish", !.prior = fence, !.target = <<log, image>>]
              /\ UNCHANGED object
    /\ UNCHANGED <<stored, config, inst, hold, asked, backup, spent, history>>

\* replace(): the new log, the cleared image and the marker in one transaction.
RestorePublish ==
    /\ op.pc = "publish"
    /\ \/ /\ log' = ApplyPlan(log, Plan(Handle(op.target[1], config), op.bytes, 0))
          /\ image' = ApplyPlan(image, ClearPlan(op.target[2]))
          /\ marker' = op.bytes
          /\ landed' = [log |-> op.bytes, image |-> <<>>]
          /\ told' = told \cap Txns(op.bytes)
          /\ op' = [op EXCEPT !.pc = "reopen"]
          /\ UNCHANGED <<object, spent, crossed>>
       \/ /\ Spend("faults", MaxFaults)
          /\ RestoreStops
          /\ UNCHANGED <<stored, history>>
    /\ UNCHANGED <<config, inst, hold, asked, backup>>

\* #bootForRestore(): a guest over a read-only store.
BootForRestore ==
    [NewInstance EXCEPT !.phase = "idle",
        !.log = HostImage(LoadBytes(log)), !.image = HostImage(LoadBytes(image)),
        !.logHandle = Handle(log, config), !.imageHandle = Handle(image, config)]

\* The published log is opened again and compared byte for byte.
RestoreReopen ==
    /\ op.pc = "reopen" /\ Unused # {}
    /\ LET i == CHOOSE j \in Unused : \A k \in Unused : j <= k
           verified == ~Torn(log) /\ ~Torn(image) /\ LoadBytes(log) = op.bytes
       IN  \/ /\ verified
              /\ inst' = [inst EXCEPT ![i] = BootForRestore]
              /\ op' = [op EXCEPT !.pc = "clear", !.at = i]
              /\ UNCHANGED <<object, spent>>
           \/ /\ IF verified THEN Spend("faults", MaxFaults) ELSE UNCHANGED spent
              /\ fence' = "restore" /\ Drop /\ op' = Idle
              /\ UNCHANGED inst
    /\ UNCHANGED <<stored, config, hold, asked, backup, history>>

\* The marker is removed in a transaction of its own; only then is the object
\* open again, with the verified guest.
RestoreClear ==
    /\ op.pc = "clear"
    /\ LET mine == marker \in {NoLog, op.bytes}
       IN  \/ /\ mine
              /\ marker' = NoLog
              /\ live' = op.at /\ fence' = "open"
              /\ UNCHANGED <<booting, inst, spent>>
           \/ /\ IF mine THEN Spend("faults", MaxFaults) ELSE UNCHANGED spent
              /\ fence' = "restore" /\ Drop
              /\ inst' = [inst EXCEPT ![op.at] = Dead([@ EXCEPT !.poisoned = TRUE])]
              /\ UNCHANGED marker
    /\ op' = Idle
    /\ UNCHANGED <<log, image, config, hold, asked, backup, history>>

-----------------------------------------------------------------------------
(* The isolate is lost: only the storage is left, and the next deployment  *)
(* may configure another chunk size.                                       *)
Crash ==
    /\ Spend("crashes", MaxCrashes)
    /\ config' \in ChunkSizes
    /\ fence' = "open" /\ live' = 0 /\ booting' = 0
    /\ inst' = [i \in 1 .. MaxInstances |-> Free]
    /\ op' = Idle
    /\ hold' = [h \in Holder |-> Away]
    /\ UNCHANGED <<stored, asked, backup, history>>

Step(i) == BootMarker(i) \/ BootLoad(i) \/ RunCall(i) \/ CommitCall(i) \/ CommitOpen(i)
           \/ RestoreFenced(i)

Administer ==
    \/ UseBooted \/ RestorePeek \/ RestoreFence \/ RestoreBooted \/ RestoreTarget
    \/ RestorePublish \/ RestoreReopen \/ RestoreClear

Next ==
    \/ \E i \in 1 .. MaxInstances : Step(i)
    \/ Administer
    \/ \E w \in Writer : Transact(w)
    \/ Checkpoint \/ Query \/ ExportFramlog \/ Recycle
    \/ \E bytes \in Supplied \cup Known : RestoreFramlog(bytes, FALSE, <<>>)
    \/ \E bytes \in Supplied \cup Known, expected \in Nameable : RestoreFramlog(bytes, TRUE, expected)
    \/ \E h \in Holder : HolderFram(h) \/ HolderBooted(h)
    \/ \E h \in Holder, call \in {"write", "close"} : HolderCall(h, call)
    \/ Crash

Spec == Init /\ [][Next]_vars

\* The isolate's event loop runs every continuation it has: the steps of an
\* instance and of the operation at the head of the queue are not put off.
FairSpec ==
    /\ Spec
    /\ \A i \in 1 .. MaxInstances : WF_vars(Step(i))
    /\ WF_vars(Administer)

-----------------------------------------------------------------------------
(* Properties.  A recycle that meets the boot of a direct caller leaves two *)
(* guests over one storage (OneLiveImage fails), and what follows promises  *)
(* nothing: the properties of the stored bytes speak of the behaviours, and *)
(* of each behaviour up to the point, where that has not happened.          *)

\* fram() boots at most once however many requests race: at most one guest that
\* can still write is kept over the storage.  The code does not keep this.
OneLiveImage ==
    Cardinality({i \in 1 .. MaxInstances :
                    /\ Referenced(i) /\ inst[i].phase # "free"
                    /\ ~inst[i].poisoned /\ ~inst[i].closed}) <= 1

\* Two guests come of nothing but a recycle that drops a boot somebody awaits,
\* or a direct fram() while a recycle is closing a guest: neither rejected
\* transactions, retained instances, failed boots, fences, restores nor a
\* recycle that meets no boot leave a second one.
OneLiveImageUnlessCrossed == ~crossed => OneLiveImage

\* Both ranges always read back as exactly what the last landed commit meant
\* to publish, although a commit rewrites only the chunks from its low-water
\* mark on and the chunk size may change between deployments; and every image
\* byte in storage was taken of a prefix of the log in storage, so no boot
\* restores a state the log does not reach.
StoreReadsBack ==
    ~crossed =>
        /\ ~Torn(log) /\ LoadBytes(log) = landed.log
        /\ ~Torn(image) /\ LoadBytes(image) = landed.image
        /\ \A k \in DOMAIN landed.image : IsPrefix(landed.image[k], landed.log)

\* Whatever an answer vouched for (a write acknowledged, a log read) is in the
\* durable log: across rejected transactions, traps, recycling and the loss of
\* the isolate, until an administrator replaces the log.
AnsweredIsDurable == ~crossed => told \subseteq Txns(LoadBytes(log))

\* While a restore is pending in storage the durable log is the restored one
\* and no guest can be reached through the object: the marker of an
\* interrupted restore fences every later isolate.
PendingRestoreFences ==
    ~crossed /\ marker # NoLog =>
        /\ LoadBytes(log) = marker
        /\ live = 0
        /\ \A h \in Holder : hold[h].state # "away" =>
                \/ inst[hold[h].at].phase \in {"marker"} \/ inst[hold[h].at].poisoned
                \/ inst[hold[h].at].closed

\* A durable log is only ever extended, or replaced by a restore whose
\* administrator named exactly the log that is replaced (or found none).
ReplaceOnlyExpected ==
    [][ ~crossed =>
        \/ IsPrefix(LoadBytes(log), LoadBytes(log)')
        \/ op.pc = "publish" /\ op.replace /\ LoadBytes(log) = op.expected ]_vars

\* Every operation at the head of the queue is answered in the end, so that the
\* operations behind it run: no boot, gate or fence is waited for forever,
\* however many guests there are.
OperationsSettle == op # Idle ~> op = Idle
=============================================================================
