---------------------------- MODULE NativeServer ----------------------------
(***************************************************************************)
(* The deployed server: one process that owns a FRAMLOG and, beside it, a  *)
(* snapshot image.  native/server_host.c runs an acceptor and one worker   *)
(* thread per admitted connection; native/server_generated.c dispatches    *)
(* one request at a time under dispatch_mutex, appends and syncs the log,  *)
(* replaces the current store generation, and compacts the chain of        *)
(* generations by booting again from the log; src/fram/native_server.bgl   *)
(* decides what a request appends and how a boot combines image and log.   *)
(*                                                                         *)
(* A connection carries one request, so a client stands for both.  A       *)
(* transaction is named by the client that asked for it, a history is the  *)
(* sequence of those names, and a log position counts frames.  The log is  *)
(* taken as created: its header is on the disk.                            *)
(***************************************************************************)
EXTENDS Integers, Sequences, FiniteSets

CONSTANTS Client,               \* connections, each with one request
          Asks,                 \* the requests peers make, versioned or not
          MaxClients,           \* max_active_clients
          CompactGenerations,   \* limits.compact_generations
          QuietPolls,           \* IDLE_COMPACT_QUIET_POLLS
          MaxFaults,            \* bound on crashes and power failures
          None                  \* nobody, no expected version

Op == {"read", "write", "checkpoint"}

ASSUME NativeAssumption ==
    /\ MaxClients \in Nat \ {0}
    /\ CompactGenerations \in Nat \ {0}
    /\ QuietPolls \in Nat \ {0}
    /\ MaxFaults \in Nat
    /\ Asks \subseteq [op : Op, versioned : BOOLEAN]
    /\ \A a \in Asks : a.op = "checkpoint" => ~a.versioned
    /\ None \notin Client
    /\ None \notin Nat

VARIABLES
    proc,       \* main: no process, store opened, serving, draining clients
    \* the disk
    log,        \* the frames of the FRAMLOG
    tail,       \* what follows the last whole frame: nothing, or part of one
    synced,     \* frames a power failure cannot take
    dirty,      \* log bytes or a truncation not yet synced
    image,      \* the snapshot object as read
    imageDisk,  \* the snapshot object a power failure would leave
    \* fram_server_store
    current,    \* the history of the current generation
    mark,       \* its log-byte-count
    chain,      \* chain_generations
    base,       \* compaction_base_generations
    poisoned,
    \* server_context and the acceptor
    mutex,      \* owner of dispatch_mutex
    clients,    \* the list of jobs
    clientCount,
    fatal,
    stop,       \* stop_requested
    armed,      \* idle_compaction_armed
    quiet,      \* quiet_polls
    \* connections
    conn,       \* where the connection is
    wire,       \* what the peer has sent and whether it is still there
    req,        \* the request
    pc,         \* where its worker is
    answer,     \* the encoded response
    reply,      \* the response the client has
    faults      \* crashes and power failures so far

diskvars   == <<log, tail, synced, dirty, image, imageDisk>>
storevars  == <<current, mark, chain, base, poisoned>>
acceptvars == <<clients, clientCount, fatal, stop, armed, quiet>>
connvars   == <<conn, wire, req, answer, reply>>
vars == <<proc, diskvars, storevars, mutex, acceptvars, connvars, pc, faults>>

NoReq  == [op |-> "read", expected |-> None]
NoMsg  == [code |-> "none", version |-> 0]
NoFile == [state |-> "empty", txs |-> <<>>, mark |-> 0]
Torn   == [state |-> "torn", txs |-> <<>>, mark |-> 0]

Version == Nat
History == Seq(Client)
Image   == [state : {"empty", "torn", "whole"}, txs : History, mark : Version]
Message == [code : {"none", "ok", "committed", "conflict", "refused"}, version : Version]
Working == {"reading", "ready", "dispatch", "append", "sync", "image",
            "imageSync", "encode", "respond", "release", "end", "fatalEnd"}

\* Threads, files and counters always have the shapes the structures of
\* server_host.c and server_generated.c declare.
TypeOK ==
    /\ proc \in {"down", "opened", "serving", "draining"}
    /\ log \in History /\ current \in History
    /\ tail \in {"clean", "torn"}
    /\ synced \in Version /\ mark \in Version
    /\ dirty \in BOOLEAN /\ poisoned \in BOOLEAN
    /\ image \in Image /\ imageDisk \in Image
    /\ chain \in Nat /\ base \in Nat
    /\ mutex \in Client \cup {None}
    /\ clients \subseteq Client /\ clientCount \in Nat
    /\ fatal \in BOOLEAN /\ stop \in BOOLEAN /\ armed \in BOOLEAN
    /\ quiet \in 0..QuietPolls
    /\ conn \in [Client -> {"none", "backlog", "admitted", "closed"}]
    /\ wire \in [Client -> {"silent", "closed", "whole"}]
    /\ req \in [Client -> [op : Op, expected : Version \cup {None}]]
    /\ pc \in [Client -> Working \cup {"idle"}]
    /\ answer \in [Client -> Message] /\ reply \in [Client -> Message]
    /\ faults \in 0..MaxFaults

Init ==
    /\ proc = "down"
    /\ log = <<>> /\ tail = "clean" /\ synced = 0 /\ dirty = FALSE
    /\ image = NoFile /\ imageDisk = NoFile
    /\ current = <<>> /\ mark = 0 /\ chain = 1 /\ base = 1 /\ poisoned = FALSE
    /\ mutex = None
    /\ clients = {} /\ clientCount = 0
    /\ fatal = FALSE /\ stop = FALSE /\ armed = FALSE /\ quiet = 0
    /\ conn = [c \in Client |-> "none"]
    /\ wire = [c \in Client |-> "silent"]
    /\ req = [c \in Client |-> NoReq]
    /\ pc = [c \in Client |-> "idle"]
    /\ answer = [c \in Client |-> NoMsg]
    /\ reply = [c \in Client |-> NoMsg]
    /\ faults = 0

-----------------------------------------------------------------------------
(***************************************************************************)
(* Booting from the disk                                                   *)
(***************************************************************************)
IsPrefixOf(h, g) == Len(h) <= Len(g) /\ SubSeq(g, 1, Len(h)) = h

\* sidecar-reason!: the watermark is not past the log, and the frame that
\* follows it, if there is one, is the image's next transaction.
Continues(img, l) ==
    /\ img.mark <= Len(l)
    /\ img.mark = Len(l) \/ img.mark = Len(img.txs)

\* plan-snapshot-boot!: install an image that verifies and continues, else
\* fold the log.  The order in which a torn image fails is left out.
Installs(img, l) == img.state = "whole" /\ Continues(img, l)

\* A mutant: the frame at the watermark is replayed twice.
ReplaysWatermark(img, l) ==
    IF Installs(img, l)
    THEN img.txs \o SubSeq(l, IF img.mark = 0 THEN 1 ELSE img.mark, Len(l))
    ELSE l

\* A mutant: an installed image is taken for the whole history.
ForgetsTail(img, l) == IF Installs(img, l) THEN img.txs ELSE l

\* boot-store!: the image and the frames past its watermark, or the whole log.
BootStore(img, l) ==
    IF Installs(img, l)
    THEN img.txs \o SubSeq(l, img.mark + 1, Len(l))
    ELSE l

\* What the process held in memory goes with it.
Forget ==
    /\ current' = <<>> /\ mark' = 0 /\ chain' = 1 /\ base' = 1
    /\ poisoned' = FALSE
    /\ fatal' = FALSE /\ stop' = FALSE /\ armed' = FALSE /\ quiet' = 0
    /\ mutex' = None

\* boot_generation_from_log: a first generation, without a parent.
BootGeneration ==
    /\ current' = BootStore(image, log)
    /\ mark' = Len(log)
    /\ chain' = 1 /\ base' = 1

\* repair_log_tail truncates the file to the bytes the replay consumed.
RepairTail ==
    /\ tail' = "clean"
    /\ dirty' = (dirty \/ tail = "torn")

\* fram_server_store_boot up to the repair of the tail; a failure on the way
\* leaves the files as they were and the process ends.
OpenStore ==
    /\ proc = "down"
    /\ proc' = "opened"
    /\ BootGeneration
    /\ poisoned' = FALSE
    /\ RepairTail
    /\ UNCHANGED <<log, synced, image, imageDisk, mutex, acceptvars, connvars,
                   pc, faults>>

\* A mutant: the boot serves without a sync.
ServeUnsynced ==
    /\ proc = "opened"
    /\ proc' = "serving"
    /\ UNCHANGED <<diskvars, storevars, mutex, acceptvars, connvars, pc, faults>>

\* ... and from the sync on: the store is served only when the sync succeeds.
SyncStore ==
    /\ proc = "opened"
    /\ \/ /\ proc' = "serving"
          /\ synced' = Len(log) /\ dirty' = FALSE
          /\ UNCHANGED <<storevars, fatal, stop, armed, quiet, mutex>>
       \/ /\ proc' = "down"
          /\ Forget
          /\ UNCHANGED <<synced, dirty>>
    /\ UNCHANGED <<log, tail, image, imageDisk, clients, clientCount, connvars,
                   pc, faults>>

-----------------------------------------------------------------------------
(***************************************************************************)
(* Clients                                                                 *)
(***************************************************************************)
\* A peer connects with a request in mind, which may name the version served
\* now and be stale when it is read; the kernel queues the connection.
\* (One that comes during the drain is never accepted.)
Connect(c) ==
    /\ proc = "serving"
    /\ conn[c] = "none"
    /\ conn' = [conn EXCEPT ![c] = "backlog"]
    /\ \E a \in Asks :
         req' = [req EXCEPT ![c] =
                   [op |-> a.op, expected |-> IF a.versioned THEN Len(current) ELSE None]]
    /\ UNCHANGED <<proc, diskvars, storevars, mutex, acceptvars, wire, answer,
                   reply, pc, faults>>

\* It sends its request, or leaves without a word; until then it is silent,
\* or has sent a part of it, or something that is no request.
PeerMoves(c) ==
    /\ conn[c] \in {"backlog", "admitted"}
    /\ wire[c] = "silent"
    /\ \E w \in {"closed", "whole"} : wire' = [wire EXCEPT ![c] = w]
    /\ UNCHANGED <<proc, diskvars, storevars, mutex, acceptvars, conn, req,
                   answer, reply, pc, faults>>

-----------------------------------------------------------------------------
(***************************************************************************)
(* The acceptor                                                            *)
(***************************************************************************)
Accepting == proc = "serving" /\ ~stop /\ ~fatal

Closed(c) ==
    /\ conn' = [conn EXCEPT ![c] = "closed"]
    /\ wire' = [wire EXCEPT ![c] = "silent"]

\* peer_never_asked: nothing was sent and the peer is at its end.
NeverAsked(c) == wire[c] = "closed"

\* Nothing was ever asked, so nothing is owed.
Drain(c) ==
    /\ Accepting
    /\ conn[c] = "backlog" /\ NeverAsked(c)
    /\ Closed(c)
    /\ UNCHANGED <<proc, diskvars, storevars, mutex, acceptvars, req, answer,
                   reply, pc, faults>>

\* The connection is refused: the cap, the descriptor's setup, no memory, or
\* no thread for now.  The job is off the list again and the loop goes on.
Refuse(c) ==
    /\ Accepting
    /\ conn[c] = "backlog" /\ ~NeverAsked(c)
    /\ Closed(c)
    /\ UNCHANGED <<proc, diskvars, storevars, mutex, acceptvars, req, answer,
                   reply, pc, faults>>

\* A mutant: an admission does not arm the idle compaction.
AdmitUnarmed(c) ==
    /\ Accepting
    /\ conn[c] = "backlog" /\ ~NeverAsked(c)
    /\ clientCount < MaxClients
    /\ clients' = clients \cup {c}
    /\ clientCount' = clientCount + 1
    /\ conn' = [conn EXCEPT ![c] = "admitted"]
    /\ pc' = [pc EXCEPT ![c] = "reading"]
    /\ UNCHANGED <<proc, diskvars, storevars, mutex, fatal, stop, armed, quiet,
                   wire, req, answer, reply, faults>>

\* A worker thread is created while clients_mutex is held.
Admit(c) ==
    /\ Accepting
    /\ conn[c] = "backlog" /\ ~NeverAsked(c)
    /\ clientCount < MaxClients
    /\ clients' = clients \cup {c}
    /\ clientCount' = clientCount + 1
    /\ conn' = [conn EXCEPT ![c] = "admitted"]
    /\ pc' = [pc EXCEPT ![c] = "reading"]
    /\ armed' = TRUE
    /\ quiet' = 0
    /\ UNCHANGED <<proc, diskvars, storevars, mutex, fatal, stop, wire, req,
                   answer, reply, faults>>

\* compact_store: the log is read again from the start, image and all, and
\* must be consumed to its last byte; then the chain is one generation.
Compact ==
    /\ tail = "clean"
    /\ BootGeneration
    /\ UNCHANGED poisoned

\* fram_server_store_compact_idle, which may also fail.
CompactIdle ==
    /\ mutex = None
    /\ \/ ~poisoned /\ chain > base /\ Compact /\ UNCHANGED proc
       \/ ~poisoned /\ chain <= base /\ UNCHANGED <<proc, storevars>>
       \/ proc' = "draining" /\ UNCHANGED storevars

\* poll times out.  Enough empty polls in a row with no live client, since
\* the last admission, and the chain is compacted once.
QuietPoll ==
    /\ Accepting
    /\ \A c \in Client : conn[c] # "backlog"
    /\ \/ /\ ~armed \/ clientCount # 0
          /\ quiet' = 0
          /\ UNCHANGED <<proc, armed, storevars>>
       \/ /\ armed /\ clientCount = 0
          /\ quiet + 1 < QuietPolls
          /\ quiet' = quiet + 1
          /\ UNCHANGED <<proc, armed, storevars>>
       \/ /\ armed /\ clientCount = 0
          /\ quiet + 1 >= QuietPolls
          /\ quiet' = 0 /\ armed' = FALSE
          /\ CompactIdle
    /\ UNCHANGED <<diskvars, mutex, clients, clientCount, fatal, stop,
                   connvars, pc, faults>>

\* poll, accept or pthread_create fails for good.
AcceptFails ==
    /\ Accepting
    /\ proc' = "draining"
    /\ UNCHANGED <<diskvars, storevars, mutex, acceptvars, connvars, pc, faults>>

\* The loop ends on a stop request or a worker's fatal failure; a connection
\* accepted meanwhile is closed unread.
LeaveLoop ==
    /\ proc = "serving" /\ (stop \/ fatal)
    /\ proc' = "draining"
    /\ \/ UNCHANGED <<conn, wire>>
       \/ \E c \in Client : conn[c] = "backlog" /\ Closed(c)
    /\ UNCHANGED <<diskvars, storevars, mutex, acceptvars, req, answer, reply,
                   pc, faults>>

\* stop_clients_and_wait: sockets are shut down, so that blocked reads and
\* writes return, and the last worker wakes the acceptor.
ClientsGone == clientCount = 0

\* fram_server_store_shutdown: the last worker is gone before the store is
\* synced, closed and freed.
Shutdown ==
    /\ proc = "draining"
    /\ ClientsGone
    /\ proc' = "down"
    /\ \/ synced' = Len(log) /\ dirty' = FALSE
       \/ UNCHANGED <<synced, dirty>>
    /\ Forget
    /\ conn' = [c \in Client |-> IF conn[c] = "backlog" THEN "closed" ELSE conn[c]]
    /\ wire' = [c \in Client |-> "silent"]
    /\ UNCHANGED <<log, tail, image, imageDisk, clients, clientCount,
                   req, answer, reply, pc, faults>>

\* handle_stop_signal
Signal ==
    /\ proc = "serving" /\ ~stop
    /\ stop' = TRUE
    /\ UNCHANGED <<proc, diskvars, storevars, mutex, clients, clientCount,
                   fatal, armed, quiet, connvars, pc, faults>>

-----------------------------------------------------------------------------
(***************************************************************************)
(* A worker: serve_client, and the dispatch it runs under dispatch_mutex   *)
(***************************************************************************)
Goto(c, l) == pc' = [pc EXCEPT ![c] = l]

\* A mutant: a read waits for its peer as long as it takes.
ReadUntimed(c) ==
    /\ pc[c] = "reading" /\ wire[c] # "silent"
    /\ IF wire[c] = "whole" THEN Goto(c, "ready") ELSE Goto(c, "end")
    /\ UNCHANGED <<proc, diskvars, storevars, mutex, acceptvars, connvars, faults>>

\* fram_server_codec_read_request.  A whole frame is dispatched even when its
\* peer has gone or the server is draining; anything less ends in a timeout,
\* an end of file or a decode error, which are the client's; running out of
\* memory is the server's.
ReadRequest(c) ==
    /\ pc[c] = "reading"
    /\ \/ wire[c] = "whole" /\ Goto(c, "ready")
       \/ wire[c] # "whole" /\ Goto(c, "end")
       \/ wire[c] = "whole" /\ Goto(c, "fatalEnd")
    /\ UNCHANGED <<proc, diskvars, storevars, mutex, acceptvars, connvars, faults>>

\* A mutant: two workers dispatch at once.
NoLock(c) ==
    /\ pc[c] = "ready"
    /\ mutex' = c
    /\ Goto(c, "dispatch")
    /\ UNCHANGED <<proc, diskvars, storevars, acceptvars, connvars, faults>>

\* serialized_dispatch
LockDispatch(c) ==
    /\ pc[c] = "ready" /\ mutex = None
    /\ mutex' = c
    /\ Goto(c, "dispatch")
    /\ UNCHANGED <<proc, diskvars, storevars, acceptvars, connvars, faults>>

\* Dispatch returns an error: no response, and the whole server will stop.
Abort(c) == mutex' = None /\ Goto(c, "fatalEnd")

\* store_needs_compaction: too many generations, or too many bytes.
ManyGenerations == chain - base >= CompactGenerations
ManyBytes       == chain > base

\* The store is poisoned, or the compaction, the clock, an allocation or the
\* generated module fails before anything is written.
DispatchFails(c) ==
    /\ pc[c] = "dispatch"
    /\ Abort(c)
    /\ UNCHANGED <<proc, diskvars, storevars, acceptvars, connvars, faults>>

\* The chain is compacted on the way to a request.
DispatchCompacts(c) ==
    /\ pc[c] = "dispatch" /\ ~poisoned
    /\ ManyGenerations \/ ManyBytes
    /\ Compact
    /\ UNCHANGED <<proc, diskvars, mutex, acceptvars, connvars, pc, faults>>

\* A mutant: the poison is not looked at.
DispatchingAnyway(c) == pc[c] = "dispatch" /\ ~ManyGenerations

Dispatching(c) == pc[c] = "dispatch" /\ ~poisoned /\ ~ManyGenerations

\* expected-version-matches?
Expected(c) == req[c].expected \in {None, Len(current)}

Answering(c, code, version) ==
    answer' = [answer EXCEPT ![c] = [code |-> code, version |-> version]]

\* dispatch! refuses a version that is not the served one before it looks at
\* the operation, then what the operation's payload, fence, page or answer
\* make inadmissible.  A checkpoint names no version.  Nothing is changed.
DispatchRefuses(c) ==
    /\ Dispatching(c)
    /\ \/ req[c].op # "checkpoint" /\ ~Expected(c)
          /\ Answering(c, "conflict", Len(current))
       \/ Expected(c) /\ Answering(c, "refused", Len(current))
    /\ Goto(c, "encode")
    /\ UNCHANGED <<proc, diskvars, storevars, mutex, acceptvars, conn, wire,
                   req, reply, faults>>

\* A read changes no history; one that fills the result cache makes a new
\* generation that appends nothing.
DispatchRead(c) ==
    /\ Dispatching(c)
    /\ req[c].op = "read" /\ Expected(c)
    /\ Answering(c, "ok", Len(current))
    /\ chain' \in {chain, chain + 1}
    /\ Goto(c, "encode")
    /\ UNCHANGED <<proc, diskvars, current, mark, base, poisoned, mutex,
                   acceptvars, conn, wire, req, reply, faults>>

\* A mutation commits on a fork of the session and encodes its one frame.
DispatchWrite(c) ==
    /\ Dispatching(c)
    /\ req[c].op = "write" /\ Expected(c)
    /\ Goto(c, "append")
    /\ UNCHANGED <<proc, diskvars, storevars, mutex, acceptvars, connvars, faults>>

\* append_log_vector, up to its sync.  A failure leaves none or part of the
\* frame in the file and poisons the store.
AppendLog(c) ==
    /\ pc[c] = "append"
    /\ dirty' = TRUE
    /\ \/ /\ log' = Append(log, c)
          /\ Goto(c, "sync")
          /\ UNCHANGED <<tail, poisoned, mutex>>
       \/ /\ tail' \in {"clean", "torn"}
          /\ poisoned' = TRUE
          /\ Abort(c)
          /\ UNCHANGED log
    /\ UNCHANGED <<proc, synced, image, imageDisk, current, mark, chain, base,
                   acceptvars, connvars, faults>>

\* storage_sync, and only after it the new generation; a failed sync poisons.
SyncLog(c) ==
    /\ pc[c] = "sync"
    /\ \/ /\ synced' = Len(log) /\ dirty' = FALSE
          /\ current' = Append(current, c)
          /\ mark' = mark + 1
          /\ chain' = chain + 1
          /\ Answering(c, "committed", Len(current) + 1)
          /\ Goto(c, "encode")
          /\ UNCHANGED <<poisoned, mutex>>
       \/ /\ poisoned' = TRUE
          /\ Abort(c)
          /\ UNCHANGED <<synced, dirty, current, mark, chain, answer>>
    /\ UNCHANGED <<proc, log, tail, image, imageDisk, base, acceptvars, conn,
                   wire, req, reply, faults>>

\* checkpoint-response!, and write_snapshot_vector's truncation of the object.
DispatchCheckpoint(c) ==
    /\ Dispatching(c)
    /\ req[c].op = "checkpoint"
    /\ image' = NoFile
    /\ Answering(c, "ok", Len(current))
    /\ Goto(c, "image")
    /\ UNCHANGED <<proc, log, tail, synced, dirty, imageDisk, storevars, mutex,
                   acceptvars, conn, wire, req, reply, faults>>

\* The image is written over; a failure leaves part of it.
WriteImage(c) ==
    /\ pc[c] = "image"
    /\ \/ /\ image' = [state |-> "whole", txs |-> current, mark |-> mark]
          /\ Goto(c, "imageSync")
          /\ UNCHANGED mutex
       \/ /\ image' \in {NoFile, Torn}
          /\ Abort(c)
    /\ UNCHANGED <<proc, log, tail, synced, dirty, imageDisk, storevars,
                   acceptvars, connvars, faults>>

\* ... and synced.  Its failure never poisons the log.
SyncImage(c) ==
    /\ pc[c] = "imageSync"
    /\ \/ imageDisk' = image /\ Goto(c, "encode") /\ UNCHANGED mutex
       \/ UNCHANGED imageDisk /\ Abort(c)
    /\ UNCHANGED <<proc, log, tail, synced, dirty, image, storevars,
                   acceptvars, connvars, faults>>

\* encode_response_frame copies the answer out, and the dispatch is over.
EncodeResponse(c) ==
    /\ pc[c] = "encode"
    /\ mutex' = None
    /\ Goto(c, "respond") \/ Goto(c, "fatalEnd")
    /\ UNCHANGED <<proc, diskvars, storevars, acceptvars, connvars, faults>>

\* The response is written; a peer that has gone or stalls gets nothing.
WriteResponse(c) ==
    /\ pc[c] = "respond"
    /\ \/ reply' = [reply EXCEPT ![c] = answer[c]]
       \/ UNCHANGED reply
    /\ Goto(c, "release")
    /\ UNCHANGED <<proc, diskvars, storevars, mutex, acceptvars, conn, wire,
                   req, answer, faults>>

\* serialized_release_response waits for the dispatch in progress.
ReleaseResponse(c) ==
    /\ pc[c] = "release" /\ mutex = None
    /\ Goto(c, "end")
    /\ UNCHANGED <<proc, diskvars, storevars, mutex, acceptvars, connvars, faults>>

\* A mutant: a worker that fails for good leaves its job on the list.
EndLeavesJob(c) ==
    /\ pc[c] \in {"end", "fatalEnd"}
    /\ Closed(c)
    /\ fatal' = (fatal \/ pc[c] = "fatalEnd")
    /\ clients' = IF pc[c] = "fatalEnd" THEN clients ELSE clients \ {c}
    /\ clientCount' = IF pc[c] = "fatalEnd" THEN clientCount ELSE clientCount - 1
    /\ answer' = [answer EXCEPT ![c] = NoMsg]
    /\ Goto(c, "idle")
    /\ UNCHANGED <<proc, diskvars, storevars, mutex, stop, armed, quiet, req,
                   reply, faults>>

\* serve_client_worker leaves: under clients_mutex it closes its descriptor,
\* reports a fatal failure, takes its job off the list and wakes the drain.
EndWorker(c) ==
    /\ pc[c] \in {"end", "fatalEnd"}
    /\ Closed(c)
    /\ fatal' = (fatal \/ pc[c] = "fatalEnd")
    /\ clients' = clients \ {c}
    /\ clientCount' = IF c \in clients THEN clientCount - 1 ELSE clientCount
    /\ answer' = [answer EXCEPT ![c] = NoMsg]
    /\ Goto(c, "idle")
    /\ UNCHANGED <<proc, diskvars, storevars, mutex, stop, armed, quiet, req,
                   reply, faults>>

-----------------------------------------------------------------------------
(***************************************************************************)
(* Crashes                                                                 *)
(***************************************************************************)
\* Every thread is gone and every connection broken.
Gone ==
    /\ proc' = "down"
    /\ pc' = [c \in Client |-> "idle"]
    /\ Forget
    /\ clients' = {} /\ clientCount' = 0
    /\ conn' = [c \in Client |-> IF conn[c] \in {"backlog", "admitted"}
                                 THEN "closed" ELSE conn[c]]
    /\ wire' = [c \in Client |-> "silent"]
    /\ answer' = [c \in Client |-> NoMsg]
    /\ faults' = faults + 1
    /\ UNCHANGED <<req, reply>>

InWrite(l) == {c \in Client : pc[c] = l}

\* What a write of the log that is cut short may have reached.
Reached == {log} \cup {Append(log, c) : c \in InWrite("append")}

\* The process dies, perhaps inside a write; the kernel keeps the files.
Crash ==
    /\ faults < MaxFaults
    /\ proc # "down"
    /\ Gone
    /\ log' \in Reached
    /\ tail' \in IF log' = log /\ InWrite("append") # {}
                  THEN {"clean", "torn"} ELSE {tail}
    /\ dirty' = (dirty \/ log' # log \/ tail' # tail)
    /\ image' \in IF InWrite("image") # {} THEN {NoFile, Torn} ELSE {image}
    /\ UNCHANGED <<synced, imageDisk>>

\* The machine loses power: of what was not synced any part may be left.
PowerLoss ==
    /\ faults < MaxFaults
    /\ Gone
    /\ \E l \in Reached : \E k \in synced..Len(l) : log' = SubSeq(l, 1, k)
    /\ tail' \in IF dirty \/ InWrite("append") # {}
                  THEN {"clean", "torn"} ELSE {tail}
    /\ synced' = Len(log') /\ dirty' = FALSE
    /\ image' \in IF image = imageDisk /\ InWrite("image") = {} THEN {image}
                  ELSE {imageDisk, image, NoFile, Torn}
    /\ imageDisk' = image'

-----------------------------------------------------------------------------
Acceptor ==
    \/ QuietPoll
    \/ LeaveLoop
    \/ Shutdown
    \/ \E c \in Client : Drain(c) \/ Refuse(c) \/ Admit(c)

Worker(c) ==
    \/ ReadRequest(c)
    \/ LockDispatch(c)
    \/ DispatchFails(c)
    \/ DispatchCompacts(c)
    \/ DispatchRefuses(c)
    \/ DispatchRead(c)
    \/ DispatchWrite(c)
    \/ AppendLog(c)
    \/ SyncLog(c)
    \/ DispatchCheckpoint(c)
    \/ WriteImage(c)
    \/ SyncImage(c)
    \/ EncodeResponse(c)
    \/ WriteResponse(c)
    \/ ReleaseResponse(c)
    \/ EndWorker(c)

Boot == OpenStore \/ SyncStore

Peer == \E c \in Client : Connect(c) \/ PeerMoves(c)

Fault == Crash \/ PowerLoss

Next ==
    \/ Boot
    \/ Acceptor
    \/ \E c \in Client : Worker(c)
    \/ Peer
    \/ Signal
    \/ AcceptFails
    \/ Fault

Spec == Init /\ [][Next]_vars

\* The operating system schedules the acceptor and every worker.  Blocking
\* reads and writes are bounded by the client timeouts, and a mutex that stays
\* free is given to a thread that waits for it.  Nothing makes a server boot,
\* a peer speak, a signal arrive or a fault happen.
Fairness ==
    /\ WF_vars(Acceptor)
    /\ \A c \in Client : WF_vars(Worker(c))

FairSpec == Spec /\ Fairness

-----------------------------------------------------------------------------
(***************************************************************************)
(* Properties                                                              *)
(***************************************************************************)
\* R3 and R1: the store that answers is the log, frame for frame, however it
\* came about, by folding, by an image and a tail, by dispatch after dispatch
\* or by a compaction in between.
StoreIsLog ==
    proc \in {"serving", "draining"} /\ ~poisoned
        /\ (\A c \in Client : pc[c] # "sync")
    => current = log /\ mark = Len(log)

\* R3: an image that verifies, in the file or on the platter, is a prefix of
\* the history no power failure can take; so no image installed by a later
\* boot can bring back a transaction the log has lost.
ImageIsDurablePrefix ==
    \A img \in {image, imageDisk} : img.state = "whole" =>
        /\ img.mark = Len(img.txs)
        /\ IsPrefixOf(img.txs, SubSeq(log, 1, synced))

\* What an answer has shown, to a reader as much as to a writer, is on the
\* platter: no power failure takes back a version a client has seen, also not
\* one that a boot found in frames a killed process had left unsynced.
ShownIsDurable == \A c \in Client : reply[c].version <= synced

\* I2: a committed write that named a version directly follows it.
NoLostUpdate ==
    \A c \in Client : reply[c].code = "committed" /\ req[c].expected # None
                        => reply[c].version = req[c].expected + 1

\* D4: a failed append or sync fences the writer.  Until the process ends the
\* store stays poisoned and not one more frame reaches the log.
PoisonFences ==
    [][poisoned /\ proc' # "down" /\ proc # "down" =>
         poisoned' /\ log' = log /\ current' = current]_vars

\* A stop request or a worker's fatal failure ends the process: the drain
\* never waits for a worker that waits for the acceptor.
Drains == (proc = "serving" /\ (stop \/ fatal)) ~> proc = "down"

\* Every admitted connection is let go in the end, whatever its peer does.
SlotsReturn == \A c \in Client : conn[c] = "admitted" ~> conn[c] = "closed"

Quiet == proc = "serving" /\ clientCount = 0 /\ \A c \in Client : conn[c] # "backlog"

\* A server that falls quiet gives its generations back: the compaction that
\* an admission arms is not lost to whatever happened in between.
QuietServerCompacts == <>[]Quiet => <>[](chain = base)

\* The native route implements the same promise as the JVM's sequencer.
VerdictOf(c) ==
    IF req[c].op # "write" THEN "open"
    ELSE IF reply[c].code = "committed" THEN "acked"
    ELSE IF reply[c].code \in {"conflict", "refused"} THEN "rejected"
    ELSE IF conn[c] = "closed" THEN "unknown" ELSE "open"

Promised == INSTANCE AtomicHistory
    WITH Request <- Client,
         hist    <- IF proc \in {"serving", "draining"} THEN current ELSE log,
         verdict <- [c \in Client |-> VerdictOf(c)],
         up      <- (proc \in {"serving", "draining"})

ImplementsAtomicHistory == Promised!ASpec
=============================================================================
