------------------------- MODULE NativeServerProofs -------------------------
(***************************************************************************)
(* Proofs about the native server, for any set of connections, any requests *)
(* and any bounds: the store that answers is the log, an image is a durable *)
(* prefix of it, no update is lost, poison fences, and the server           *)
(* implements AtomicHistory.                                                *)
(***************************************************************************)
EXTENDS NativeServer, FiniteSetTheorems, SequenceTheorems, TLAPS

\* The steps of a worker that holds dispatch_mutex.
Held == {"dispatch", "append", "sync", "image", "imageSync", "encode"}

Up == proc \in {"serving", "draining"}

\* TypeOK, in parts.
DiskTypes ==
    log \in History /\ synced \in Version /\ image \in Image /\ imageDisk \in Image

StoreTypes == current \in History /\ mark \in Version /\ chain \in Nat /\ base \in Nat

FlagTypes ==
    /\ dirty \in BOOLEAN /\ poisoned \in BOOLEAN
    /\ fatal \in BOOLEAN /\ stop \in BOOLEAN /\ armed \in BOOLEAN

ProcTypes ==
    /\ proc \in {"down", "opened", "serving", "draining"}
    /\ tail \in {"clean", "torn"}
    /\ mutex \in Client \cup {None}
    /\ clients \subseteq Client
    /\ quiet \in 0..QuietPolls
    /\ pc \in [Client -> Working \cup {"idle"}]
    /\ faults \in 0..MaxFaults

ConnTypes ==
    /\ conn \in [Client -> {"none", "backlog", "admitted", "closed"}]
    /\ wire \in [Client -> {"silent", "closed", "whole"}]
    /\ req \in [Client -> [op : Op, expected : Version \cup {None}]]
    /\ answer \in [Client -> Message] /\ reply \in [Client -> Message]

Types == DiskTypes /\ StoreTypes /\ FlagTypes /\ ProcTypes /\ ConnTypes

\* The jobs are the workers, the workers the admitted connections, and the
\* owner of the mutex is the one that dispatches.
Threads ==
    /\ IsFiniteSet(clients) /\ clientCount = Cardinality(clients)
    /\ \A c \in Client : pc[c] # "idle" <=> c \in clients
    /\ \A c \in Client : conn[c] = "admitted" <=> c \in clients
    /\ ~Up => clients = {}
    /\ \A c \in Client : pc[c] \in Held <=> mutex = c

\* Between dispatches the generation is the log and all of it is synced; a
\* frame is ahead of the generation only while its own worker syncs it or,
\* poisoned, for good.
Store ==
    /\ poisoned => \A c \in Client : pc[c] \notin {"append", "sync", "image", "imageSync"}
    /\ proc = "opened" => current = log /\ mark = Len(log)
    /\ Up => current = log \/ \E c \in Client : log = Append(current, c)
    /\ Up => synced <= Len(current)
    /\ Up /\ ~poisoned /\ (\A c \in Client : pc[c] # "sync") =>
          current = log /\ mark = Len(log) /\ synced = Len(log)
    /\ \A c \in Client : pc[c] = "sync" =>
          log = Append(current, c) /\ mark = Len(current) /\ synced = Len(current)

Disk == synced <= Len(log) /\ ImageIsDurablePrefix

Logged(c) == \E i \in 1..Len(log) : log[i] = c

\* A request reaches the log once, after its dispatch has begun.
Once ==
    /\ \A i, j \in 1..Len(log) : log[i] = log[j] => i = j
    /\ \A c \in Client : Logged(c) =>
          conn[c] = "closed" \/ pc[c] \in {"sync", "encode", "respond", "release",
                                           "end", "fatalEnd"}

\* What a message about c's request says of the log.
Told(c, m) ==
    /\ m.code = "committed" => \E i \in 1..synced : log[i] = c
    /\ m.code \in {"conflict", "refused"} => ~Logged(c)
    /\ m.code = "committed" /\ req[c].expected # None => m.version = req[c].expected + 1

Answers ==
    \A c \in Client :
        /\ Told(c, answer[c]) /\ Told(c, reply[c])
        /\ conn[c] \in {"none", "backlog"} => answer[c] = NoMsg /\ reply[c] = NoMsg
        /\ pc[c] \in {"reading", "ready", "dispatch", "append", "sync"} => answer[c] = NoMsg
        /\ pc[c] \notin {"release", "end", "idle"} => reply[c] = NoMsg
        /\ pc[c] \in {"append", "sync"} => Expected(c)

\* An answer is of a synced version before it is sent.
Shown == \A c \in Client : answer[c].version <= synced /\ reply[c].version <= synced

IInv == Types /\ Threads /\ Store /\ Disk /\ Once /\ Answers /\ Shown

-----------------------------------------------------------------------------
(* Which steps change the disk, and which the store                        *)

LEMMA DiskSteps ==
    ASSUME [Next]_vars
    PROVE  \/ UNCHANGED <<log, synced, image, imageDisk>>
           \/ SyncStore \/ Shutdown \/ Crash \/ PowerLoss
           \/ \E c \in Client : \/ AppendLog(c) \/ SyncLog(c) \/ DispatchCheckpoint(c)
                                \/ WriteImage(c) \/ SyncImage(c)
  BY DEF Next, vars, Boot, Acceptor, Worker, Peer, Fault, diskvars, storevars,
         acceptvars, connvars, OpenStore, Accepting, QuietPoll, CompactIdle,
         LeaveLoop, Signal, AcceptFails, Connect, PeerMoves, Drain, Refuse, Admit,
         ReadRequest, LockDispatch, DispatchFails, DispatchCompacts,
         DispatchRefuses, DispatchRead, DispatchWrite, EncodeResponse,
         WriteResponse, ReleaseResponse, EndWorker

LEMMA StoreSteps ==
    ASSUME [Next]_vars
    PROVE  \/ UNCHANGED storevars
           \/ OpenStore \/ SyncStore \/ QuietPoll \/ Shutdown \/ Crash \/ PowerLoss
           \/ \E c \in Client : \/ AppendLog(c) \/ SyncLog(c) \/ DispatchCompacts(c)
                                \/ DispatchRead(c)
  BY DEF Next, vars, Boot, Acceptor, Worker, Peer, Fault, diskvars, storevars,
         acceptvars, connvars, LeaveLoop, Signal, AcceptFails, Connect, PeerMoves,
         Drain, Refuse, Admit, ReadRequest, LockDispatch, DispatchFails,
         DispatchRefuses, DispatchWrite, DispatchCheckpoint, WriteImage, SyncImage,
         EncodeResponse, WriteResponse, ReleaseResponse, EndWorker

-----------------------------------------------------------------------------
(* Types                                                                   *)

LEMMA BootStoreType ==
    ASSUME NEW img \in Image, NEW l \in History
    PROVE  BootStore(img, l) \in History
  <1>1. CASE Installs(img, l)
    <2>1. img.txs \in Seq(Client) /\ img.mark \in Nat /\ Len(l) \in Nat
      BY DEF Image, History, Version
    <2>2. SubSeq(l, img.mark + 1, Len(l)) \in Seq(Client) BY <2>1 DEF History
    <2> QED BY <1>1, <2>1, <2>2 DEF BootStore, History
  <1>2. CASE ~Installs(img, l) BY <1>2 DEF BootStore
  <1> QED BY <1>1, <1>2

LEMMA DiskTypesStep ==
    ASSUME DiskTypes, StoreTypes, [Next]_vars
    PROVE  DiskTypes'
  <1> USE DEF diskvars, History, Version
  <1>a. ASSUME NEW l \in Reached PROVE l \in Seq(Client)
    BY DEF Reached, DiskTypes, InWrite
  <1>b. NoFile \in Image /\ Torn \in Image BY DEF NoFile, Torn, Image
  <1>1. CASE UNCHANGED <<log, synced, image, imageDisk>> BY <1>1 DEF DiskTypes
  <1>2. CASE SyncStore BY <1>2 DEF SyncStore, DiskTypes
  <1>3. CASE Shutdown BY <1>3 DEF Shutdown, DiskTypes
  <1>4. CASE Crash BY <1>4, <1>a, <1>b DEF Crash, DiskTypes
  <1>5. CASE PowerLoss
    <2>1. PICK l \in Reached : \E k \in synced..Len(l) : log' = SubSeq(l, 1, k)
      BY <1>5 DEF PowerLoss
    <2>2. log' \in Seq(Client) BY <2>1, <1>a DEF DiskTypes
    <2> QED BY <1>5, <2>2, <1>b DEF PowerLoss, DiskTypes
  <1>6. ASSUME NEW c \in Client, AppendLog(c) PROVE DiskTypes'
    BY <1>6 DEF AppendLog, DiskTypes
  <1>7. ASSUME NEW c \in Client, SyncLog(c) PROVE DiskTypes'
    BY <1>7 DEF SyncLog, DiskTypes
  <1>8. ASSUME NEW c \in Client, DispatchCheckpoint(c) PROVE DiskTypes'
    BY <1>8, <1>b DEF DispatchCheckpoint, DiskTypes
  <1>9. ASSUME NEW c \in Client, WriteImage(c) PROVE DiskTypes'
    <2>1. [state |-> "whole", txs |-> current, mark |-> mark] \in Image
      BY DEF StoreTypes, Image
    <2> QED BY <1>9, <1>b, <2>1 DEF WriteImage, DiskTypes
  <1>10. ASSUME NEW c \in Client, SyncImage(c) PROVE DiskTypes'
    BY <1>10 DEF SyncImage, DiskTypes
  <1> QED BY <1>1, <1>2, <1>3, <1>4, <1>5, <1>6, <1>7, <1>8, <1>9, <1>10, DiskSteps

LEMMA StoreTypesStep ==
    ASSUME DiskTypes, StoreTypes, [Next]_vars
    PROVE  StoreTypes'
  <1>a. BootGeneration => StoreTypes'
    <2>1. Len(log) \in Nat BY DEF DiskTypes, History
    <2> QED BY <2>1, BootStoreType DEF BootGeneration, DiskTypes, StoreTypes, Version
  <1>b. Forget => StoreTypes' BY DEF Forget, StoreTypes, History, Version
  <1> USE DEF StoreTypes
  <1>1. CASE UNCHANGED storevars BY <1>1 DEF storevars
  <1>2. CASE OpenStore BY <1>2, <1>a DEF OpenStore
  <1>3. CASE SyncStore BY <1>3, <1>b DEF SyncStore, storevars
  <1>4. CASE QuietPoll BY <1>4, <1>a DEF QuietPoll, CompactIdle, Compact, storevars
  <1>5. CASE Shutdown BY <1>5, <1>b DEF Shutdown
  <1>6. CASE Crash BY <1>6, <1>b DEF Crash, Gone
  <1>7. CASE PowerLoss BY <1>7, <1>b DEF PowerLoss, Gone
  <1>8. ASSUME NEW c \in Client, AppendLog(c) PROVE StoreTypes'
    BY <1>8 DEF AppendLog
  <1>9. ASSUME NEW c \in Client, SyncLog(c) PROVE StoreTypes'
    BY <1>9 DEF SyncLog, History, Version
  <1>10. ASSUME NEW c \in Client, DispatchCompacts(c) PROVE StoreTypes'
    BY <1>10, <1>a DEF DispatchCompacts, Compact
  <1>11. ASSUME NEW c \in Client, DispatchRead(c) PROVE StoreTypes'
    BY <1>11 DEF DispatchRead
  <1> QED BY <1>1, <1>2, <1>3, <1>4, <1>5, <1>6, <1>7, <1>8, <1>9, <1>10, <1>11,
             StoreSteps

\* Types of the rest, one variable after another.
LEMMA TypesStep ==
    ASSUME Types, [Next]_vars
    PROVE  Types'
  <1> USE NativeAssumption
      DEF Next, vars, Boot, Acceptor, Worker, Peer, Fault, diskvars, storevars,
          acceptvars, connvars, OpenStore, RepairTail, SyncStore, Forget, Accepting,
          QuietPoll, CompactIdle, Compact, LeaveLoop, Shutdown, Signal, AcceptFails,
          Connect, PeerMoves, Drain, Refuse, Admit, ReadRequest, Closed,
          LockDispatch, DispatchFails, DispatchCompacts, DispatchRefuses,
          Dispatching, DispatchRead, DispatchWrite, AppendLog, SyncLog,
          DispatchCheckpoint, WriteImage, SyncImage, EncodeResponse, WriteResponse,
          ReleaseResponse, EndWorker, Crash, PowerLoss, Gone, Goto, Abort, Answering
  <1>1. DiskTypes' BY DiskTypesStep DEF Types
  <1>2. StoreTypes' BY StoreTypesStep DEF Types
  <1>3. FlagTypes'
    <2>1. ASSUME dirty \in BOOLEAN PROVE dirty' \in BOOLEAN BY <2>1
    <2>2. ASSUME poisoned \in BOOLEAN PROVE poisoned' \in BOOLEAN BY <2>2
    <2>3. ASSUME fatal \in BOOLEAN PROVE fatal' \in BOOLEAN BY <2>3
    <2>4. ASSUME stop \in BOOLEAN PROVE stop' \in BOOLEAN BY <2>4
    <2>5. ASSUME armed \in BOOLEAN PROVE armed' \in BOOLEAN BY <2>5
    <2> QED BY <2>1, <2>2, <2>3, <2>4, <2>5 DEF Types, FlagTypes
  <1>4. ProcTypes'
    <2>1. proc' \in {"down", "opened", "serving", "draining"} BY DEF Types, ProcTypes
    <2>2. tail' \in {"clean", "torn"} BY DEF Types, ProcTypes
    <2>3. mutex' \in Client \cup {None} BY DEF Types, ProcTypes
    <2>4. clients' \subseteq Client BY DEF Types, ProcTypes
    <2>5. quiet' \in 0..QuietPolls BY DEF Types, ProcTypes
    <2>6. pc' \in [Client -> Working \cup {"idle"}] BY DEF Types, ProcTypes, Working
    <2>7. faults' \in 0..MaxFaults BY DEF Types, ProcTypes
    <2> QED BY <2>1, <2>2, <2>3, <2>4, <2>5, <2>6, <2>7 DEF ProcTypes
  <1>5. ConnTypes'
    <2>1. conn' \in [Client -> {"none", "backlog", "admitted", "closed"}]
      BY DEF Types, ConnTypes
    <2>2. wire' \in [Client -> {"silent", "closed", "whole"}] BY DEF Types, ConnTypes
    <2>3. Len(current) \in Version /\ Len(current) + 1 \in Version
      BY DEF Types, StoreTypes, History, Version
    <2>4. req' \in [Client -> [op : Op, expected : Version \cup {None}]]
      <3>1. req \in [Client -> [op : Op, expected : Version \cup {None}]]
        BY DEF Types, ConnTypes
      <3>2. CASE UNCHANGED req BY <3>1, <3>2
      <3>3. ASSUME NEW c \in Client, Connect(c)
            PROVE  req' \in [Client -> [op : Op, expected : Version \cup {None}]]
        <4>1. PICK a \in Asks :
                 req' = [req EXCEPT ![c] = [op |-> a.op, expected |->
                             IF a.versioned THEN Len(current) ELSE None]]
          BY <3>3
        <4>2. a.op \in Op OBVIOUS
        <4> QED BY <3>1, <4>1, <4>2, <2>3
      <3> QED BY <3>2, <3>3
    <2>5. answer' \in [Client -> Message]
      <3>1. answer \in [Client -> Message] BY DEF Types, ConnTypes
      <3>2. NoMsg \in Message BY DEF NoMsg, Message, Version
      <3>3. ASSUME NEW c \in Client, NEW v \in Version,
                   NEW code \in {"ok", "committed", "conflict", "refused"},
                   Answering(c, code, v)
            PROVE  answer' \in [Client -> Message]
        BY <3>1, <3>3 DEF Message
      <3>4. \/ UNCHANGED answer
            \/ answer' = [c \in Client |-> NoMsg]
            \/ \E c \in Client : answer' = [answer EXCEPT ![c] = NoMsg]
            \/ \E c \in Client : \/ Answering(c, "ok", Len(current))
                                 \/ Answering(c, "conflict", Len(current))
                                 \/ Answering(c, "refused", Len(current))
                                 \/ Answering(c, "committed", Len(current) + 1)
        OBVIOUS
      <3> HIDE DEF Answering
      <3> QED BY <3>1, <3>2, <3>3, <3>4, <2>3
    <2>6. reply' \in [Client -> Message] BY DEF Types, ConnTypes
    <2> QED BY <2>1, <2>2, <2>4, <2>5, <2>6 DEF ConnTypes
  <1> QED BY <1>1, <1>2, <1>3, <1>4, <1>5 DEF Types

-----------------------------------------------------------------------------
(* Threads                                                                 *)

LEMMA ThreadsStep ==
    ASSUME Types, Threads, [Next]_vars
    PROVE  Threads'
  <1> USE NativeAssumption
      DEF Next, vars, Boot, Acceptor, Worker, Peer, Fault, diskvars, storevars,
          acceptvars, connvars, OpenStore, RepairTail, SyncStore, Forget, Accepting,
          QuietPoll, CompactIdle, Compact, LeaveLoop, Shutdown, ClientsGone, Signal,
          AcceptFails, Connect, PeerMoves, Drain, Refuse, Admit, ReadRequest, Closed,
          LockDispatch, DispatchFails, DispatchCompacts, DispatchRefuses,
          Dispatching, DispatchRead, DispatchWrite, AppendLog, SyncLog,
          DispatchCheckpoint, WriteImage, SyncImage, EncodeResponse, WriteResponse,
          ReleaseResponse, EndWorker, Crash, PowerLoss, Gone, Goto, Abort, Answering
  <1>a. /\ pc \in [Client -> Working \cup {"idle"}]
        /\ conn \in [Client -> {"none", "backlog", "admitted", "closed"}]
        /\ mutex \in Client \cup {None}
    BY DEF Types, ProcTypes, ConnTypes
  <1>b. ClientsGone => clients = {}
    BY FS_EmptySet DEF Threads
  <1>1. IsFiniteSet(clients') /\ clientCount' = Cardinality(clients')
    <2>1. CASE UNCHANGED <<clients, clientCount>> BY <2>1 DEF Threads
    <2>2. CASE clients' = {} /\ clientCount' = 0 BY <2>2, FS_EmptySet
    <2>3. ASSUME NEW c \in Client, Admit(c)
          PROVE  IsFiniteSet(clients') /\ clientCount' = Cardinality(clients')
      <3>1. c \notin clients BY <2>3 DEF Threads
      <3> QED BY <2>3, <3>1, FS_AddElement DEF Threads
    <2>4. ASSUME NEW c \in Client, EndWorker(c)
          PROVE  IsFiniteSet(clients') /\ clientCount' = Cardinality(clients')
      <3>1. c \in clients BY <2>4 DEF Threads
      <3> QED BY <2>4, <3>1, FS_RemoveElement DEF Threads
    <2> QED BY <2>1, <2>2, <2>3, <2>4
  <1>2. \A c \in Client : pc'[c] # "idle" <=> c \in clients'
    BY <1>a DEF Threads
  <1>3. \A c \in Client : conn'[c] = "admitted" <=> c \in clients'
    BY <1>a, <1>b DEF Threads
  <1>4. ~Up' => clients' = {}
    BY <1>b DEF Threads, Up
  <1>5. \A c \in Client : pc'[c] \in Held <=> mutex' = c
    <2>1. CASE UNCHANGED <<pc, mutex>> BY <2>1 DEF Threads
    <2>2. CASE mutex' = None /\ \A c \in Client : pc'[c] = "idle"
      BY <2>2 DEF Held
    <2>3. ASSUME NEW w \in Client, Worker(w), NEW c \in Client
          PROVE  pc'[c] \in Held <=> mutex' = c
      <3>1. CASE c = w BY <1>a, <2>3, <3>1 DEF Threads, Held
      <3>2. CASE c # w BY <1>a, <2>3, <3>2 DEF Threads, Held
      <3> QED BY <3>1, <3>2
    <2>4. ASSUME NEW w \in Client, Admit(w), NEW c \in Client
          PROVE  pc'[c] \in Held <=> mutex' = c
      BY <1>a, <2>4 DEF Threads, Held
    <2>5. \A c \in Client : clients = {} => pc[c] = "idle" BY DEF Threads
    <2>6. Shutdown \/ SyncStore => clients = {} BY <1>b DEF Threads, Up
    <2> HIDE DEF Worker
    <2> QED BY <1>a, <2>1, <2>2, <2>3, <2>4, <2>5, <2>6
  <1> QED BY <1>1, <1>2, <1>3, <1>4, <1>5 DEF Threads

-----------------------------------------------------------------------------
(* The store and the disk                                                  *)

\* Two workers never dispatch at once.
LEMMA DispatchAlone ==
    ASSUME Threads, NEW c \in Client, NEW d \in Client, pc[c] \in Held, pc[d] \in Held
    PROVE  c = d
  BY DEF Threads

\* A boot that trusts an image of a durable prefix rebuilds the log.
LEMMA BootStoreIsLog ==
    ASSUME NEW img \in Image, NEW l \in History, NEW k \in 0..Len(l),
           img.state = "whole" => /\ img.mark = Len(img.txs)
                                  /\ IsPrefixOf(img.txs, SubSeq(l, 1, k))
    PROVE  BootStore(img, l) = l
  <1>1. CASE ~Installs(img, l) BY <1>1 DEF BootStore
  <1>2. CASE Installs(img, l)
    <2>1. /\ img.txs \in Seq(Client) /\ l \in Seq(Client) /\ Len(l) \in Nat
          /\ img.mark = Len(img.txs) /\ IsPrefixOf(img.txs, SubSeq(l, 1, k))
      BY <1>2 DEF Installs, Image, History
    <2>2. /\ Len(img.txs) \in Nat /\ Len(img.txs) <= k /\ k <= Len(l)
          /\ SubSeq(SubSeq(l, 1, k), 1, Len(img.txs)) = img.txs
      BY <2>1 DEF IsPrefixOf
    <2> DEFINE m == Len(img.txs)
    <2>3. /\ SubSeq(l, 1, m) \in Seq(Client) /\ Len(SubSeq(l, 1, m)) = m
          /\ \A i \in 1..m : SubSeq(l, 1, m)[i] = l[i]
      BY <2>1, <2>2
    <2>4. /\ SubSeq(l, 1, k) \in Seq(Client) /\ Len(SubSeq(l, 1, k)) = k
          /\ \A i \in 1..k : SubSeq(l, 1, k)[i] = l[i]
      BY <2>1, <2>2
    <2>5. \A i \in 1..m : img.txs[i] = l[i] BY <2>1, <2>2, <2>4
    <2>6. img.txs = SubSeq(l, 1, m) BY <2>1, <2>2, <2>3, <2>5
    <2>7. SubSeq(l, 1, m) \o SubSeq(l, m + 1, Len(l)) = SubSeq(l, 1, Len(l))
      <3>1. 1 \in 1..Len(l)+1 /\ m \in 1-1..Len(l) /\ Len(l) \in m..Len(l)
        BY <2>1, <2>2
      <3> HIDE DEF m
      <3> QED BY ONLY <2>1, <3>1, ConcatAdjacentSubSeq
    <2>8. SubSeq(l, 1, Len(l)) = l BY <2>1, SubSeqFull
    <2> QED BY <1>2, <2>1, <2>6, <2>7, <2>8 DEF BootStore
  <1> QED BY <1>1, <1>2

\* So does a compaction.
LEMMA BootGenerationIsLog ==
    ASSUME Types, Disk, BootGeneration
    PROVE  current' = log /\ mark' = Len(log)
  <1>1. image \in Image /\ log \in History /\ synced \in Nat /\ Len(log) \in Nat
    BY DEF Types, DiskTypes, Version, History
  <1>2. synced \in 0..Len(log) BY <1>1 DEF Disk
  <1>3. image.state = "whole" => /\ image.mark = Len(image.txs)
                                 /\ IsPrefixOf(image.txs, SubSeq(log, 1, synced))
    BY DEF Disk, ImageIsDurablePrefix
  <1> QED BY <1>1, <1>2, <1>3, BootStoreIsLog DEF BootGeneration

\* Most steps of a worker move it on and leave the store and the log alone.
Calm(w) ==
    /\ UNCHANGED <<proc, log, synced, current, mark, poisoned>>
    /\ pc[w] # "sync"
    /\ \E l \in (Working \cup {"idle"}) \ {"append", "sync", "image", "imageSync"} :
          pc' = [pc EXCEPT ![w] = l]

LEMMA CalmSteps ==
    ASSUME NEW w \in Client,
           \/ Admit(w) \/ ReadRequest(w) \/ LockDispatch(w) \/ DispatchFails(w)
           \/ DispatchRefuses(w) \/ DispatchRead(w) \/ SyncImage(w)
           \/ EncodeResponse(w) \/ WriteResponse(w) \/ ReleaseResponse(w) \/ EndWorker(w),
           conn[w] = "backlog" => pc[w] = "idle"
    PROVE  Calm(w)
  BY DEF Calm, Working, diskvars, storevars, Admit, Accepting, ReadRequest,
         LockDispatch, DispatchFails, DispatchRefuses, DispatchRead, Dispatching,
         SyncImage, EncodeResponse, WriteResponse, ReleaseResponse, EndWorker, Abort,
         Goto

LEMMA StoreStep ==
    ASSUME Types, Threads, Store, Disk, [Next]_vars
    PROVE  Store'
  <1>a. /\ pc \in [Client -> Working \cup {"idle"}]
        /\ log \in Seq(Client) /\ current \in Seq(Client) /\ synced \in Nat /\ mark \in Nat
        /\ proc \in {"down", "opened", "serving", "draining"}
        /\ clients \subseteq Client
    BY DEF Types, ProcTypes, DiskTypes, StoreTypes, History, Version
  <1>b. BootGeneration => current' = log /\ mark' = Len(log)
    BY BootGenerationIsLog
  <1>c. \A c \in Client : pc[c] # "idle" => Up BY DEF Threads
  <1>d. \A c, d \in Client : pc[c] \in Held /\ pc[d] \in Held => c = d
    BY DispatchAlone
  <1>e. \A c \in Client : pc[c] \in Held <=> mutex = c BY DEF Threads
  <1>f. \A c \in Client : conn[c] = "backlog" => pc[c] = "idle"
    BY DEF Threads
  <1> USE DEF diskvars, storevars, acceptvars
  <1>1. CASE UNCHANGED <<pc, log, synced, current, mark, poisoned>> /\ (Up' <=> Up)
               /\ (proc' = "opened" => proc = "opened")
    BY <1>1 DEF Store
  <1>2. ASSUME NEW w \in Client, Calm(w) PROVE Store'
    <2>1. PICK l \in (Working \cup {"idle"}) \ {"append", "sync", "image", "imageSync"} :
             pc' = [pc EXCEPT ![w] = l]
      BY <1>2 DEF Calm
    <2>2. /\ UNCHANGED <<proc, log, synced, current, mark, poisoned>>
          /\ pc[w] # "sync" /\ pc'[w] = l
          /\ \A c \in Client : c # w => pc'[c] = pc[c]
      BY <1>a, <1>2, <2>1 DEF Calm
    <2>3. \A c \in Client : pc'[c] \in {"append", "sync", "image", "imageSync"} =>
                               pc[c] = pc'[c]
      BY <2>2
    <2>4. (\A c \in Client : pc'[c] # "sync") => \A c \in Client : pc[c] # "sync"
      BY <2>2
    <2> QED BY <2>2, <2>3, <2>4 DEF Store, Up
  <1>3. CASE OpenStore
    <2>1. \A c \in Client : pc'[c] = "idle" BY <1>3, <1>c DEF OpenStore, Up
    <2> QED BY <1>3, <1>b, <2>1 DEF OpenStore, Store, Up
  <1>4. CASE SyncStore
    <2>1. \A c \in Client : pc'[c] = "idle" BY <1>4, <1>c DEF SyncStore, Up
    <2> QED BY <1>4, <2>1 DEF SyncStore, Store, Up
  <1>5. CASE QuietPoll
    <2>1. CASE UNCHANGED storevars BY <1>1, <1>5, <2>1 DEF QuietPoll, Accepting, CompactIdle, Up
    <2>2. CASE mutex = None /\ ~poisoned /\ Compact /\ UNCHANGED <<proc, log, synced, pc>>
      <3>1. \A c \in Client : pc[c] \notin Held BY NativeAssumption, <1>e, <2>2
      <3>2. current' = log /\ mark' = Len(log) /\ ~poisoned'
        BY <1>b, <2>2 DEF Compact
      <3> QED BY <2>2, <3>1, <3>2 DEF Store, Up, Held
    <2> QED BY <1>5, <2>1, <2>2 DEF QuietPoll, CompactIdle
  <1>6. CASE proc' = "down" /\ \A c \in Client : pc'[c] = "idle"
    BY <1>6 DEF Store, Up
  <1>7. ASSUME NEW w \in Client, DispatchCompacts(w) PROVE Store'
    <2>1. /\ UNCHANGED <<proc, log, synced, pc, poisoned>> /\ ~poisoned /\ pc[w] = "dispatch"
          /\ current' = log /\ mark' = Len(log)
      BY <1>7, <1>b DEF DispatchCompacts, Compact
    <2>2. \A c \in Client : pc[c] \notin {"append", "sync", "image", "imageSync"}
      BY <1>d, <2>1 DEF Held
    <2> QED BY <2>1, <2>2 DEF Store, Up
  <1>8. ASSUME NEW w \in Client,
               DispatchWrite(w) \/ DispatchCheckpoint(w) \/ WriteImage(w)
        PROVE  Store'
    <2>1. /\ UNCHANGED <<proc, log, synced, current, mark, poisoned>>
          /\ \A c \in Client : c # w => pc'[c] = pc[c]
          /\ pc[w] \in {"dispatch", "image"} /\ pc'[w] # "sync"
      BY <1>8, <1>a DEF DispatchWrite, DispatchCheckpoint, WriteImage, Dispatching, Goto, Abort
    <2>2. ~poisoned BY <1>8 DEF DispatchWrite, DispatchCheckpoint, WriteImage, Dispatching, Store
    <2>3. \A c \in Client : pc'[c] = "sync" <=> pc[c] = "sync" BY <2>1
    <2> QED BY <2>1, <2>2, <2>3 DEF Store, Up
  <1>9. ASSUME NEW w \in Client, AppendLog(w) PROVE Store'
    <2>1. /\ UNCHANGED <<proc, synced, current, mark>> /\ pc[w] = "append"
          /\ \A c \in Client : c # w => pc'[c] = pc[c]
      BY <1>9, <1>a DEF AppendLog, Goto, Abort
    <2>2. \A c \in Client : c # w => pc[c] \notin Held BY <1>d, <2>1 DEF Held
    <2>3. ~poisoned /\ Up /\ current = log /\ mark = Len(log) /\ synced = Len(log)
      BY <1>c, <2>1, <2>2 DEF Store, Held
    <2>4. CASE log' = Append(log, w) /\ pc'[w] = "sync" /\ ~poisoned'
      BY <2>1, <2>2, <2>3, <2>4 DEF Store, Up, Held
    <2>5. CASE log' = log /\ pc'[w] = "fatalEnd" /\ poisoned'
      BY <2>1, <2>2, <2>3, <2>5 DEF Store, Up, Held
    <2> QED BY <1>9, <1>a, <2>3, <2>4, <2>5 DEF AppendLog, Goto, Abort
  <1>10. ASSUME NEW w \in Client, SyncLog(w) PROVE Store'
    <2>1. /\ UNCHANGED <<proc, log>> /\ pc[w] = "sync" /\ pc'[w] # "sync"
          /\ \A c \in Client : c # w => pc'[c] = pc[c]
          /\ pc'[w] \in {"encode", "fatalEnd"}
      BY <1>10, <1>a DEF SyncLog, Goto, Abort
    <2>2. \A c \in Client : c # w => pc[c] \notin Held BY <1>d, <2>1 DEF Held
    <2>3. Up /\ log = Append(current, w) /\ mark = Len(current)
      BY <1>c, <2>1 DEF Store
    <2>4. CASE current' = Append(current, w) /\ mark' = mark + 1 /\ synced' = Len(log)
      <3>1. Len(Append(current, w)) = Len(current) + 1 BY <1>a
      <3> QED BY <2>1, <2>2, <2>3, <2>4, <3>1 DEF Store, Up, Held
    <2>5. CASE UNCHANGED <<current, synced>> /\ poisoned'
      BY <2>1, <2>2, <2>3, <2>5 DEF Store, Up, Held
    <2> QED BY <1>10, <2>4, <2>5 DEF SyncLog
  <1>11. CASE Shutdown
    <2>1. \A c \in Client : pc'[c] = "idle" BY <1>11, ThreadsStep DEF Shutdown, Threads, Up
    <2> QED BY <1>6, <1>11, <2>1 DEF Shutdown
  <1>12. CASE Crash \/ PowerLoss BY <1>6, <1>12 DEF Crash, PowerLoss, Gone
  <1>13. CASE Peer \/ LeaveLoop \/ Signal \/ AcceptFails
              \/ (\E c \in Client : Drain(c) \/ Refuse(c))
    BY <1>1, <1>13 DEF Peer, Connect, PeerMoves, LeaveLoop, Signal, AcceptFails, Accepting,
                       Drain, Refuse, Up
  <1>14. CASE UNCHANGED vars BY <1>1, <1>14 DEF vars, Up
  <1>15. ASSUME NEW w \in Client, Admit(w) \/ Worker(w) PROVE Store'
    BY <1>15, <1>2, <1>7, <1>8, <1>9, <1>10, <1>f, CalmSteps DEF Worker
  <1> QED BY <1>3, <1>4, <1>5, <1>11, <1>12, <1>13, <1>14, <1>15
          DEF Next, Boot, Acceptor, Fault, Peer

\* A prefix, place by place.
LEMMA PrefixByPlace ==
    ASSUME NEW h \in Seq(Client), NEW l \in Seq(Client), NEW k \in 0..Len(l)
    PROVE  IsPrefixOf(h, SubSeq(l, 1, k)) <=>
             Len(h) <= k /\ \A i \in 1..Len(h) : h[i] = l[i]
  <1>1. Len(h) \in Nat /\ Len(l) \in Nat OBVIOUS
  <1>2. /\ SubSeq(l, 1, k) \in Seq(Client) /\ Len(SubSeq(l, 1, k)) = k
        /\ \A i \in 1..k : SubSeq(l, 1, k)[i] = l[i]
    BY <1>1
  <1>3. ASSUME Len(h) <= k
        PROVE  /\ SubSeq(SubSeq(l, 1, k), 1, Len(h)) \in Seq(Client)
               /\ Len(SubSeq(SubSeq(l, 1, k), 1, Len(h))) = Len(h)
               /\ \A i \in 1..Len(h) : SubSeq(SubSeq(l, 1, k), 1, Len(h))[i] = l[i]
    BY <1>1, <1>2, <1>3
  <1>4. ASSUME Len(h) <= k, \A i \in 1..Len(h) : h[i] = l[i]
        PROVE  SubSeq(SubSeq(l, 1, k), 1, Len(h)) = h
    BY <1>3, <1>4, SeqEqual
  <1> QED BY <1>1, <1>2, <1>3, <1>4 DEF IsPrefixOf

\* An image of the first k frames of l is one of the first j frames of m, when
\* m keeps those k.
LEMMA PrefixKept ==
    ASSUME NEW h \in Seq(Client), NEW l \in Seq(Client), NEW m \in Seq(Client),
           NEW k \in 0..Len(l), NEW j \in 0..Len(m), k <= j,
           \A i \in 1..k : m[i] = l[i],
           IsPrefixOf(h, SubSeq(l, 1, k))
    PROVE  IsPrefixOf(h, SubSeq(m, 1, j))
  <1>1. Len(h) <= k /\ \A i \in 1..Len(h) : h[i] = l[i] BY PrefixByPlace
  <1>2. Len(h) \in Nat OBVIOUS
  <1>3. Len(h) <= j /\ \A i \in 1..Len(h) : h[i] = m[i] BY <1>1, <1>2
  <1> QED BY <1>3, PrefixByPlace

\* A write that is cut short may have reached its frame, and no more.
LEMMA ReachedFrames ==
    ASSUME log \in Seq(Client), NEW l \in Reached
    PROVE  /\ l \in Seq(Client) /\ Len(l) \in Nat /\ Len(log) <= Len(l)
           /\ \A i \in 1..Len(log) : l[i] = log[i]
           /\ l = log \/ \E c \in Client : pc[c] = "append" /\ l = Append(log, c)
  <1>1. CASE l = log BY <1>1
  <1>2. ASSUME NEW c \in Client, pc[c] = "append", l = Append(log, c)
        PROVE  l \in Seq(Client) /\ Len(l) = Len(log) + 1
               /\ \A i \in 1..Len(log) : l[i] = log[i]
    BY <1>2
  <1>3. l = log \/ \E c \in Client : pc[c] = "append" /\ l = Append(log, c)
    BY DEF Reached, InWrite
  <1> QED BY <1>1, <1>2, <1>3

\* No step takes back a frame that is synced.
SyncedKept ==
    /\ log' \in Seq(Client) /\ synced' \in Nat
    /\ synced <= synced' /\ synced' <= Len(log')
    /\ \A i \in 1..synced : log'[i] = log[i]

LEMMA SyncedKeptStep ==
    ASSUME Types, Disk, [Next]_vars
    PROVE  SyncedKept
  <1> USE DEF SyncedKept
  <1>a. log \in Seq(Client) /\ synced \in Nat /\ synced \in 0..Len(log) /\ Len(log) \in Nat
    BY DEF Types, DiskTypes, History, Version, Disk
  <1>1. CASE UNCHANGED <<log, synced>> BY <1>1, <1>a
  <1>2. CASE SyncStore \/ Shutdown BY <1>2, <1>a DEF SyncStore, Shutdown
  <1>3. CASE Crash
    <2>1. log' \in Reached /\ synced' = synced BY <1>3 DEF Crash
    <2> QED BY <1>a, <2>1, ReachedFrames
  <1>4. CASE PowerLoss
    <2>1. PICK l \in Reached : \E k \in synced..Len(l) : log' = SubSeq(l, 1, k)
      BY <1>4 DEF PowerLoss
    <2>2. PICK k \in synced..Len(l) : log' = SubSeq(l, 1, k)
      BY <2>1
    <2>3. l \in Seq(Client) /\ Len(l) \in Nat /\ \A i \in 1..synced : l[i] = log[i]
      BY <1>a, ReachedFrames
    <2>4. /\ log' \in Seq(Client) /\ Len(log') = k /\ \A i \in 1..k : log'[i] = l[i]
      BY <1>a, <2>2, <2>3
    <2>5. synced' = Len(log') BY <1>4 DEF PowerLoss
    <2> QED BY <1>a, <2>2, <2>3, <2>4, <2>5
  <1>5. ASSUME NEW c \in Client, AppendLog(c) PROVE SyncedKept
    BY <1>5, <1>a DEF AppendLog
  <1>6. ASSUME NEW c \in Client, SyncLog(c) PROVE SyncedKept
    BY <1>6, <1>a DEF SyncLog
  <1>7. ASSUME NEW c \in Client, DispatchCheckpoint(c) \/ WriteImage(c) \/ SyncImage(c)
        PROVE  SyncedKept
    BY <1>1, <1>7 DEF DispatchCheckpoint, WriteImage, SyncImage
  <1> QED BY <1>1, <1>2, <1>3, <1>4, <1>5, <1>6, <1>7, DiskSteps

LEMMA DiskStep ==
    ASSUME Types, Threads, Store, Disk, [Next]_vars
    PROVE  Disk'
  <1> DEFINE Durable(img, l, k) ==
          img.state = "whole" => /\ img.mark = Len(img.txs)
                                 /\ IsPrefixOf(img.txs, SubSeq(l, 1, k))
  <1>a. /\ log \in Seq(Client) /\ synced \in Nat /\ synced \in 0..Len(log) /\ Len(log) \in Nat
        /\ image \in Image /\ imageDisk \in Image /\ current \in Seq(Client)
        /\ Durable(image, log, synced) /\ Durable(imageDisk, log, synced)
    BY DEF Types, DiskTypes, StoreTypes, History, Version, Disk, ImageIsDurablePrefix
  <1>b. \A img \in Image : img.txs \in Seq(Client) BY DEF Image, History
  <1>c. SyncedKept BY SyncedKeptStep
  <1>d. ASSUME NEW img \in Image, Durable(img, log, synced)
        PROVE  Durable(img, log', synced')
    BY <1>a, <1>b, <1>c, <1>d, PrefixKept DEF SyncedKept
  <1>e. NoFile.state # "whole" /\ Torn.state # "whole" BY DEF NoFile, Torn
  <1>f. ASSUME image' \in {image, imageDisk, NoFile, Torn},
               imageDisk' \in {image, imageDisk, NoFile, Torn}
        PROVE  Disk'
    <2> HIDE DEF Durable
    <2>1. \A img \in {image, imageDisk} : Durable(img, log', synced') BY <1>a, <1>d
    <2>2. Durable(NoFile, log', synced') /\ Durable(Torn, log', synced')
      BY <1>e DEF Durable
    <2>3. Durable(image', log', synced') /\ Durable(imageDisk', log', synced')
      BY <1>f, <2>1, <2>2
    <2> QED BY <1>c, <2>3 DEF SyncedKept, Disk, ImageIsDurablePrefix, Durable
  <1>1. CASE UNCHANGED <<log, synced, image, imageDisk>> BY <1>1, <1>f
  <1>2. CASE SyncStore BY <1>2, <1>f DEF SyncStore
  <1>3. CASE Shutdown BY <1>3, <1>f DEF Shutdown
  <1>4. CASE Crash BY <1>4, <1>f DEF Crash
  <1>5. CASE PowerLoss BY <1>5, <1>f DEF PowerLoss
  <1>6. ASSUME NEW c \in Client, AppendLog(c) \/ SyncLog(c) \/ SyncImage(c) PROVE Disk'
    BY <1>6, <1>f DEF AppendLog, SyncLog, SyncImage
  <1>7. ASSUME NEW c \in Client, DispatchCheckpoint(c) PROVE Disk'
    BY <1>7, <1>f DEF DispatchCheckpoint
  <1>8. ASSUME NEW c \in Client, WriteImage(c) PROVE Disk'
    <2>1. UNCHANGED <<log, synced, imageDisk>> BY <1>8 DEF WriteImage
    <2>2. CASE image' \in {NoFile, Torn} BY <1>f, <2>1, <2>2
    <2>3. CASE image' = [state |-> "whole", txs |-> current, mark |-> mark]
      <3>1. pc[c] = "image" BY <1>8 DEF WriteImage
      <3>2. Up /\ ~poisoned /\ \A d \in Client : pc[d] # "sync"
        BY <3>1, DispatchAlone DEF Threads, Store, Held
      <3>3. current = log /\ mark = Len(log) /\ synced = Len(log)
        BY <3>2 DEF Store
      <3>4. IsPrefixOf(log, SubSeq(log, 1, Len(log))) BY <1>a, PrefixByPlace
      <3>5. Durable(image', log', synced') BY <2>1, <2>3, <3>3, <3>4 DEF Durable
      <3> QED BY <1>a, <2>1, <3>5 DEF Durable, Disk, ImageIsDurablePrefix
    <2> QED BY <1>8, <2>2, <2>3 DEF WriteImage
  <1> QED BY <1>1, <1>2, <1>3, <1>4, <1>5, <1>6, <1>7, <1>8, DiskSteps

-----------------------------------------------------------------------------
(* What the log holds, and what clients are told of it                     *)

LEMMA LogSteps ==
    ASSUME Types, Disk, [Next]_vars
    PROVE  \/ UNCHANGED log
           \/ \E c \in Client : AppendLog(c) /\ log' = Append(log, c)
           \/ /\ Crash \/ PowerLoss
              /\ \E l \in Reached : \E k \in 0..Len(l) : log' = SubSeq(l, 1, k)
  <1>a. log \in Seq(Client) /\ synced \in Nat
    BY DEF Types, DiskTypes, History, Version
  <1>1. CASE Crash
    <2>1. log' \in Reached BY <1>1 DEF Crash
    <2>2. log' \in Seq(Client) /\ Len(log') \in Nat BY <1>a, <2>1, ReachedFrames
    <2>3. log' = SubSeq(log', 1, Len(log')) BY <2>2, SubSeqFull
    <2>4. Len(log') \in 0..Len(log') BY <2>2
    <2>5. \E k \in 0..Len(log') : log' = SubSeq(log', 1, k) BY <2>3, <2>4
    <2> QED BY <1>1, <2>1, <2>5
  <1>2. CASE PowerLoss
    <2>1. PICK l \in Reached : \E k \in synced..Len(l) : log' = SubSeq(l, 1, k)
      BY <1>2 DEF PowerLoss
    <2> QED BY <1>2, <1>a, <2>1
  <1> QED BY <1>1, <1>2, DiskSteps DEF SyncStore, Shutdown, AppendLog, SyncLog,
             DispatchCheckpoint, WriteImage, SyncImage

\* A request is in the log at most once, and a step puts none there but the
\* one that is being appended.
LEMMA LoggedStep ==
    ASSUME Types, Threads, Disk, Once, [Next]_vars
    PROVE  /\ \A i, j \in 1..Len(log') : log'[i] = log'[j] => i = j
           /\ \A c \in Client : Logged(c)' => Logged(c) \/ pc[c] = "append"
  <1>a. log \in Seq(Client) BY DEF Types, DiskTypes, History
  <1>b. \A c \in Client : pc[c] = "append" => ~Logged(c)
    BY DEF Threads, Once
  <1>c. \A i, j \in 1..Len(log) : log[i] = log[j] => i = j BY DEF Once
  <1>d. \A c, d \in Client : pc[c] = "append" /\ pc[d] = "append" => c = d
    BY DispatchAlone DEF Held
  <1>1. ASSUME NEW c \in Client, pc[c] = "append"
        PROVE  /\ \A i, j \in 1..Len(Append(log, c)) : Append(log, c)[i] = Append(log, c)[j] => i = j
               /\ \A i \in 1..Len(Append(log, c)) : Append(log, c)[i] = c \/ Logged(Append(log, c)[i])
    <2>1. /\ Len(Append(log, c)) = Len(log) + 1 /\ Append(log, c)[Len(log) + 1] = c
          /\ \A i \in 1..Len(log) : Append(log, c)[i] = log[i] /\ log[i] # c
          /\ Len(log) \in Nat
      BY <1>1, <1>a, <1>b DEF Logged
    <2> QED BY <1>c, <2>1 DEF Logged
  <1>2. ASSUME NEW l \in Reached
        PROVE  /\ \A i, j \in 1..Len(l) : l[i] = l[j] => i = j
               /\ \A c \in Client : \A i \in 1..Len(l) : l[i] = c => Logged(c) \/ pc[c] = "append"
    BY <1>a, <1>c, <1>1, ReachedFrames DEF Logged
  <1>3. CASE UNCHANGED log BY <1>3, <1>c DEF Logged
  <1>4. ASSUME NEW c \in Client, AppendLog(c), log' = Append(log, c)
        PROVE  /\ \A i, j \in 1..Len(log') : log'[i] = log'[j] => i = j
               /\ \A d \in Client : Logged(d)' => Logged(d) \/ pc[d] = "append"
    <2>1. log' \in Reached BY <1>4 DEF AppendLog, Reached, InWrite
    <2> QED BY <1>2, <2>1 DEF Logged
  <1>5. ASSUME NEW l \in Reached, NEW k \in 0..Len(l), log' = SubSeq(l, 1, k)
        PROVE  /\ \A i, j \in 1..Len(log') : log'[i] = log'[j] => i = j
               /\ \A d \in Client : Logged(d)' => Logged(d) \/ pc[d] = "append"
    <2>1. l \in Seq(Client) /\ Len(l) \in Nat BY <1>a, ReachedFrames
    <2>2. Len(log') = k /\ \A i \in 1..k : i \in 1..Len(l) /\ log'[i] = l[i]
      BY <1>5, <2>1
    <2> QED BY <1>2, <2>2 DEF Logged
  <1> QED BY <1>3, <1>4, <1>5, LogSteps

LEMMA OnceStep ==
    ASSUME Types, Threads, Disk, Once, [Next]_vars
    PROVE  Once'
  <1> DEFINE Late == {"sync", "encode", "respond", "release", "end", "fatalEnd"}
  <1>a. /\ pc \in [Client -> Working \cup {"idle"}]
        /\ conn \in [Client -> {"none", "backlog", "admitted", "closed"}]
    BY DEF Types, ProcTypes, ConnTypes
  <1>1. SUFFICES ASSUME NEW c \in Client, Logged(c)'
                 PROVE  conn'[c] = "closed" \/ pc'[c] \in Late
    BY LoggedStep DEF Once
  <1>b. pc[c] # "idle" <=> conn[c] = "admitted" BY DEF Threads
  <1>2. CASE log' = log /\ Logged(c)
    <2>1. conn[c] = "closed" \/ pc[c] \in Late BY <1>2 DEF Once
    <2> QED BY <1>a, <1>b, <2>1
        DEF Next, vars, Boot, Acceptor, Worker, Peer, Fault, connvars, OpenStore,
            SyncStore, Accepting, QuietPoll, LeaveLoop, Shutdown, Signal, AcceptFails,
            Connect, PeerMoves, Drain, Refuse, Admit, ReadRequest, Closed, LockDispatch,
            DispatchFails, DispatchCompacts, DispatchRefuses, Dispatching, DispatchRead,
            DispatchWrite, AppendLog, SyncLog, DispatchCheckpoint, WriteImage, SyncImage,
            EncodeResponse, WriteResponse, ReleaseResponse, EndWorker, Crash, PowerLoss,
            Gone, Goto, Abort
  <1>3. ASSUME NEW w \in Client, AppendLog(w), log' = Append(log, w)
        PROVE  conn'[c] = "closed" \/ pc'[c] \in Late
    <2>0. log \in Seq(Client) BY DEF Types, DiskTypes, History
    <2>1. log' # log
      <3>1. Len(log') = Len(log) + 1 /\ Len(log) \in Nat BY <1>3, <2>0
      <3> QED BY <3>1
    <2>2. pc'[w] = "sync" /\ UNCHANGED conn /\ \A d \in Client : d # w => pc'[d] = pc[d]
      BY <1>a, <1>3, <2>1 DEF AppendLog, Goto, Abort, connvars
    <2>3. CASE c = w BY <2>2, <2>3
    <2>4. CASE c # w
      <3>1. Logged(c)
        <4>1. Len(log') = Len(log) + 1 /\ Len(log) \in Nat /\ log'[Len(log) + 1] = w
              /\ \A i \in 1..Len(log) : log'[i] = log[i]
          BY <1>3, <2>0
        <4> QED BY <1>1, <2>4, <4>1 DEF Logged
      <3> QED BY <2>2, <2>4, <3>1 DEF Once
    <2> QED BY <2>3, <2>4
  <1>4. CASE Crash \/ PowerLoss
    <2>1. conn[c] \in {"admitted", "closed"}
      BY <1>1, <1>a, <1>b, LoggedStep DEF Once
    <2> QED BY <1>4, <2>1 DEF Crash, PowerLoss, Gone
  <1> QED BY <1>1, <1>2, <1>3, <1>4, LogSteps DEF Logged

\* What was true of a message about a request stays true.
LEMMA ToldStep ==
    ASSUME Types, Threads, Disk, Once, [Next]_vars, NEW c \in Client, NEW m \in Message,
           Told(c, m),
           m # NoMsg => pc[c] # "append" /\ conn[c] # "none"
    PROVE  /\ m.code = "committed" => \E i \in 1..synced' : log'[i] = c
           /\ m.code \in {"conflict", "refused"} => ~Logged(c)'
           /\ m.code = "committed" /\ req'[c].expected # None =>
                 m.version = req'[c].expected + 1
  <1>1. CASE m = NoMsg BY <1>1 DEF NoMsg
  <1>2. CASE m # NoMsg
    <2>1. m.code = "committed" => \E i \in 1..synced' : log'[i] = c
      <3>1. synced \in Nat BY DEF Types, DiskTypes, Version
      <3> QED BY <3>1, SyncedKeptStep DEF Told, SyncedKept
    <2>2. m.code \in {"conflict", "refused"} => ~Logged(c)'
      BY <1>2, LoggedStep DEF Told
    <2>3. req'[c] = req[c]
      <3>1. req \in [Client -> [op : Op, expected : Version \cup {None}]]
        BY DEF Types, ConnTypes
      <3>2. \A w \in Client : Connect(w) => w # c /\ \E r : req' = [req EXCEPT ![w] = r]
        BY <1>2 DEF Connect
      <3>3. UNCHANGED req \/ \E w \in Client : Connect(w)
        BY DEF Next, vars, Boot, Acceptor, Worker, Peer, Fault, connvars, OpenStore,
            SyncStore, QuietPoll, LeaveLoop, Shutdown, Signal, AcceptFails,
            PeerMoves, Drain, Refuse, Admit, ReadRequest, LockDispatch,
            DispatchFails, DispatchCompacts, DispatchRefuses, DispatchRead,
            DispatchWrite, AppendLog, SyncLog, DispatchCheckpoint, WriteImage, SyncImage,
            EncodeResponse, WriteResponse, ReleaseResponse, EndWorker, Crash, PowerLoss,
            Gone
      <3> QED BY <3>1, <3>2, <3>3
    <2> QED BY <2>1, <2>2, <2>3 DEF Told
  <1> QED BY <1>1, <1>2

\* The version that a write expects is still the served one when it is synced.
LEMMA ExpectedStep ==
    ASSUME Types, Threads, [Next]_vars, NEW c \in Client,
           pc[c] \in {"append", "sync"} => Expected(c),
           pc'[c] \in {"append", "sync"}
    PROVE  Expected(c)'
  <1>a. /\ pc \in [Client -> Working \cup {"idle"}]
        /\ req \in [Client -> [op : Op, expected : Version \cup {None}]]
    BY DEF Types, ProcTypes, ConnTypes
  <1>b. \A w \in Client : pc[w] \in Held <=> mutex = w BY DEF Threads
  <1>c. \A w \in Client : /\ pc[w] # "idle" => Up
                          /\ pc[w] # "idle" <=> conn[w] = "admitted"
    BY DEF Threads
  <1>1. /\ DispatchWrite(c) \/ AppendLog(c)
              \/ (pc'[c] = pc[c] /\ pc[c] \in {"append", "sync"})
        /\ proc' # "down"
    <2> USE DEF Admit, ReadRequest, LockDispatch, DispatchFails, DispatchCompacts,
            DispatchRefuses, Dispatching, DispatchRead, SyncLog,
            DispatchCheckpoint, WriteImage, SyncImage, EncodeResponse, WriteResponse,
            ReleaseResponse, EndWorker, Goto, Abort
    <2>1. ASSUME NEW w \in Client, Worker(w) \/ Admit(w)
          PROVE  w = c \/ pc'[c] = pc[c]
      BY <1>a, <2>1 DEF Worker, DispatchWrite, AppendLog
    <2>2. Worker(c) \/ Admit(c) => DispatchWrite(c) \/ AppendLog(c)
      BY <1>a DEF Worker
    <2>3. (\E w \in Client : Worker(w) \/ Admit(w)) \/ pc'[c] = pc[c]
      BY <1>a, <1>c DEF Next, vars, Boot, Acceptor, Peer, Fault, OpenStore, SyncStore,
             QuietPoll, LeaveLoop, Shutdown, Signal, AcceptFails, Connect, PeerMoves,
             Drain, Refuse, Crash, PowerLoss, Gone
    <2>4. \/ DispatchWrite(c) \/ AppendLog(c)
          \/ pc'[c] = pc[c] /\ pc[c] \in {"append", "sync"}
      <3> HIDE DEF Worker, Admit
      <3> QED BY <2>1, <2>2, <2>3
    <2>5. proc' # "down"
      <3>1. pc'[c] # "idle" /\ proc \in {"down", "opened", "serving", "draining"}
        BY DEF Types, ProcTypes
      <3>2. Threads' BY ThreadsStep
      <3> QED BY <3>1, <3>2 DEF Threads, Up
    <2> QED BY <2>4, <2>5
  <1>2. CASE DispatchWrite(c) BY <1>2 DEF DispatchWrite, Expected, storevars, connvars
  <1>3. CASE AppendLog(c) BY <1>3 DEF AppendLog, Expected, connvars
  <1>4. CASE pc'[c] = pc[c] /\ pc[c] \in {"append", "sync"}
    <2>1. mutex = c /\ conn[c] = "admitted" /\ Up BY <1>b, <1>c, <1>4 DEF Held
    <2>2. mutex # None BY NativeAssumption, <2>1
    <2>3. UNCHANGED current
      <3>1. \A w \in Client : ~DispatchCompacts(w) /\ ~(SyncLog(w) /\ w # c)
        BY <1>b, <1>4, <2>1 DEF DispatchCompacts, SyncLog, Held
      <3>2. ~SyncLog(c) BY <1>a, <1>4 DEF SyncLog, Goto, Abort
      <3> QED BY <1>1, <2>1, <2>2, <3>1, <3>2, StoreSteps
          DEF storevars, OpenStore, SyncStore, QuietPoll, CompactIdle, Shutdown, Crash,
              PowerLoss, Gone, AppendLog, DispatchRead, Up
    <2>4. req'[c] = req[c]
      BY <1>a, <2>1
        DEF Next, vars, Boot, Acceptor, Worker, Peer, Fault, connvars, OpenStore,
            SyncStore, QuietPoll, LeaveLoop, Shutdown, Signal, AcceptFails, Connect,
            PeerMoves, Drain, Refuse, Admit, ReadRequest, LockDispatch,
            DispatchFails, DispatchCompacts, DispatchRefuses, DispatchRead,
            DispatchWrite, AppendLog, SyncLog, DispatchCheckpoint, WriteImage, SyncImage,
            EncodeResponse, WriteResponse, ReleaseResponse, EndWorker, Crash, PowerLoss,
            Gone
    <2> QED BY <1>4, <2>3, <2>4 DEF Expected
  <1> QED BY <1>1, <1>2, <1>3, <1>4

LEMMA AnswersStep ==
    ASSUME IInv, [Next]_vars
    PROVE  Answers'
  <1> USE DEF IInv
  <1> SUFFICES ASSUME NEW c \in Client
        PROVE  /\ Told(c, answer[c])' /\ Told(c, reply[c])'
               /\ conn'[c] \in {"none", "backlog"} => answer'[c] = NoMsg /\ reply'[c] = NoMsg
               /\ pc'[c] \in {"reading", "ready", "dispatch", "append", "sync"} =>
                     answer'[c] = NoMsg
               /\ pc'[c] \notin {"release", "end", "idle"} => reply'[c] = NoMsg
               /\ pc'[c] \in {"append", "sync"} => Expected(c)'
    BY DEF Answers
  <1>a. /\ pc \in [Client -> Working \cup {"idle"}]
        /\ conn \in [Client -> {"none", "backlog", "admitted", "closed"}]
        /\ answer \in [Client -> Message] /\ reply \in [Client -> Message]
        /\ current \in Seq(Client) /\ log \in Seq(Client)
    BY DEF Types, ProcTypes, ConnTypes, StoreTypes, DiskTypes, History
  <1>b. pc[c] # "idle" <=> conn[c] = "admitted" BY DEF Threads
  <1>c. /\ Told(c, answer[c]) /\ Told(c, reply[c])
        /\ conn[c] \in {"none", "backlog"} => answer[c] = NoMsg /\ reply[c] = NoMsg
        /\ pc[c] \in {"reading", "ready", "dispatch", "append", "sync"} => answer[c] = NoMsg
        /\ pc[c] \notin {"release", "end", "idle"} => reply[c] = NoMsg
        /\ pc[c] \in {"append", "sync"} => Expected(c)
    BY DEF Answers
  <1>1. /\ conn'[c] \in {"none", "backlog"} => answer'[c] = NoMsg /\ reply'[c] = NoMsg
        /\ pc'[c] \in {"reading", "ready", "dispatch", "append", "sync"} =>
              answer'[c] = NoMsg
        /\ pc'[c] \notin {"release", "end", "idle"} => reply'[c] = NoMsg
    <2> USE DEF Next, vars, Boot, Acceptor, Worker, Peer, Fault, connvars, OpenStore,
            SyncStore, Accepting, QuietPoll, LeaveLoop, Shutdown, Signal, AcceptFails,
            Connect, PeerMoves, Drain, Refuse, Admit, ReadRequest, Closed, LockDispatch,
            DispatchFails, DispatchCompacts, DispatchRefuses, Dispatching, DispatchRead,
            DispatchWrite, AppendLog, SyncLog, DispatchCheckpoint, WriteImage, SyncImage,
            EncodeResponse, WriteResponse, ReleaseResponse, EndWorker, Crash, PowerLoss,
            Gone, Goto, Abort, Answering
    <2>1. conn'[c] \in {"none", "backlog"} => answer'[c] = NoMsg /\ reply'[c] = NoMsg
      BY <1>a, <1>b, <1>c
    <2>2. pc'[c] \in {"reading", "ready", "dispatch", "append", "sync"} =>
             answer'[c] = NoMsg
      BY <1>a, <1>b, <1>c
    <2>3. pc'[c] \notin {"release", "end", "idle"} => reply'[c] = NoMsg
      BY <1>a, <1>b, <1>c
    <2> QED BY <2>1, <2>2, <2>3
  <1>2. pc'[c] \in {"append", "sync"} => Expected(c)' BY <1>c, ExpectedStep
  <1>d. ASSUME NEW m \in {answer[c], reply[c]}
        PROVE  /\ m.code = "committed" => \E i \in 1..synced' : log'[i] = c
               /\ m.code \in {"conflict", "refused"} => ~Logged(c)'
               /\ m.code = "committed" /\ req'[c].expected # None =>
                     m.version = req'[c].expected + 1
    <2>1. m \in Message /\ Told(c, m) BY <1>a, <1>c
    <2>2. m # NoMsg => pc[c] # "append" /\ conn[c] # "none" BY <1>c
    <2> QED BY <2>1, <2>2, ToldStep
  <1>3. Told(c, reply[c])'
    <2>1. reply'[c] \in {reply[c], answer[c]}
      BY <1>a DEF Next, vars, Boot, Acceptor, Worker, Peer, Fault, connvars, OpenStore,
            SyncStore, QuietPoll, LeaveLoop, Shutdown, Signal, AcceptFails,
            Connect, PeerMoves, Drain, Refuse, Admit, ReadRequest, LockDispatch,
            DispatchFails, DispatchCompacts, DispatchRefuses, DispatchRead,
            DispatchWrite, AppendLog, SyncLog, DispatchCheckpoint, WriteImage, SyncImage,
            EncodeResponse, WriteResponse, ReleaseResponse, EndWorker, Crash, PowerLoss,
            Gone
    <2> QED BY <1>d, <2>1 DEF Told
  <1>4. Told(c, answer[c])'
    <2>1. \/ answer'[c] \in {answer[c], NoMsg} \/ answer'[c].code = "ok"
          \/ DispatchRefuses(c) /\ answer'[c].code \in {"conflict", "refused"}
          \/ SyncLog(c) /\ answer' = [answer EXCEPT ![c] =
                               [code |-> "committed", version |-> Len(current) + 1]]
      BY <1>a DEF Next, vars, Boot, Acceptor, Worker, Peer, Fault, connvars, OpenStore,
            SyncStore, QuietPoll, LeaveLoop, Shutdown, Signal, AcceptFails,
            Connect, PeerMoves, Drain, Refuse, Admit, ReadRequest, LockDispatch,
            DispatchFails, DispatchCompacts, DispatchRefuses, DispatchRead,
            DispatchWrite, AppendLog, SyncLog, DispatchCheckpoint, WriteImage, SyncImage,
            EncodeResponse, WriteResponse, ReleaseResponse, EndWorker, Crash, PowerLoss,
            Gone, Answering
    <2>2. CASE answer'[c] = NoMsg \/ answer'[c].code = "ok" BY <2>2 DEF Told, NoMsg
    <2>3. CASE answer'[c] = answer[c] BY <2>3, <1>d DEF Told
    <2>4. CASE DispatchRefuses(c) /\ answer'[c].code \in {"conflict", "refused"}
      <3>1. pc[c] = "dispatch" /\ log' = log
        BY <2>4 DEF DispatchRefuses, Dispatching, diskvars
      <3>2. ~Logged(c) BY <1>b, <3>1 DEF Once
      <3> QED BY <2>4, <3>1, <3>2 DEF Told, Logged
    <2>5. CASE SyncLog(c) /\ answer' = [answer EXCEPT ![c] =
                                [code |-> "committed", version |-> Len(current) + 1]]
      <3>1. answer'[c] = [code |-> "committed", version |-> Len(current) + 1]
        BY <1>a, <2>5
      <3>2. pc[c] = "sync" /\ log = Append(current, c) /\ log' = log /\ req' = req
        BY <2>5 DEF SyncLog, Store
      <3>3. synced' = Len(log)
        <4>1. answer' # answer BY <1>a, <1>c, <3>1, <3>2 DEF NoMsg
        <4> QED BY <2>5, <4>1 DEF SyncLog
      <3>4. Len(log) = Len(current) + 1 /\ log[Len(log)] = c /\ Len(current) \in Nat
        BY <1>a, <3>2
      <3>5. req[c].expected \in {None, Len(current)} BY <1>c, <3>2 DEF Expected
      <3>6. \E i \in 1..synced' : log'[i] = c
        <4>1. Len(log) \in 1..synced' /\ log'[Len(log)] = c BY <3>2, <3>3, <3>4
        <4> QED BY <4>1
      <3>7. req'[c].expected # None => answer'[c].version = req'[c].expected + 1
        BY <3>1, <3>2, <3>4, <3>5
      <3> QED BY <3>1, <3>6, <3>7 DEF Told
    <2> QED BY <2>1, <2>2, <2>3, <2>4, <2>5
  <1> QED BY <1>1, <1>2, <1>3, <1>4

LEMMA ShownStep ==
    ASSUME Types, Threads, Store, Disk, Shown, [Next]_vars
    PROVE  Shown'
  <1> SUFFICES ASSUME NEW c \in Client
        PROVE  answer'[c].version <= synced' /\ reply'[c].version <= synced'
    BY DEF Shown
  <1>a. /\ answer \in [Client -> Message] /\ reply \in [Client -> Message]
        /\ current \in Seq(Client) /\ log \in Seq(Client) /\ synced \in Nat
        /\ Len(current) \in Nat /\ Len(log) \in Nat
        /\ answer[c].version \in Nat /\ reply[c].version \in Nat
    BY DEF Types, ConnTypes, StoreTypes, DiskTypes, History, Version, Message
  <1>b. synced' \in Nat /\ synced <= synced' BY SyncedKeptStep DEF SyncedKept
  <1>c. answer[c].version <= synced /\ reply[c].version <= synced BY DEF Shown
  <1>1. reply'[c].version <= synced'
    <2>1. reply'[c] \in {reply[c], answer[c]}
      BY <1>a DEF Next, vars, Boot, Acceptor, Worker, Peer, Fault, connvars, OpenStore,
            SyncStore, QuietPoll, LeaveLoop, Shutdown, Signal, AcceptFails,
            Connect, PeerMoves, Drain, Refuse, Admit, ReadRequest, LockDispatch,
            DispatchFails, DispatchCompacts, DispatchRefuses, DispatchRead,
            DispatchWrite, AppendLog, SyncLog, DispatchCheckpoint, WriteImage, SyncImage,
            EncodeResponse, WriteResponse, ReleaseResponse, EndWorker, Crash, PowerLoss,
            Gone
    <2> QED BY <1>a, <1>b, <1>c, <2>1
  <1>2. answer'[c].version <= synced'
    <2>1. \/ answer'[c] \in {answer[c], NoMsg}
          \/ Dispatching(c) /\ answer'[c].version = Len(current)
          \/ SyncLog(c) /\ answer' = [answer EXCEPT ![c] =
                               [code |-> "committed", version |-> Len(current) + 1]]
      BY <1>a DEF Next, vars, Boot, Acceptor, Worker, Peer, Fault, connvars, OpenStore,
            SyncStore, QuietPoll, LeaveLoop, Shutdown, Signal, AcceptFails,
            Connect, PeerMoves, Drain, Refuse, Admit, ReadRequest, LockDispatch,
            DispatchFails, DispatchCompacts, DispatchRefuses, DispatchRead,
            DispatchWrite, AppendLog, SyncLog, DispatchCheckpoint, WriteImage, SyncImage,
            EncodeResponse, WriteResponse, ReleaseResponse, EndWorker, Crash, PowerLoss,
            Gone, Answering
    <2>2. CASE answer'[c] \in {answer[c], NoMsg} BY <1>a, <1>b, <1>c, <2>2 DEF NoMsg
    <2>3. CASE Dispatching(c) /\ answer'[c].version = Len(current)
      <3>1. pc[c] = "dispatch" /\ ~poisoned BY <2>3 DEF Dispatching
      <3>2. Up /\ \A d \in Client : pc[d] # "sync"
        BY <3>1, DispatchAlone DEF Threads, Held
      <3>3. synced = Len(current) BY <3>1, <3>2 DEF Store
      <3> QED BY <1>b, <2>3, <3>3
    <2>4. CASE SyncLog(c) /\ answer' = [answer EXCEPT ![c] =
                                [code |-> "committed", version |-> Len(current) + 1]]
      <3>1. pc[c] = "sync" /\ log = Append(current, c) /\ synced = Len(current)
        BY <2>4 DEF SyncLog, Store
      <3>2. Len(log) = Len(current) + 1 BY <1>a, <3>1
      <3>3. CASE answer' = answer BY <1>a, <1>b, <1>c, <3>3
      <3>4. CASE synced' = Len(log)
        <4>1. answer'[c].version = Len(current) + 1 BY <1>a, <2>4
        <4> QED BY <3>2, <3>4, <4>1, <1>a
      <3> QED BY <2>4, <3>3, <3>4 DEF SyncLog
    <2> QED BY <2>1, <2>2, <2>3, <2>4
  <1> QED BY <1>1, <1>2

-----------------------------------------------------------------------------
(* The invariant                                                           *)

LEMMA InitInv == Init => IInv
  <1> SUFFICES ASSUME Init PROVE IInv OBVIOUS
  <1> USE NativeAssumption DEF Init
  <1>1. Types
    <2>1. DiskTypes BY DEF DiskTypes, History, Version, NoFile, Image
    <2>2. StoreTypes BY DEF StoreTypes, History, Version
    <2>3. FlagTypes BY DEF FlagTypes
    <2>4. ProcTypes BY DEF ProcTypes, Working
    <2>5. ConnTypes
      <3>1. NoReq \in [op : Op, expected : Version \cup {None}] BY DEF NoReq, Op
      <3>2. NoMsg \in Message BY DEF NoMsg, Message, Version
      <3> QED BY <3>1, <3>2 DEF ConnTypes
    <2> QED BY <2>1, <2>2, <2>3, <2>4, <2>5 DEF Types
  <1>2. Threads BY FS_EmptySet DEF Threads, Up, Held
  <1>3. Store BY DEF Store, Up
  <1>4. Disk BY DEF Disk, ImageIsDurablePrefix, NoFile
  <1>5. \A c \in Client : ~Logged(c) BY DEF Logged
  <1>6. Once BY <1>5 DEF Once
  <1>7. Answers BY DEF Answers, Told, NoMsg
  <1>8. Shown BY DEF Shown, NoMsg
  <1> QED BY <1>1, <1>2, <1>3, <1>4, <1>6, <1>7, <1>8 DEF IInv

LEMMA InvStep == IInv /\ [Next]_vars => IInv'
  <1> SUFFICES ASSUME IInv, [Next]_vars PROVE IInv' OBVIOUS
  <1>1. Types' BY TypesStep DEF IInv
  <1>2. Threads' BY ThreadsStep DEF IInv
  <1>3. Store' BY StoreStep DEF IInv
  <1>4. Disk' BY DiskStep DEF IInv
  <1>5. Once' BY OnceStep DEF IInv
  <1>6. Answers' BY AnswersStep DEF IInv
  <1>7. Shown' BY ShownStep DEF IInv
  <1> QED BY <1>1, <1>2, <1>3, <1>4, <1>5, <1>6, <1>7 DEF IInv

\* Store, disk, threads and messages agree in every reachable state.
THEOREM NativeInvariant == Spec => []IInv
  BY InitInv, InvStep, PTL DEF Spec

\* Threads, files and counters always have the shapes declared for them.
THEOREM NativeTypes == Spec => []TypeOK
  <1>1. IInv => TypeOK
    <2> SUFFICES ASSUME IInv PROVE TypeOK OBVIOUS
    <2>1. clientCount \in Nat BY FS_CardinalityType DEF IInv, Threads
    <2> QED BY <2>1 DEF IInv, Types, DiskTypes, StoreTypes, FlagTypes, ProcTypes,
               ConnTypes, TypeOK
  <1> QED BY <1>1, NativeInvariant, PTL

\* R3 and R1: the generation that answers is the log, whether it was folded,
\* installed from an image, compacted or built up request by request.
THEOREM StoreTheorem == Spec => []StoreIsLog
  <1>1. IInv => StoreIsLog BY DEF IInv, Store, StoreIsLog, Up
  <1> QED BY <1>1, NativeInvariant, PTL

\* R3: a snapshot image that verifies is a prefix of what is synced.
THEOREM ImageTheorem == Spec => []ImageIsDurablePrefix
  <1>1. IInv => ImageIsDurablePrefix BY DEF IInv, Disk
  <1> QED BY <1>1, NativeInvariant, PTL

\* No power failure takes back a version that a client was shown, by a read, a
\* conflict or a commit: boots sync what they found before they serve it, and a
\* generation replaces the current one only when its frame is synced.
THEOREM ShownTheorem == Spec => []ShownIsDurable
  <1>1. IInv => ShownIsDurable BY DEF IInv, Shown, ShownIsDurable
  <1> QED BY <1>1, NativeInvariant, PTL

\* I2: a committed write that named a version directly follows it.
THEOREM UpdateTheorem == Spec => []NoLostUpdate
  <1>1. IInv => NoLostUpdate BY DEF IInv, Answers, Told, NoLostUpdate
  <1> QED BY <1>1, NativeInvariant, PTL

\* D4: once an append or a sync has failed, the process writes no more frames
\* and makes no more generations.
THEOREM PoisonTheorem == Spec => PoisonFences
  <1>1. ASSUME IInv, [Next]_vars, poisoned, proc' # "down", proc # "down"
        PROVE  poisoned' /\ log' = log /\ current' = current
    <2> USE <1>1
    <2>1. \A c \in Client : pc[c] \notin {"append", "sync", "image", "imageSync"}
      BY DEF IInv, Store
    <2>2. log' = log
      <3>1. \A c \in Client : ~AppendLog(c) BY <2>1 DEF AppendLog
      <3> QED BY <3>1, LogSteps DEF IInv, Crash, PowerLoss, Gone
    <2>3. \A c \in Client : ~AppendLog(c) /\ ~SyncLog(c) /\ ~DispatchCompacts(c)
      BY <2>1 DEF AppendLog, SyncLog, DispatchCompacts
    <2>4. poisoned' /\ current' = current
      BY <2>3, StoreSteps DEF storevars, OpenStore, SyncStore, QuietPoll, CompactIdle,
         Shutdown, Crash, PowerLoss, Gone, DispatchRead
    <2> QED BY <2>2, <2>4
  <1>2. IInv /\ [Next]_vars =>
           [poisoned /\ proc' # "down" /\ proc # "down" =>
              poisoned' /\ log' = log /\ current' = current]_vars
    BY <1>1
  <1> QED BY <1>2, NativeInvariant, PTL DEF Spec, PoisonFences

-----------------------------------------------------------------------------
(* The refinement of AtomicHistory                                         *)

Hist == IF Up THEN current ELSE log
Verdicts == [c \in Client |-> VerdictOf(c)]

\* What a client has been told is what the log and the generation hold.
LEMMA VerdictSound ==
    ASSUME IInv, NEW c \in Client
    PROVE  /\ VerdictOf(c) \in {"open", "acked", "rejected", "unknown"}
           /\ VerdictOf(c) = "acked" => \E i \in 1..synced : log[i] = c /\ i \in 1..Len(Hist)
           /\ VerdictOf(c) = "rejected" => ~Logged(c) /\ pc[c] # "append"
  <1>1. VerdictOf(c) \in {"open", "acked", "rejected", "unknown"} BY DEF VerdictOf
  <1>2. ASSUME VerdictOf(c) = "acked"
        PROVE  \E i \in 1..synced : log[i] = c /\ i \in 1..Len(Hist)
    <2>1. reply[c].code = "committed" BY <1>2 DEF VerdictOf
    <2>2. PICK i \in 1..synced : log[i] = c BY <2>1 DEF IInv, Answers, Told
    <2>3. synced \in Nat /\ Len(Hist) \in Nat /\ synced <= Len(Hist)
      BY DEF IInv, Types, DiskTypes, StoreTypes, History, Version, Store, Disk, Hist
    <2> QED BY <2>2, <2>3
  <1>3. ASSUME VerdictOf(c) = "rejected" PROVE ~Logged(c) /\ pc[c] # "append"
    <2>1. reply[c].code \in {"conflict", "refused"} BY <1>3 DEF VerdictOf
    <2>2. reply[c] # NoMsg BY <2>1 DEF NoMsg
    <2> QED BY <2>1, <2>2 DEF IInv, Answers, Told
  <1> QED BY <1>1, <1>2, <1>3

\* The generation is the log, or one frame behind it.
LEMMA HistInLog ==
    ASSUME IInv
    PROVE  /\ Hist \in Seq(Client) /\ Len(Hist) \in Nat /\ Len(Hist) <= Len(log)
           /\ \A i \in 1..Len(Hist) : Hist[i] = log[i]
  <1>1. current \in Seq(Client) /\ log \in Seq(Client)
    BY DEF IInv, Types, DiskTypes, StoreTypes, History
  <1>2. Up => current = log \/ \E c \in Client : log = Append(current, c)
    BY DEF IInv, Store
  <1>3. ASSUME NEW c \in Client, log = Append(current, c)
        PROVE  Len(log) = Len(current) + 1 /\ \A i \in 1..Len(current) : log[i] = current[i]
    BY <1>1, <1>3
  <1> QED BY <1>1, <1>2, <1>3 DEF Hist

LEMMA InitMaps == Init => Promised!AInit
  BY DEF Init, Promised!AInit, VerdictOf, NoReq, NoMsg

\* A step whose verdicts, history and liveness stay is a stutter.
LEMMA Stutters ==
    ASSUME UNCHANGED <<Hist, Verdicts, Up>>
    PROVE  UNCHANGED Promised!avars
  BY DEF Hist, Verdicts, Up, Promised!avars

\* The end of a process, orderly or not.
LEMMA StopMaps ==
    ASSUME IInv, IInv', [Next]_vars, proc' = "down", req' = req, reply' = reply,
           \A c \in Client : conn'[c] \in {conn[c], "closed"}
    PROVE  Promised!Stop
  <1>1. Hist' = log' /\ log' \in Seq(Client) /\ ~Up'
    BY DEF Hist, Up, IInv, Types, DiskTypes, History
  <1>2. \A i \in 1..Len(Hist) : Verdicts[Hist[i]] = "acked" =>
           i <= Len(log') /\ log'[i] = Hist[i]
    <2> SUFFICES ASSUME NEW i \in 1..Len(Hist), Verdicts[Hist[i]] = "acked"
                 PROVE  i <= Len(log') /\ log'[i] = Hist[i]
      OBVIOUS
    <2>1. Hist[i] \in Client /\ Hist[i] = log[i] /\ i \in 1..Len(log)
      BY HistInLog
    <2>2. PICK j \in 1..synced : log[j] = Hist[i]
      BY <2>1, VerdictSound DEF Verdicts
    <2>3. synced \in Nat /\ Len(log) \in Nat /\ synced <= Len(log)
      BY DEF IInv, Types, DiskTypes, History, Version, Disk
    <2>4. i = j BY <2>1, <2>2, <2>3 DEF IInv, Once
    <2>5. SyncedKept BY SyncedKeptStep DEF IInv
    <2>6. Len(log') \in Nat BY <1>1
    <2> QED BY <2>1, <2>2, <2>3, <2>4, <2>5, <2>6 DEF SyncedKept
  <1>3. \A i \in 1..Len(log') : Verdicts[log'[i]] # "rejected"
    <2> SUFFICES ASSUME NEW i \in 1..Len(log') PROVE Verdicts[log'[i]] # "rejected"
      OBVIOUS
    <2>1. log'[i] \in Client BY <1>1
    <2>2. Logged(log'[i]) \/ pc[log'[i]] = "append"
      <3>1. PICK c \in Client : c = log'[i] BY <2>1
      <3>2. Logged(c)' BY <3>1 DEF Logged
      <3> QED BY <3>1, <3>2, LoggedStep DEF IInv
    <2> QED BY <2>1, <2>2, VerdictSound DEF Verdicts
  <1>4. \A i, j \in 1..Len(log') : log'[i] = log'[j] => i = j
    BY LoggedStep DEF IInv
  <1>5. \A c \in Client : Verdicts'[c] = Verdicts[c]
                          \/ (Verdicts[c] = "open" /\ Verdicts'[c] = "unknown")
    BY DEF Verdicts, VerdictOf
  <1>6. Verdicts' \in [Client -> {"open", "acked", "rejected", "unknown"}]
    BY DEF Verdicts, VerdictOf
  <1> QED BY <1>1, <1>2, <1>3, <1>4, <1>5, <1>6
          DEF Promised!Stop, Promised!Verdict, Hist, Verdicts, Up

\* A connection that closes leaves an open request unknown.
LEMMA ClosingMaps ==
    ASSUME Up, Up', NEW c \in Client, UNCHANGED <<current, req, reply>>,
           conn \in [Client -> {"none", "backlog", "admitted", "closed"}],
           conn[c] # "closed", conn' = [conn EXCEPT ![c] = "closed"]
    PROVE  [Promised!ANext]_(Promised!avars)
  <1>1. Hist' = Hist BY DEF Hist
  <1>2. \A d \in Client : d # c => VerdictOf(d)' = VerdictOf(d) BY DEF VerdictOf
  <1>3. CASE VerdictOf(c)' = VerdictOf(c)
    <2>1. Verdicts' = Verdicts BY <1>2, <1>3 DEF Verdicts
    <2> QED BY <1>1, <2>1, Stutters
  <1>4. CASE VerdictOf(c)' # VerdictOf(c)
    <2>1. VerdictOf(c) = "open" /\ VerdictOf(c)' = "unknown" BY <1>4 DEF VerdictOf
    <2>2. Verdicts' = [Verdicts EXCEPT ![c] = "unknown"] /\ Verdicts[c] = "open"
      BY <1>2, <2>1 DEF Verdicts
    <2>3. Promised!Answer(c)
      BY <1>1, <2>2 DEF Promised!Answer, Hist, Verdicts, Up
    <2> QED BY <2>3 DEF Promised!ANext
  <1> QED BY <1>3, <1>4

\* A response tells its client what the log holds.
LEMMA ResponseMaps ==
    ASSUME IInv, NEW c \in Client, WriteResponse(c)
    PROVE  [Promised!ANext]_(Promised!avars)
  <1>a. /\ pc[c] = "respond" /\ reply[c] = NoMsg /\ conn[c] = "admitted" /\ Up
        /\ reply \in [Client -> Message] /\ answer \in [Client -> Message]
    BY DEF IInv, Answers, Threads, Types, ConnTypes, WriteResponse
  <1>b. UNCHANGED <<proc, current, log, req, conn>> /\ Up'
    BY <1>a DEF WriteResponse, diskvars, storevars, Up
  <1>1. Hist' = Hist BY <1>b DEF Hist, Up
  <1>2. \A d \in Client : d # c => VerdictOf(d)' = VerdictOf(d)
    BY <1>a, <1>b DEF VerdictOf, WriteResponse
  <1>3. CASE VerdictOf(c)' = VerdictOf(c)
    <2>1. Verdicts' = Verdicts BY <1>2, <1>3 DEF Verdicts
    <2> QED BY <1>b, <1>1, <2>1, Stutters DEF Up
  <1>4. CASE VerdictOf(c)' # VerdictOf(c)
    <2>1. /\ VerdictOf(c) = "open"
          /\ \/ VerdictOf(c)' = "acked" /\ answer[c].code = "committed"
             \/ VerdictOf(c)' = "rejected" /\ answer[c].code \in {"conflict", "refused"}
      BY <1>a, <1>b, <1>4 DEF VerdictOf, WriteResponse, NoMsg
    <2>2. Verdicts' = [Verdicts EXCEPT ![c] = VerdictOf(c)'] /\ Verdicts[c] = "open"
      BY <1>2, <2>1 DEF Verdicts
    <2>3. CASE VerdictOf(c)' = "acked" /\ answer[c].code = "committed"
      <3>1. PICK i \in 1..synced : log[i] = c BY <2>3 DEF IInv, Answers, Told
      <3>2. synced \in Nat /\ synced <= Len(current)
        BY <1>a DEF IInv, Types, DiskTypes, Version, Store
      <3>3. i \in 1..Len(Hist) /\ Hist[i] = c
        BY <1>a, <3>1, <3>2, HistInLog DEF Hist
      <3>4. Promised!InHist(c, Hist) BY <3>3 DEF Promised!InHist
      <3>5. Promised!Answer(c)
        BY <1>a, <1>b, <1>1, <2>2, <2>3, <3>4 DEF Promised!Answer, Hist, Verdicts, Up
      <3> QED BY <3>5 DEF Promised!ANext
    <2>4. CASE VerdictOf(c)' = "rejected" /\ answer[c].code \in {"conflict", "refused"}
      <3>1. ~Logged(c) BY <2>4 DEF IInv, Answers, Told
      <3>2. ~Promised!InHist(c, Hist) BY <3>1, HistInLog DEF Promised!InHist, Logged
      <3>5. Promised!Answer(c)
        BY <1>a, <1>b, <1>1, <2>2, <2>4, <3>2 DEF Promised!Answer, Hist, Verdicts, Up
      <3> QED BY <3>5 DEF Promised!ANext
    <2> QED BY <2>1, <2>3, <2>4
  <1> QED BY <1>3, <1>4

\* A synced write becomes visible.
LEMMA PublishMaps ==
    ASSUME IInv, NEW c \in Client, SyncLog(c)
    PROVE  [Promised!ANext]_(Promised!avars)
  <1>a. /\ pc[c] = "sync" /\ Up /\ log = Append(current, c)
        /\ current \in Seq(Client) /\ Len(current) \in Nat
    BY DEF SyncLog, IInv, Threads, Store, Types, StoreTypes, History
  <1>b. UNCHANGED <<proc, log, req, reply, conn>> /\ Up' BY <1>a DEF SyncLog, Up
  <1>1. Verdicts' = Verdicts BY <1>b DEF Verdicts, VerdictOf
  <1>2. CASE current' = current
    <2>1. Hist' = Hist BY <1>a, <1>b, <1>2 DEF Hist
    <2> QED BY <1>a, <1>b, <1>1, <2>1, Stutters
  <1>3. CASE current' = Append(current, c)
    <2>1. Hist = current /\ Hist' = log BY <1>a, <1>b, <1>3 DEF Hist
    <2>2. /\ log \in Seq(Client) /\ Len(log) = Len(current) + 1 /\ log[Len(current) + 1] = c
          /\ \A i \in 1..Len(current) : log[i] = current[i]
      BY <1>a
    <2>3. SubSeq(log, 1, Len(current)) = current
      <3>1. /\ SubSeq(log, 1, Len(current)) \in Seq(Client)
            /\ Len(SubSeq(log, 1, Len(current))) = Len(current)
            /\ \A i \in 1..Len(current) : SubSeq(log, 1, Len(current))[i] = log[i]
        BY <1>a, <2>2
      <3> QED BY <1>a, <2>2, <3>1, SeqEqual
    <2>4. Verdicts[c] # "rejected"
      <3>1. reply[c] = NoMsg BY <1>a DEF IInv, Answers
      <3> QED BY <3>1 DEF Verdicts, VerdictOf, NoMsg
    <2>5. \A i \in (Len(current) + 1)..Len(log) :
             /\ Verdicts[log[i]] # "rejected"
             /\ \A j \in 1..(i - 1) : log[j] # log[i]
      <3> SUFFICES ASSUME NEW i \in (Len(current) + 1)..Len(log)
                   PROVE  /\ Verdicts[log[i]] # "rejected"
                          /\ \A j \in 1..(i - 1) : log[j] # log[i]
        OBVIOUS
      <3>1. i = Len(current) + 1 /\ log[i] = c BY <1>a, <2>2
      <3>2. Verdicts[log[i]] # "rejected" BY <2>4, <3>1
      <3>3. \A j \in 1..(i - 1) : j \in 1..Len(log) /\ i \in 1..Len(log) /\ j # i
        BY <1>a, <2>2, <3>1
      <3>4. \A j, k \in 1..Len(log) : log[j] = log[k] => j = k BY DEF IInv, Once
      <3>5. \A j \in 1..(i - 1) : log[j] # log[i] BY <3>3, <3>4
      <3> QED BY <3>2, <3>5
    <2>6. /\ Up /\ Hist' \in Seq(Client) /\ Len(Hist') > Len(Hist)
          /\ SubSeq(Hist', 1, Len(Hist)) = Hist
          /\ \A i \in (Len(Hist) + 1)..Len(Hist') :
               /\ Verdicts[Hist'[i]] # "rejected"
               /\ \A j \in 1..(i - 1) : Hist'[j] # Hist'[i]
          /\ UNCHANGED <<Verdicts, Up>>
      <3> HIDE DEF Hist, Verdicts, Up
      <3>1. Len(log) > Len(current) BY <1>a, <2>2
      <3> QED BY <1>a, <1>b, <1>1, <2>1, <2>2, <2>3, <2>5, <3>1
    <2>7. Promised!Publish BY <2>6 DEF Promised!Publish, Hist, Verdicts, Up
    <2> QED BY <2>7 DEF Promised!ANext
  <1> QED BY <1>2, <1>3 DEF SyncLog

\* A process that has opened the log shows what is in it.
LEMMA StartMaps ==
    ASSUME IInv, SyncStore, proc' = "serving"
    PROVE  Promised!Start
  <1>1. proc = "opened" /\ UNCHANGED <<current, log, req, reply, conn>>
    BY DEF SyncStore, storevars, connvars
  <1>2. current = log BY <1>1 DEF IInv, Store
  <1>3. ~Up /\ Up' BY <1>1 DEF Up
  <1>4. Hist' = Hist BY <1>1, <1>2, <1>3 DEF Hist
  <1>5. Verdicts' = Verdicts BY <1>1 DEF Verdicts, VerdictOf
  <1> QED BY <1>3, <1>4, <1>5 DEF Promised!Start, Hist, Verdicts, Up

\* The steps that nobody sees: they leave the history, every reply and every
\* ended connection alone.
LEMMA QuietSteps ==
    ASSUME IInv, [Next]_vars,
           ~Shutdown, ~Crash, ~PowerLoss, ~SyncStore, ~LeaveLoop,
           \A c \in Client : ~SyncLog(c) /\ ~WriteResponse(c) /\ ~Drain(c) /\ ~Refuse(c)
                             /\ ~EndWorker(c)
    PROVE  UNCHANGED <<Hist, Verdicts, Up>>
  <1>a. /\ conn \in [Client -> {"none", "backlog", "admitted", "closed"}]
        /\ req \in [Client -> [op : Op, expected : Version \cup {None}]]
    BY DEF IInv, Types, ConnTypes
  <1>b. \A c \in Client : /\ pc[c] \in Held <=> mutex = c
                          /\ pc[c] # "idle" => Up
    BY DEF IInv, Threads
  <1>c. \A c \in Client : conn[c] = "none" => reply[c] = NoMsg
    BY DEF IInv, Answers
  <1>1. Up' <=> Up
    BY DEF Next, vars, Boot, Acceptor, Worker, Peer, Fault, OpenStore, Accepting,
           QuietPoll, CompactIdle, Signal, AcceptFails, Connect, PeerMoves,
           Admit, ReadRequest, LockDispatch, DispatchFails, DispatchCompacts,
           DispatchRefuses, DispatchRead, DispatchWrite, AppendLog,
           DispatchCheckpoint, WriteImage, SyncImage, EncodeResponse, ReleaseResponse, Up
  <1>2. ~Up => log' = log
    <2>1. \A c \in Client : AppendLog(c) => Up BY <1>b DEF AppendLog
    <2> QED BY <2>1, LogSteps DEF IInv
  <1>3. Up => current' = current
    <2>1. ASSUME BootGeneration, ~poisoned, Up, \A c \in Client : pc[c] # "sync"
          PROVE  current' = current
      BY <2>1, BootGenerationIsLog DEF IInv, Store
    <2>2. CASE QuietPoll
      <3>1. mutex = None => \A c \in Client : pc[c] # "sync"
        BY <1>b, NativeAssumption DEF Held
      <3> QED BY <2>1, <2>2, <3>1 DEF QuietPoll, CompactIdle, Compact, storevars
    <2>3. ASSUME NEW c \in Client, DispatchCompacts(c) PROVE Up => current' = current
      <3>1. pc[c] = "dispatch" BY <2>3 DEF DispatchCompacts
      <3>2. \A d \in Client : pc[d] # "sync"
        BY <3>1, DispatchAlone DEF Held, IInv
      <3> QED BY <2>1, <2>3, <3>2 DEF DispatchCompacts, Compact
    <2> QED BY <2>2, <2>3, StoreSteps DEF storevars, OpenStore, AppendLog, DispatchRead, Up
  <1>4. Hist' = Hist BY <1>1, <1>2, <1>3 DEF Hist
  <1>5. \A c \in Client : VerdictOf(c)' = VerdictOf(c)
    <2>1. UNCHANGED reply
      BY DEF Next, vars, Boot, Acceptor, Worker, Peer, Fault, connvars, OpenStore,
             QuietPoll, Signal, AcceptFails, Connect, PeerMoves, Admit, ReadRequest,
             LockDispatch, DispatchFails, DispatchCompacts, DispatchRefuses,
             DispatchRead, DispatchWrite, AppendLog, DispatchCheckpoint, WriteImage,
             SyncImage, EncodeResponse, ReleaseResponse
    <2>2. \/ UNCHANGED <<req, conn>>
          \/ \E c \in Client : Connect(c)
          \/ \E c \in Client : Admit(c)
      BY DEF Next, vars, Boot, Acceptor, Worker, Peer, Fault, connvars, OpenStore,
             QuietPoll, Signal, AcceptFails, PeerMoves, ReadRequest,
             LockDispatch, DispatchFails, DispatchCompacts, DispatchRefuses,
             DispatchRead, DispatchWrite, AppendLog, DispatchCheckpoint, WriteImage,
             SyncImage, EncodeResponse, ReleaseResponse
    <2>3. CASE UNCHANGED <<req, conn>> BY <2>1, <2>3 DEF VerdictOf
    <2>4. ASSUME NEW c \in Client, Connect(c), NEW d \in Client
          PROVE  VerdictOf(d)' = VerdictOf(d)
      <3>1. CASE d = c BY <1>a, <1>c, <2>1, <2>4, <3>1 DEF Connect, VerdictOf, NoMsg
      <3>2. CASE d # c BY <1>a, <2>1, <2>4, <3>2 DEF Connect, VerdictOf
      <3> QED BY <3>1, <3>2
    <2>5. ASSUME NEW c \in Client, Admit(c), NEW d \in Client
          PROVE  VerdictOf(d)' = VerdictOf(d)
      BY <1>a, <2>1, <2>5 DEF Admit, VerdictOf
    <2> QED BY <2>2, <2>3, <2>4, <2>5
  <1>6. Verdicts' = Verdicts BY <1>5 DEF Verdicts
  <1> QED BY <1>1, <1>4, <1>6 DEF Up

LEMMA StepMaps ==
    ASSUME IInv, IInv', [Next]_vars
    PROVE  [Promised!ANext]_(Promised!avars)
  <1>a. /\ conn \in [Client -> {"none", "backlog", "admitted", "closed"}]
        /\ \A c \in Client : pc[c] # "idle" => conn[c] = "admitted" /\ Up
    BY DEF IInv, Types, ConnTypes, Threads
  <1>1. CASE Crash \/ PowerLoss \/ Shutdown
    <2>1. /\ proc' = "down" /\ req' = req /\ reply' = reply
          /\ \A c \in Client : conn'[c] \in {conn[c], "closed"}
      BY <1>1 DEF Crash, PowerLoss, Gone, Shutdown
    <2> QED BY <2>1, StopMaps DEF Promised!ANext
  <1>2. CASE SyncStore
    <2>1. CASE proc' = "serving" BY <1>2, <2>1, StartMaps DEF Promised!ANext
    <2>2. CASE proc' = "down"
      <3>1. UNCHANGED <<req, reply, conn>> BY <1>2 DEF SyncStore, connvars
      <3> QED BY <2>2, <3>1, StopMaps DEF Promised!ANext
    <2> QED BY <1>2, <2>1, <2>2 DEF SyncStore
  <1>3. ASSUME NEW c \in Client, Drain(c) \/ Refuse(c) \/ EndWorker(c)
        PROVE  [Promised!ANext]_(Promised!avars)
    <2>1. /\ UNCHANGED <<proc, current, req, reply>> /\ Up
          /\ conn[c] \in {"backlog", "admitted"}
          /\ conn' = [conn EXCEPT ![c] = "closed"]
      BY <1>a, <1>3 DEF Drain, Refuse, EndWorker, Accepting, Closed, storevars, Up
    <2> QED BY <1>a, <2>1, ClosingMaps DEF Up
  <1>4. CASE LeaveLoop
    <2>1. UNCHANGED <<current, log, req, reply>> /\ Up /\ Up'
      BY <1>4 DEF LeaveLoop, storevars, diskvars, Up
    <2>2. CASE UNCHANGED conn
      <3>1. UNCHANGED <<Hist, Verdicts>> BY <2>1, <2>2 DEF Hist, Verdicts, VerdictOf
      <3> QED BY <2>1, <3>1, Stutters
    <2>3. ASSUME NEW c \in Client, conn[c] = "backlog", Closed(c)
          PROVE  [Promised!ANext]_(Promised!avars)
      BY <1>a, <2>1, <2>3, ClosingMaps DEF Closed
    <2> QED BY <1>4, <2>2, <2>3 DEF LeaveLoop
  <1>5. ASSUME NEW c \in Client, SyncLog(c) PROVE [Promised!ANext]_(Promised!avars)
    BY <1>5, PublishMaps
  <1>6. ASSUME NEW c \in Client, WriteResponse(c) PROVE [Promised!ANext]_(Promised!avars)
    BY <1>6, ResponseMaps
  <1>7. UNCHANGED <<Hist, Verdicts, Up>> => [Promised!ANext]_(Promised!avars)
    BY Stutters
  <1> QED BY <1>1, <1>2, <1>3, <1>4, <1>5, <1>6, <1>7, QuietSteps

\* The native route keeps the promise of AtomicHistory: what a client is told
\* of its write is what the history holds, before and after any crash.
THEOREM RefinementTheorem == Spec => ImplementsAtomicHistory
  BY InitMaps, StepMaps, NativeInvariant, PTL
     DEF Spec, ImplementsAtomicHistory, Promised!ASpec
=============================================================================
