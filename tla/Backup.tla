--------------------------------- MODULE Backup ---------------------------------
(***************************************************************************)
(* fram-backup (clients/bun/backup.mjs): copies the durable prefix of a    *)
(* FRAMLOG that a live native server keeps appending to.  Several creators *)
(* run at once, each with its own process; "here" is the server whose log  *)
(* every creator is given, "there" another server of the same SpaceId (a   *)
(* restored copy) that a creator may be pointed at by mistake.  A creator  *)
(* may die, any of its calls may fail, and the machine may lose power.     *)
(*                                                                         *)
(* A log is a sequence of bytes: the header, then one byte a transaction,  *)
(* named by its server, its number and the power losses before it, so that *)
(* what was lost and is written again is another byte.  A digest is        *)
(* injective, so it is modelled by what it is taken of.  The output        *)
(* directory is a file system directory: entries and contents reach the    *)
(* disk when they are synced.                                              *)
(***************************************************************************)
EXTENDS Integers, Sequences, FiniteSets, Functions

CONSTANTS Creator, Output,
          MaxTransactions, \* transactions of one server
          MaxPowerLosses

ASSUME BackupAssumption == MaxTransactions \in Nat /\ MaxPowerLosses \in Nat

VARIABLES server,      \* each server's log, image and lock
          job,         \* what each creator is doing
          disk,        \* the output directories
          powerLosses,
          checkpoints  \* history: every checkpoint answered, with its log

vars == <<server, job, disk, powerLosses, checkpoints>>

Host == {"here", "there"}
Header == <<"header", 0, 0>>
NoImage == [watermark |-> 0, version |-> 0, stamp |-> 0]
Complete == {"artifact", "history", "manifest", "digest"}
NoFiles == [name \in {} |-> [bytes |-> <<>>, synced |-> FALSE, intact |-> TRUE]]
NoDirectory == [made |-> FALSE, kept |-> FALSE, files |-> NoFiles, synced |-> {}]

Init ==
    /\ server = [h \in Host |-> [log |-> <<Header>>, durable |-> 1,
                                 image |-> NoImage, lock |-> FALSE]]
    /\ job = [c \in Creator |-> [pc |-> "idle", output |-> "none", host |-> "here",
                                 point |-> NoImage, copied |-> <<>>]]
    /\ disk = [o \in Output |-> NoDirectory]
    /\ powerLosses = 0
    /\ checkpoints = {}

-----------------------------------------------------------------------------
(* The native server, as far as a backup sees it: a write appends its      *)
(* frame and syncs it under the lock, a checkpoint truncates the image     *)
(* beside the log and writes a new one under the same lock.                *)

AppendFrame(h) ==
    /\ ~server[h].lock /\ Len(server[h].log) <= MaxTransactions
    /\ server' = [server EXCEPT ![h].log = Append(@, <<h, Len(@), powerLosses>>), ![h].lock = TRUE]
    /\ UNCHANGED <<job, disk, powerLosses, checkpoints>>

SyncFrame(h) ==
    /\ server[h].durable < Len(server[h].log)
    /\ server' = [server EXCEPT ![h].durable = Len(server[h].log), ![h].lock = FALSE]
    /\ UNCHANGED <<job, disk, powerLosses, checkpoints>>

-----------------------------------------------------------------------------
(* createBackup().                                                         *)

Goes(c, pc) == job' = [job EXCEPT ![c].pc = pc]

\* The arguments; lstat() of the output; the log is opened and its header
\* checked; the artifact receipt is read.
Begin(c, o, h) ==
    /\ job[c].pc = "idle"
    /\ job' = [job EXCEPT ![c].output = o, ![c].host = h,
                          ![c].pc = IF disk[o].made THEN "failed" ELSE "ask"]
    /\ UNCHANGED <<server, disk, powerLosses, checkpoints>>

\* framNativeCheckpoint(): the server takes its lock and truncates its image,
\* then writes the image of its whole log and answers.
AskCheckpoint(c) ==
    LET h == job[c].host IN
    /\ job[c].pc = "ask" /\ ~server[h].lock
    /\ server' = [server EXCEPT ![h].lock = TRUE, ![h].image = NoImage]
    /\ Goes(c, "checkpoint")
    /\ UNCHANGED <<disk, powerLosses, checkpoints>>

AnswerCheckpoint(c) ==
    LET h     == job[c].host
        point == [watermark |-> Len(server[h].log), version |-> Len(server[h].log) - 1,
                  stamp |-> Cardinality(checkpoints) + 1]
    IN  /\ job[c].pc = "checkpoint"
        /\ server' = [server EXCEPT ![h].lock = FALSE, ![h].image = point]
        /\ checkpoints' = checkpoints \cup {[point |-> point, log |-> server[h].log]}
        /\ job' = [job EXCEPT ![c].pc = "verify", ![c].point = point]
        /\ UNCHANGED <<disk, powerLosses>>

\* Mutant: the cutoff is only compared with the size of the log.
InsideLog(point) == point.watermark <= Len(server["here"].log)

\* verifyCheckpointSnapshot() and the cutoff check: the image beside the
\* supplied log is the one the receipt tells of.
MatchesReceipt(point) ==
    /\ server["here"].image = point
    /\ 1 <= point.watermark /\ point.watermark <= Len(server["here"].log)

VerifySnapshot(c) ==
    /\ job[c].pc = "verify"
    /\ Goes(c, IF MatchesReceipt(job[c].point) THEN "mkdir" ELSE "failed")
    /\ UNCHANGED <<server, disk, powerLosses, checkpoints>>

MakeOutput(c) ==
    LET o == job[c].output IN
    /\ job[c].pc = "mkdir"
    /\ IF disk[o].made
       THEN Goes(c, "failed") /\ UNCHANGED disk
       ELSE /\ disk' = [disk EXCEPT ![o] = [NoDirectory EXCEPT !.made = TRUE]]
            /\ Goes(c, "copy")
    /\ UNCHANGED <<server, powerLosses, checkpoints>>

\* Creates or overwrites one file of the output; its entry is new.
Store(o, name, bytes) ==
    disk' = [disk EXCEPT ![o].files =
        [n \in DOMAIN @ \cup {name} |->
            IF n = name THEN [bytes |-> bytes, synced |-> FALSE, intact |-> TRUE] ELSE @[n]]]

\* copyPrefix(): reads the growing log up to the cutoff.
CopyPrefix(c) ==
    LET n == Len(job[c].copied) + 1 IN
    /\ job[c].pc = "copy"
    /\ IF n <= job[c].point.watermark
       THEN /\ job' = [job EXCEPT ![c].copied = Append(@, server["here"].log[n])]
            /\ Store(job[c].output, "history", job'[c].copied)
       ELSE Goes(c, "sync history") /\ UNCHANGED disk
    /\ UNCHANGED <<server, powerLosses, checkpoints>>

Manifest(c) == [point |-> job[c].point, version |-> job[c].point.version,
                history |-> job[c].copied]

\* The writes of writeSynced() in their order: at, the file, and its sync.
Writes == {[at |-> "artifact", name |-> "artifact", next |-> "sync artifact"],
           [at |-> "digest", name |-> "digest", next |-> "sync digest"],
           [at |-> "manifest", name |-> "temporary", next |-> "sync manifest"]}

Write(c) ==
    \E w \in Writes :
        /\ job[c].pc = w.at
        /\ Store(job[c].output, w.name, IF w.name = "artifact" THEN "receipt" ELSE Manifest(c))
        /\ Goes(c, w.next)
        /\ UNCHANGED <<server, powerLosses, checkpoints>>

Syncs == {[at |-> "sync history", name |-> "history", next |-> "artifact"],
          [at |-> "sync artifact", name |-> "artifact", next |-> "digest"],
          [at |-> "sync digest", name |-> "digest", next |-> "sync entries"],
          [at |-> "sync manifest", name |-> "temporary", next |-> "rename"]}

\* The file is synced; after the copy the source is measured once more, which
\* cannot fail for a log that only loses what was never durable.
Sync(c) ==
    \E s \in Syncs :
        /\ job[c].pc = s.at
        /\ disk' = [disk EXCEPT ![job[c].output].files[s.name].synced = TRUE]
        /\ Goes(c, s.next)
        /\ UNCHANGED <<server, powerLosses, checkpoints>>

SyncEntries(c) ==
    LET o == job[c].output IN
    /\ job[c].pc \in {"sync entries", "sync renamed"}
    /\ disk' = [disk EXCEPT ![o].synced = DOMAIN disk[o].files]
    /\ Goes(c, IF job[c].pc = "sync entries" THEN "manifest" ELSE "sync parent")
    /\ UNCHANGED <<server, powerLosses, checkpoints>>

Rename(c) ==
    LET o == job[c].output IN
    /\ job[c].pc = "rename"
    /\ disk' = [disk EXCEPT ![o].files =
          [name \in (DOMAIN @ \ {"temporary"}) \cup {"manifest"} |->
               IF name = "manifest" THEN @["temporary"] ELSE @[name]]]
    /\ Goes(c, "sync renamed")
    /\ UNCHANGED <<server, powerLosses, checkpoints>>

\* Mutant: the success is reported without it.
ParentForgotten(c) ==
    /\ job[c].pc = "sync parent"
    /\ Goes(c, "done")
    /\ UNCHANGED <<server, disk, powerLosses, checkpoints>>

SyncParent(c) ==
    /\ job[c].pc = "sync parent"
    /\ disk' = [disk EXCEPT ![job[c].output].kept = TRUE]
    /\ Goes(c, "done")
    /\ UNCHANGED <<server, powerLosses, checkpoints>>

Ended == {"idle", "done", "failed"}

\* Some call fails or the process is killed; what is in the output stays.  A
\* server that was writing this creator's checkpoint finishes or fails it on
\* its own and lets go of the lock.
Abandon(c) ==
    LET h == job[c].host IN
    /\ job[c].pc \notin Ended
    /\ Goes(c, "failed")
    /\ server' = IF job[c].pc = "checkpoint" THEN [server EXCEPT ![h].lock = FALSE]
                 ELSE server
    /\ UNCHANGED <<disk, powerLosses, checkpoints>>

-----------------------------------------------------------------------------
(* Power loss.  A server keeps what it synced and boots on it; a directory *)
(* keeps its synced entries and any of the others, a rename may be undone, *)
(* an unsynced file may hold anything; a directory whose own entry was not *)
(* synced may be gone.                                                     *)

\* The names under which an unsynced entry may be found again, and whose file
\* a name then shows.
Names(name) == IF name = "manifest" THEN {"manifest", "temporary"} ELSE {name}
Inode(d, name) == IF name \in DOMAIN d.files THEN name ELSE "manifest"

\* The entries that may stay besides the synced ones, and the files whose
\* contents may be harmed.
MayStay(d) ==
    {stays \in SUBSET UNION {Names(n) : n \in DOMAIN d.files \ d.synced} :
        ~({"manifest", "temporary"} \subseteq stays)}
MayBeHarmed(d) == SUBSET {n \in DOMAIN d.files : ~d.files[n].synced}

Found(d, stays, harmed) ==
    [made |-> TRUE, kept |-> TRUE, synced |-> d.synced \cup stays,
     files |-> [name \in d.synced \cup stays |->
        LET file == d.files[Inode(d, name)] IN
        [bytes |-> file.bytes, synced |-> TRUE,
         intact |-> file.intact /\ Inode(d, name) \notin harmed]]]

AfterLoss(d) ==
    IF ~d.made THEN {d}
    ELSE {Found(d, stays, harmed) : stays \in MayStay(d), harmed \in MayBeHarmed(d)}
         \cup (IF d.kept THEN {} ELSE {NoDirectory})

PowerLoss ==
    /\ powerLosses < MaxPowerLosses
    /\ powerLosses' = powerLosses + 1
    /\ server' = [h \in Host |->
          [server[h] EXCEPT !.log = SubSeq(@, 1, server[h].durable), !.lock = FALSE]]
    /\ job' = [c \in Creator |-> [job[c] EXCEPT !.pc = IF @ \in Ended THEN @ ELSE "failed"]]
    /\ disk' \in [Output -> UNION {AfterLoss(disk[o]) : o \in Output}]
    /\ \A o \in Output : disk'[o] \in AfterLoss(disk[o])
    /\ UNCHANGED checkpoints

Next ==
    \/ \E h \in Host : AppendFrame(h) \/ SyncFrame(h)
    \/ \E c \in Creator :
          \/ \E o \in Output, h \in Host : Begin(c, o, h)
          \/ AskCheckpoint(c) \/ AnswerCheckpoint(c) \/ VerifySnapshot(c)
          \/ MakeOutput(c) \/ CopyPrefix(c) \/ Write(c) \/ Sync(c) \/ SyncEntries(c)
          \/ Rename(c) \/ SyncParent(c) \/ Abandon(c)
    \/ PowerLoss

Spec == Init /\ [][Next]_vars

-----------------------------------------------------------------------------
Byte == (Host \cup {"header"}) \X Nat \X Nat
Point == [watermark : Nat, version : Nat, stamp : Nat]
FileNames == Complete \cup {"temporary"}
ProgramCounter == {"idle", "ask", "checkpoint", "verify", "mkdir", "copy", "sync history",
    "artifact", "sync artifact", "digest", "sync digest", "sync entries", "manifest",
    "sync manifest", "rename", "sync renamed", "sync parent", "done", "failed"}

\* A file is what was written, whether it was synced, and whether it is whole.
IsFile(f) ==
    /\ f = [bytes |-> f.bytes, synced |-> f.synced, intact |-> f.intact]
    /\ f.synced \in BOOLEAN /\ f.intact \in BOOLEAN

IsDirectory(d) ==
    /\ d = [made |-> d.made, kept |-> d.kept, files |-> d.files, synced |-> d.synced]
    /\ d.made \in BOOLEAN /\ d.kept \in BOOLEAN
    /\ d.files = [n \in DOMAIN d.files |-> d.files[n]] /\ DOMAIN d.files \subseteq FileNames
    /\ \A n \in DOMAIN d.files : IsFile(d.files[n])

TypeOK ==
    /\ server \in [Host -> [log : Seq(Byte), durable : Nat, image : Point, lock : BOOLEAN]]
    /\ job \in [Creator -> [pc : ProgramCounter, output : Output \cup {"none"}, host : Host,
                            point : Point, copied : Seq(Byte)]]
    /\ disk = [o \in Output |-> disk[o]] /\ \A o \in Output : IsDirectory(disk[o])
    /\ powerLosses \in Nat
    /\ IsFiniteSet(checkpoints)

-----------------------------------------------------------------------------
(* verifyBackup(): exactly the four files, the digest that of the          *)
(* manifest, the history that the manifest names, under its header.        *)

Accepts(o) ==
    LET files == disk[o].files IN
    /\ DOMAIN files = Complete
    /\ \A name \in Complete : files[name].intact
    /\ files["digest"].bytes = files["manifest"].bytes
    /\ LET m == files["manifest"].bytes IN
          /\ files["history"].bytes = m.history
          /\ m.point.watermark = Len(m.history)
          /\ m.history # <<>> /\ m.history[1] = Header

\* A backup that shows its manifest is complete, whatever was killed or lost
\* on the way, and is the log of the checkpoint it names, at its version: the
\* sidecar check binds the cutoff to the supplied log although the log grows,
\* checkpoints of others replace the sidecar and the answering server may be
\* another one of the same SpaceId.
CommittedIsExact ==
    \A o \in Output :
        "manifest" \in DOMAIN disk[o].files =>
            /\ Accepts(o)
            /\ \E k \in checkpoints :
                  LET m == disk[o].files["manifest"].bytes IN
                  /\ k.point = m.point /\ k.log = m.history
                  /\ m.version = Cardinality(Range(k.log) \ {Header})

\* A backup that create reported stays accepted, also after a power loss and
\* beside other creators aimed at the same output.
ReportedIsKept ==
    \A c \in Creator : job[c].pc = "done" => Accepts(job[c].output)
================================================================================
