------------------------------ MODULE BackupProofs ------------------------------
(***************************************************************************)
(* Theorems about Backup, for every set of creators and outputs, any       *)
(* length of the logs and any number of power losses: a backup that shows  *)
(* its manifest is exact, and one that was reported is kept.               *)
(***************************************************************************)
EXTENDS Backup, FunctionTheorems, FiniteSetTheorems, SequenceTheorems, TLAPS

-----------------------------------------------------------------------------
(* The inductive invariant.                                                *)

\* A log numbers its bytes behind the header.
Numbered(log) ==
    /\ log \in Seq(Byte) /\ log # <<>> /\ log[1] = Header
    /\ \A i \in 2 .. Len(log) : log[i] # Header /\ log[i][2] = i - 1

\* What was checkpointed is part of what the supplied server will not lose.
KeptBySource(k) ==
    /\ k.point.watermark <= server["here"].durable
    /\ \A i \in 1 .. k.point.watermark : server["here"].log[i] = k.log[i]

Servers ==
    \A h \in Host :
        /\ Numbered(server[h].log)
        /\ server[h].durable \in 1 .. Len(server[h].log)
        /\ ~server[h].lock => server[h].durable = Len(server[h].log)

Checkpoints ==
    /\ \A k \in checkpoints :
          Numbered(k.log) /\ Len(k.log) = k.point.watermark /\ k.point.version = Len(k.log) - 1
    /\ server["here"].image = NoImage
       \/ \E k \in checkpoints : k.point = server["here"].image /\ KeptBySource(k)

\* One creator at a time makes a server write a checkpoint.
Locks ==
    /\ \A c \in Creator : job[c].pc = "checkpoint" =>
          LET s == server[job[c].host] IN s.lock /\ s.durable = Len(s.log)
    /\ \A b, c \in Creator :
          job[b].pc = "checkpoint" /\ job[c].pc = "checkpoint" /\ job[b].host = job[c].host
              => b = c

Early == {"idle", "ask", "checkpoint", "verify", "mkdir"}
BeforeArtifact == {"copy", "sync history", "artifact"}
BeforeDigest == BeforeArtifact \cup {"sync artifact", "digest"}
BeforeManifest == BeforeDigest \cup {"sync digest", "sync entries", "manifest"}
BeforeRename == BeforeManifest \cup {"sync manifest", "rename"}
Working == BeforeRename \cup {"sync renamed", "sync parent"}

Verified == {"mkdir"} \cup Working \cup {"done"}

\* What a creator has copied is the log of the checkpoint it was told of.
Copies(c) ==
    /\ job[c].pc \in Early => job[c].copied = <<>>
    /\ job[c].pc \in Verified =>
          \E k \in checkpoints :
             /\ k.point = job[c].point
             /\ job[c].pc # "done" => KeptBySource(k)
             /\ Len(job[c].copied) <= k.point.watermark
             /\ job[c].pc \notin {"mkdir", "copy"} => Len(job[c].copied) = k.point.watermark
             /\ \A i \in 1 .. Len(job[c].copied) : job[c].copied[i] = k.log[i]

Owns(c) == job[c].pc \in Working \cup {"done"}
OneOwner ==
    /\ \A c \in Creator : job[c].pc # "idle" => job[c].output \in Output
    /\ \A b, c \in Creator : Owns(b) /\ Owns(c) /\ job[b].output = job[c].output => b = c

\* The manifest a creator writes.
Told(j) == [point |-> j.point, version |-> j.point.version, history |-> j.copied]

\* What a creator that has come so far left in its output.
Entries(pc) ==
    IF pc \in BeforeDigest \cup {"sync digest", "sync entries"} THEN {}
    ELSE IF pc \in {"manifest", "sync manifest", "rename", "sync renamed"}
         THEN {"artifact", "history", "digest"} ELSE Complete

Stage(j, d) ==
    LET pc == j.pc files == d.files IN
    /\ d.made /\ (pc = "done" => d.kept) /\ d.synced = Entries(pc)
    /\ \A n \in DOMAIN files : files[n].intact
    /\ "history" \in DOMAIN files <=> ~(pc = "copy" /\ j.copied = <<>>)
    /\ "history" \in DOMAIN files => files["history"].bytes = j.copied
    /\ pc \notin {"copy", "sync history"} => files["history"].synced
    /\ "artifact" \in DOMAIN files <=> pc \notin BeforeArtifact
    /\ pc \notin BeforeArtifact \cup {"sync artifact"} => files["artifact"].synced
    /\ "digest" \in DOMAIN files <=> pc \notin BeforeDigest
    /\ pc \notin BeforeDigest => files["digest"].bytes = Told(j)
    /\ pc \notin BeforeDigest \cup {"sync digest"} => files["digest"].synced
    /\ "temporary" \in DOMAIN files <=> pc \in {"sync manifest", "rename"}
    /\ pc \in {"sync manifest", "rename"} => files["temporary"].bytes = Told(j)
    /\ pc = "rename" => files["temporary"].synced
    /\ "manifest" \in DOMAIN files <=> pc \notin BeforeRename
    /\ pc \notin BeforeRename =>
          files["manifest"].bytes = Told(j) /\ files["manifest"].synced

\* A directory that shows its manifest, whoever left it: nothing of it can be
\* harmed, and the manifest itself is the only entry that may go.
Committed(d) ==
    /\ DOMAIN d.files = Complete
    /\ \A n \in Complete : d.files[n].intact /\ d.files[n].synced
    /\ {"artifact", "history", "digest"} \subseteq d.synced
    /\ LET m == d.files["manifest"].bytes IN
          /\ d.files["digest"].bytes = m /\ d.files["history"].bytes = m.history
          /\ m.version = m.point.version
          /\ \E k \in checkpoints : k.point = m.point /\ k.log = m.history

Directory(d) ==
    /\ ~d.made => d = NoDirectory
    /\ d.synced \subseteq DOMAIN d.files
    /\ "manifest" \in DOMAIN d.files => Committed(d)

IInv ==
    /\ TypeOK /\ Servers /\ Checkpoints /\ Locks /\ OneOwner
    /\ \A c \in Creator : Copies(c) /\ (Owns(c) => Stage(job[c], disk[job[c].output]))
    /\ \A o \in Output : Directory(disk[o])

-----------------------------------------------------------------------------
(* Logs.                                                                   *)

LEMMA NumberedAppend ==
    ASSUME NEW log, Numbered(log), NEW h \in Host, NEW p \in Nat
    PROVE  /\ Numbered(Append(log, <<h, Len(log), p>>))
           /\ Len(Append(log, <<h, Len(log), p>>)) = Len(log) + 1
           /\ \A i \in 1 .. Len(log) : Append(log, <<h, Len(log), p>>)[i] = log[i]
  <1> DEFINE b == <<h, Len(log), p>>
  <1>1. log \in Seq(Byte) /\ Len(log) \in Nat /\ Len(log) # 0
    BY LenProperties DEF Numbered
  <1>2. b \in Byte /\ b # Header /\ b[2] = Len(log) BY <1>1 DEF Byte, Host, Header
  <1> HIDE DEF b
  <1>3. /\ Append(log, b) \in Seq(Byte) /\ Len(Append(log, b)) = Len(log) + 1
        /\ \A i \in 1 .. Len(log) : Append(log, b)[i] = log[i]
        /\ Append(log, b)[Len(log) + 1] = b
    BY <1>1, <1>2, AppendProperties
  <1>4. ASSUME NEW i \in 2 .. Len(log) + 1
        PROVE  Append(log, b)[i] # Header /\ Append(log, b)[i][2] = i - 1
    <2>1. CASE i = Len(log) + 1 BY <1>1, <1>2, <1>3, <2>1
    <2>2. CASE i # Len(log) + 1
      <3>1. i \in 2 .. Len(log) /\ i \in 1 .. Len(log) BY <1>1, <2>2
      <3> QED BY <1>3, <3>1 DEF Numbered
    <2> QED BY <2>1, <2>2
  <1>5. Append(log, b)[1] = Header /\ Append(log, b) # <<>>
    <2>1. 1 \in 1 .. Len(log) BY <1>1
    <2>2. Append(log, b)[1] = Header BY <1>3, <2>1 DEF Numbered
    <2>3. Len(Append(log, b)) # 0 BY <1>1, <1>3
    <2> QED BY <2>2, <2>3
  <1>6. Numbered(Append(log, b)) BY <1>3, <1>4, <1>5 DEF Numbered
  <1> QED BY <1>3, <1>6 DEF b

LEMMA NumberedPrefix ==
    ASSUME NEW log, Numbered(log), NEW n \in 1 .. Len(log)
    PROVE  /\ Numbered(SubSeq(log, 1, n)) /\ Len(SubSeq(log, 1, n)) = n
           /\ \A i \in 1 .. n : SubSeq(log, 1, n)[i] = log[i]
  <1>1. log \in Seq(Byte) /\ Len(log) \in Nat BY LenProperties DEF Numbered
  <1>2. /\ SubSeq(log, 1, n) \in Seq(Byte)
        /\ Len(SubSeq(log, 1, n)) = n
        /\ \A i \in 1 .. n : SubSeq(log, 1, n)[i] = log[i]
    <2>1. SubSeq(log, 1, n) \in Seq(Byte) BY <1>1, SubSeqProperties
    <2>2. /\ Len(SubSeq(log, 1, n)) = n
          /\ \A i \in 1 .. n : SubSeq(log, 1, n)[i] = log[1 + i - 1]
      BY <1>1, SubSeqProperties
    <2>3. \A i \in 1 .. n : 1 + i - 1 = i OBVIOUS
    <2> QED BY <2>1, <2>2, <2>3
  <1>3. SubSeq(log, 1, n)[1] = Header /\ SubSeq(log, 1, n) # <<>>
    <2>1. 1 \in 1 .. n /\ n # 0 BY <1>1
    <2> QED BY <1>2, <2>1 DEF Numbered
  <1>4. \A i \in 2 .. n : i \in 1 .. n /\ i \in 2 .. Len(log) BY <1>1
  <1>5. Numbered(SubSeq(log, 1, n)) BY <1>2, <1>3, <1>4 DEF Numbered
  <1> QED BY <1>2, <1>5

\* A log's version, counted from its bytes, is its length without the header.
LEMMA NumberedVersion ==
    ASSUME NEW log, Numbered(log)
    PROVE  Cardinality(Range(log) \ {Header}) = Len(log) - 1
  <1> DEFINE n == Len(log) - 1
             T == Range(log) \ {Header}
             f == [i \in 1 .. n |-> log[i + 1]]
  <1>1. /\ log \in Seq(Byte) /\ Len(log) \in Nat /\ Len(log) # 0
        /\ DOMAIN log = 1 .. Len(log)
    BY LenProperties DEF Numbered
  <1>2. n \in Nat BY <1>1
  <1>3. ASSUME NEW i \in 1 .. n
        PROVE  f[i] \in T /\ f[i][2] = i
    <2>1. i + 1 \in 2 .. Len(log) /\ i + 1 \in DOMAIN log /\ (i + 1) - 1 = i
      BY <1>1
    <2>2. log[i + 1] # Header /\ log[i + 1][2] = i BY <2>1 DEF Numbered
    <2> QED BY <2>1, <2>2 DEF Range
  <1>4. ASSUME NEW t \in T PROVE \E i \in 1 .. n : f[i] = t
    <2>1. PICK j \in 1 .. Len(log) : log[j] = t BY <1>1 DEF Range
    <2>2. j # 1 BY <2>1 DEF Numbered
    <2>3. j - 1 \in 1 .. n /\ (j - 1) + 1 = j BY <1>1, <2>2
    <2>4. f[j - 1] = t BY <2>1, <2>3
    <2> QED BY <2>3, <2>4
  <1>5. f \in Bijection(1 .. n, T)
    <2>1. f \in [1 .. n -> T] BY <1>3
    <2>2. \A i, j \in 1 .. n : f[i] = f[j] => i = j BY <1>3
    <2> HIDE DEF f, n, T
    <2> QED BY <1>4, <2>1, <2>2, Fun_IsBij
  <1>6. ExistsBijection(1 .. n, T) BY <1>5 DEF ExistsBijection
  <1>7. IsFiniteSet(1 .. n) /\ Cardinality(1 .. n) = n BY <1>2, FS_Interval
  <1> HIDE DEF n, T
  <1>8. Cardinality(T) = Cardinality(1 .. n) BY <1>6, <1>7, FS_Bijection
  <1> QED BY <1>7, <1>8 DEF n, T

-----------------------------------------------------------------------------
(* Types.                                                                  *)

JobType == [pc : ProgramCounter, output : Output \cup {"none"}, host : Host,
            point : Point, copied : Seq(Byte)]
ServerType == [log : Seq(Byte), durable : Nat, image : Point, lock : BOOLEAN]

LEMMA TypeShape ==
    ASSUME TypeOK
    PROVE  /\ server \in [Host -> ServerType] /\ job \in [Creator -> JobType]
           /\ powerLosses \in Nat /\ IsFiniteSet(checkpoints)
           /\ NoImage \in Point /\ Cardinality(checkpoints) \in Nat
  BY FS_CardinalityType DEF TypeOK, JobType, ServerType, Point, NoImage

\* A step of one creator's program counter.
LEMMA GoesTo ==
    ASSUME TypeOK, NEW c \in Creator, NEW pc \in ProgramCounter, Goes(c, pc)
    PROVE  /\ job' \in [Creator -> JobType]
           /\ job'[c].pc = pc /\ job'[c].output = job[c].output /\ job'[c].host = job[c].host
           /\ job'[c].point = job[c].point /\ job'[c].copied = job[c].copied
           /\ \A b \in Creator : b # c => job'[b] = job[b]
  <1>1. job \in [Creator -> JobType] BY TypeShape
  <1> QED BY <1>1 DEF Goes, JobType

LEMMA StoreDirectory ==
    ASSUME NEW d, IsDirectory(d), NEW name \in FileNames, NEW bytes, NEW files,
           files = [n \in DOMAIN files |-> files[n]], DOMAIN files = DOMAIN d.files \cup {name},
           files[name] = [bytes |-> bytes, synced |-> FALSE, intact |-> TRUE],
           \A n \in DOMAIN d.files : n # name => files[n] = d.files[n],
           NEW e, e = [d EXCEPT !.files = files]
    PROVE  /\ IsDirectory(e)
           /\ e.made = d.made /\ e.synced = d.synced /\ e.files = files
           /\ e.files[name].bytes = bytes /\ e.files[name].intact
  <1> DEFINE file == [bytes |-> bytes, synced |-> FALSE, intact |-> TRUE]
  <1>1. d = [made |-> d.made, kept |-> d.kept, files |-> d.files, synced |-> d.synced]
    BY DEF IsDirectory
  <1>2. IsFile(file) /\ file.bytes = bytes /\ file.intact BY DEF IsFile
  <1>3. files[name] = file OBVIOUS
  <1> HIDE DEF file
  <1>4. e = [made |-> d.made, kept |-> d.kept, files |-> files, synced |-> d.synced]
    BY <1>1
  <1>5. /\ e.made = d.made /\ e.kept = d.kept /\ e.synced = d.synced /\ e.files = files
        /\ e = [made |-> e.made, kept |-> e.kept, files |-> e.files, synced |-> e.synced]
    BY ONLY <1>4
  <1>6. \A n \in DOMAIN files : IsFile(files[n]) BY <1>2, <1>3 DEF IsDirectory
  <1>7. IsDirectory(e) BY <1>5, <1>6 DEF IsDirectory
  <1> QED BY <1>2, <1>3, <1>5, <1>7

LEMMA SyncedFile ==
    ASSUME NEW f, IsFile(f), NEW g, g = [f EXCEPT !.synced = TRUE]
    PROVE  IsFile(g) /\ g.bytes = f.bytes /\ g.synced /\ g.intact = f.intact
  <1>1. g = [bytes |-> f.bytes, synced |-> TRUE, intact |-> f.intact] BY DEF IsFile
  <1>2. f.intact \in BOOLEAN BY DEF IsFile
  <1> QED BY ONLY <1>1, <1>2 DEF IsFile

LEMMA SyncDirectory ==
    ASSUME NEW d, IsDirectory(d), NEW name \in DOMAIN d.files, NEW files,
           files = [n \in DOMAIN files |-> files[n]], DOMAIN files = DOMAIN d.files,
           IsFile(files[name]), \A n \in DOMAIN d.files : n # name => files[n] = d.files[n],
           NEW e, e = [d EXCEPT !.files = files]
    PROVE  IsDirectory(e) /\ e.made = d.made /\ e.synced = d.synced /\ e.files = files
  <1>1. d = [made |-> d.made, kept |-> d.kept, files |-> d.files, synced |-> d.synced]
    BY DEF IsDirectory
  <1>2. e = [made |-> d.made, kept |-> d.kept, files |-> files, synced |-> d.synced]
    BY <1>1
  <1>3. /\ e.made = d.made /\ e.kept = d.kept /\ e.synced = d.synced /\ e.files = files
        /\ e = [made |-> e.made, kept |-> e.kept, files |-> e.files, synced |-> e.synced]
    BY ONLY <1>2
  <1>4. \A n \in DOMAIN files : IsFile(files[n]) BY DEF IsDirectory
  <1>5. IsDirectory(e) BY <1>3, <1>4 DEF IsDirectory
  <1> QED BY <1>3, <1>5

LEMMA KeptDirectory ==
    ASSUME NEW d, IsDirectory(d), NEW e, e = [d EXCEPT !.kept = TRUE]
    PROVE  IsDirectory(e) /\ e.made = d.made /\ e.kept /\ e.synced = d.synced /\ e.files = d.files
  <1>1. e = [made |-> d.made, kept |-> TRUE, files |-> d.files, synced |-> d.synced]
    BY DEF IsDirectory
  <1>2. /\ e.made = d.made /\ e.kept = TRUE /\ e.files = d.files /\ e.synced = d.synced
        /\ e = [made |-> e.made, kept |-> e.kept, files |-> e.files, synced |-> e.synced]
    BY ONLY <1>1
  <1> QED BY ONLY IsDirectory(d), <1>2 DEF IsDirectory

LEMMA EmptyDirectory ==
    /\ IsDirectory(NoDirectory) /\ Directory(NoDirectory)
    /\ NoDirectory.made = FALSE /\ NoDirectory.kept = FALSE
    /\ NoDirectory.synced = {} /\ DOMAIN NoDirectory.files = {}
  <1>1. /\ NoDirectory.made = FALSE /\ NoDirectory.synced = {} /\ NoDirectory.kept = FALSE
        /\ NoDirectory.files = NoFiles /\ DOMAIN NoFiles = {}
    BY DEF NoDirectory, NoFiles
  <1>2. NoDirectory = [made |-> FALSE, kept |-> FALSE, files |-> NoFiles, synced |-> {}]
    BY DEF NoDirectory
  <1>3. NoFiles = [n \in DOMAIN NoFiles |-> NoFiles[n]] BY DEF NoFiles
  <1>4. IsDirectory(NoDirectory) BY <1>1, <1>2, <1>3 DEF IsDirectory
  <1>5. Directory(NoDirectory) BY <1>1 DEF Directory
  <1> QED BY <1>1, <1>4, <1>5

\* What a power loss leaves of a directory.
LEMMA FoundFacts ==
    ASSUME NEW d, IsDirectory(d), Directory(d), NEW stays \in MayStay(d),
           NEW harmed \in MayBeHarmed(d), NEW e, e = Found(d, stays, harmed)
    PROVE  /\ IsDirectory(e) /\ e.made /\ e.kept
           /\ e.synced = d.synced \cup stays /\ DOMAIN e.files = d.synced \cup stays
           /\ stays \subseteq UNION {Names(n) : n \in DOMAIN d.files \ d.synced}
           /\ ~({"manifest", "temporary"} \subseteq stays)
           /\ \A n \in (d.synced \cup stays) \cap DOMAIN d.files :
                 /\ e.files[n].bytes = d.files[n].bytes /\ e.files[n].synced
                 /\ d.files[n].intact /\ d.files[n].synced => e.files[n].intact
  <1> DEFINE file(n) == [bytes |-> d.files[Inode(d, n)].bytes, synced |-> TRUE,
                         intact |-> d.files[Inode(d, n)].intact /\ Inode(d, n) \notin harmed]
             files == [n \in d.synced \cup stays |-> file(n)]
  <1>1. e = [made |-> TRUE, kept |-> TRUE, synced |-> d.synced \cup stays, files |-> files]
    BY DEF Found
  <1>2. /\ stays \subseteq UNION {Names(n) : n \in DOMAIN d.files \ d.synced}
        /\ ~({"manifest", "temporary"} \subseteq stays)
    BY DEF MayStay
  <1>3. DOMAIN files \subseteq FileNames
    <2>1. d.synced \subseteq FileNames BY DEF IsDirectory, Directory
    <2>2. \A n \in FileNames : Names(n) \subseteq FileNames
      BY DEF Names, FileNames, Complete
    <2>3. DOMAIN d.files \subseteq FileNames BY DEF IsDirectory
    <2>4. stays \subseteq FileNames BY <1>2, <2>2, <2>3
    <2> QED BY <2>1, <2>4
  <1>4. \A n : IsFile(file(n))
    <2> SUFFICES ASSUME NEW n PROVE IsFile(file(n)) OBVIOUS
    <2> DEFINE whole == d.files[Inode(d, n)].intact /\ Inode(d, n) \notin harmed
    <2>1. (d.files[Inode(d, n)].intact /\ Inode(d, n) \notin harmed) \in BOOLEAN OBVIOUS
    <2>2. whole \in BOOLEAN BY <2>1
    <2>3. file(n) = [bytes |-> d.files[Inode(d, n)].bytes, synced |-> TRUE, intact |-> whole]
      OBVIOUS
    <2> HIDE DEF whole, file
    <2> QED BY ONLY <2>2, <2>3 DEF IsFile
  <1>5. \A n \in (d.synced \cup stays) \cap DOMAIN d.files :
           /\ files[n].bytes = d.files[n].bytes /\ files[n].synced
           /\ d.files[n].intact /\ d.files[n].synced => files[n].intact
    BY DEF Inode, MayBeHarmed
  <1>6. /\ DOMAIN files = d.synced \cup stays /\ files = [n \in DOMAIN files |-> files[n]]
        /\ \A n \in DOMAIN files : IsFile(files[n])
    BY <1>4
  <1> HIDE DEF file, files
  <1>7. /\ e.made = TRUE /\ e.kept = TRUE /\ e.synced = d.synced \cup stays /\ e.files = files
        /\ e = [made |-> e.made, kept |-> e.kept, files |-> e.files, synced |-> e.synced]
    BY ONLY <1>1
  <1>8. IsDirectory(e) BY ONLY <1>3, <1>6, <1>7 DEF IsDirectory
  <1> QED BY ONLY <1>2, <1>5, <1>6, <1>7, <1>8

\* A directory without a manifest cannot show one, and one with its manifest
\* has nothing else to lose.
LEMMA LossKeepsDirectory ==
    ASSUME NEW d, IsDirectory(d), Directory(d), NEW e \in AfterLoss(d)
    PROVE  IsDirectory(e) /\ Directory(e)
  <1>1. CASE ~d.made BY <1>1 DEF AfterLoss
  <1>2. CASE e = NoDirectory BY <1>2, EmptyDirectory
  <1>3. CASE d.made /\ e # NoDirectory
    <2>1. PICK stays \in MayStay(d), harmed \in MayBeHarmed(d) : e = Found(d, stays, harmed)
      BY <1>3 DEF AfterLoss
    <2>2. /\ IsDirectory(e) /\ e.made /\ e.kept
          /\ e.synced = d.synced \cup stays /\ DOMAIN e.files = d.synced \cup stays
          /\ stays \subseteq UNION {Names(n) : n \in DOMAIN d.files \ d.synced}
          /\ ~({"manifest", "temporary"} \subseteq stays)
          /\ \A n \in (d.synced \cup stays) \cap DOMAIN d.files :
                /\ e.files[n].bytes = d.files[n].bytes /\ e.files[n].synced
                /\ d.files[n].intact /\ d.files[n].synced => e.files[n].intact
      BY <2>1, FoundFacts
    <2>3. ASSUME "manifest" \in DOMAIN e.files PROVE Committed(e)
      <3>1. d.synced \subseteq DOMAIN d.files BY DEF Directory
      <3>2. "manifest" \in DOMAIN d.files
        <4> SUFFICES ASSUME "manifest" \notin DOMAIN d.files PROVE FALSE OBVIOUS
        <4>1. "manifest" \in stays BY <2>2, <2>3, <3>1
        <4>2. PICK n \in DOMAIN d.files \ d.synced : "manifest" \in Names(n) BY <2>2, <4>1
        <4>3. n = "manifest" BY <4>2 DEF Names
        <4> QED BY <4>2, <4>3
      <3>3. Committed(d) BY <3>2 DEF Directory
      <3>4. stays \subseteq {"manifest", "temporary"}
        <4>1. DOMAIN d.files \ d.synced \subseteq {"manifest"}
          BY <3>3 DEF Committed, Complete
        <4>2. Names("manifest") = {"manifest", "temporary"} BY DEF Names
        <4> QED BY <2>2, <4>1, <4>2
      <3>5. d.synced \cup stays = Complete
        <4>1. "temporary" \notin stays
          <5>1. CASE "manifest" \in stays BY <2>2, <5>1
          <5>2. CASE "manifest" \notin stays
            <6>1. "manifest" \in d.synced BY <2>2, <2>3, <5>2
            <6>2. DOMAIN d.files \ d.synced = {}
              BY <3>3, <6>1 DEF Committed, Complete
            <6> QED BY <2>2, <6>2
          <5> QED BY <5>1, <5>2
        <4>2. d.synced \subseteq Complete BY <3>1, <3>3 DEF Committed
        <4>3. "manifest" \in d.synced \cup stays BY <2>2, <2>3
        <4> QED BY <3>3, <3>4, <4>1, <4>2, <4>3 DEF Committed, Complete
      <3>6. DOMAIN e.files = Complete /\ e.synced = Complete BY <2>2, <3>5
      <3>7. \A n \in Complete : /\ e.files[n].bytes = d.files[n].bytes
                                /\ e.files[n].synced /\ e.files[n].intact
        <4>1. \A n \in Complete : n \in (d.synced \cup stays) \cap DOMAIN d.files
                                  /\ d.files[n].intact /\ d.files[n].synced
          BY <3>3, <3>5 DEF Committed
        <4> QED BY <2>2, <4>1
      <3>8. /\ e.files["manifest"].bytes = d.files["manifest"].bytes
            /\ e.files["digest"].bytes = d.files["digest"].bytes
            /\ e.files["history"].bytes = d.files["history"].bytes
        BY <3>7 DEF Complete
      <3>9. {"artifact", "history", "digest"} \subseteq e.synced
        BY <3>6 DEF Complete
      <3> QED BY <3>3, <3>6, <3>7, <3>8, <3>9 DEF Committed
    <2> QED BY <2>2, <2>3 DEF Directory
  <1> QED BY <1>1, <1>2, <1>3 DEF AfterLoss

-----------------------------------------------------------------------------
(* The initial states.                                                     *)

LEMMA InitLemma == Init => IInv
  <1> SUFFICES ASSUME Init PROVE IInv OBVIOUS
  <1>1. /\ \A h \in Host : server[h] = [log |-> <<Header>>, durable |-> 1,
                                        image |-> NoImage, lock |-> FALSE]
        /\ "here" \in Host
    BY DEF Init, Host
  <1>2. Numbered(<<Header>>) /\ Len(<<Header>>) = 1
    <2>1. Header \in Byte BY DEF Header, Byte, Host
    <2>2. /\ <<Header>> \in Seq(Byte) /\ Len(<<Header>>) = 1 /\ <<Header>>[1] = Header
          /\ <<Header>> # <<>>
      BY <2>1
    <2> QED BY <2>2 DEF Numbered
  <1>3. Servers
    <2> DEFINE log == <<Header>>
    <2>1. \A h \in Host : server[h].log = log /\ server[h].durable = 1 BY <1>1
    <2>2. Numbered(log) /\ Len(log) = 1 BY <1>2
    <2> HIDE DEF log
    <2>3. ASSUME NEW h \in Host
          PROVE  /\ Numbered(server[h].log)
                 /\ server[h].durable \in 1 .. Len(server[h].log)
                 /\ server[h].durable = Len(server[h].log)
      <3>1. server[h].log = log /\ server[h].durable = 1 BY <2>1
      <3>2. Numbered(server[h].log) BY <2>2, <3>1
      <3>3. Len(server[h].log) = 1 BY <2>2, <3>1
      <3> QED BY <3>1, <3>2, <3>3
    <2> QED BY <2>3 DEF Servers
  <1>4. Checkpoints BY <1>1 DEF Checkpoints, Init
  <1>5. \A c \in Creator : job[c].pc = "idle" /\ job[c].copied = <<>> BY DEF Init
  <1>6. Locks BY <1>5 DEF Locks
  <1>7. OneOwner BY <1>5 DEF OneOwner, Owns, Working, BeforeRename, BeforeManifest,
                             BeforeDigest, BeforeArtifact
  <1>8. \A c \in Creator : ~Owns(c) /\ Copies(c)
    <2>1. "idle" \notin Verified
      BY DEF Verified, Working, BeforeRename, BeforeManifest, BeforeDigest, BeforeArtifact
    <2> QED BY <1>5, <2>1 DEF Owns, Verified, Copies
  <1>9. \A o \in Output : disk[o] = NoDirectory /\ Directory(disk[o])
    BY EmptyDirectory DEF Init
  <1>10. TypeOK
    <2>1. server \in [Host -> ServerType]
      <3>1. NoImage \in Point BY DEF NoImage, Point
      <3>2. <<Header>> \in Seq(Byte) BY <1>2 DEF Numbered
      <3> QED BY <3>1, <3>2 DEF Init, ServerType
    <2>2. job \in [Creator -> JobType]
      <3>1. NoImage \in Point BY DEF NoImage, Point
      <3>2. "idle" \in ProgramCounter /\ "here" \in Host BY DEF ProgramCounter, Host
      <3>3. <<>> \in Seq(Byte) OBVIOUS
      <3> QED BY <3>1, <3>2, <3>3 DEF Init, JobType
    <2>3. disk = [o \in Output |-> disk[o]] BY DEF Init
    <2>4. \A o \in Output : IsDirectory(disk[o]) BY <1>9, EmptyDirectory
    <2>5. powerLosses \in Nat /\ IsFiniteSet(checkpoints) BY FS_EmptySet DEF Init
    <2> QED BY <2>1, <2>2, <2>3, <2>4, <2>5 DEF TypeOK, ServerType, JobType
  <1> QED BY <1>3, <1>4, <1>6, <1>7, <1>8, <1>9, <1>10 DEF IInv

-----------------------------------------------------------------------------
(* The servers.                                                            *)

\* What no step takes from a server.
Keeps(h) ==
    /\ server'[h] \in ServerType /\ Numbered(server'[h].log)
    /\ server'[h].durable \in 1 .. Len(server'[h].log)
    /\ ~server'[h].lock => server'[h].durable = Len(server'[h].log)
    /\ server[h].durable <= server'[h].durable
    /\ \A i \in 1 .. server[h].durable : server'[h].log[i] = server[h].log[i]

LEMMA KeepsLog ==
    ASSUME TypeOK, Servers, NEW h \in Host, server'[h] \in ServerType,
           server'[h].log = server[h].log, server'[h].durable = server[h].durable,
           ~server'[h].lock => server[h].durable = Len(server[h].log)
    PROVE  Keeps(h)
  <1>1. server[h].durable \in 1 .. Len(server[h].log) /\ Numbered(server[h].log)
    BY DEF Servers
  <1>2. server[h].durable \in Nat BY TypeShape DEF ServerType
  <1> QED BY <1>1, <1>2 DEF Keeps

LEMMA AppendKeeps ==
    ASSUME TypeOK, Servers, NEW g \in Host, AppendFrame(g)
    PROVE  /\ server' = [h \in Host |-> server'[h]] /\ \A h \in Host : Keeps(h)
           /\ server'[g].image = server[g].image
           /\ \A h \in Host : h # g => server'[h] = server[h]
  <1>1. server \in [Host -> ServerType] BY TypeShape
  <1> DEFINE log == Append(server[g].log, <<g, Len(server[g].log), powerLosses>>)
  <1>2. /\ server' = [h \in Host |-> server'[h]]
        /\ server'[g].log = log /\ server'[g].lock = TRUE
        /\ server'[g].durable = server[g].durable /\ server'[g].image = server[g].image
        /\ server'[g] = [log |-> log, durable |-> server[g].durable,
                         image |-> server[g].image, lock |-> TRUE]
        /\ \A h \in Host : h # g => server'[h] = server[h]
    BY <1>1 DEF AppendFrame, ServerType
  <1>3. Numbered(server[g].log) /\ server[g].durable \in 1 .. Len(server[g].log)
        /\ Len(server[g].log) \in Nat
    BY <1>1, LenProperties DEF Servers, ServerType
  <1>4. /\ Numbered(log) /\ Len(log) = Len(server[g].log) + 1
        /\ \A i \in 1 .. Len(server[g].log) : log[i] = server[g].log[i]
    BY <1>3, NumberedAppend, TypeShape
  <1> HIDE DEF log
  <1>5. Keeps(g)
    <2>1. server[g].durable \in Nat /\ server[g].image \in Point BY <1>1 DEF ServerType
    <2>2. server'[g] \in ServerType BY <1>2, <1>4, <2>1 DEF ServerType, Numbered
    <2>3. server'[g].durable \in 1 .. Len(server'[g].log) BY <1>2, <1>3, <1>4, <2>1
    <2>4. \A i \in 1 .. server[g].durable : i \in 1 .. Len(server[g].log) BY <1>3, <2>1
    <2>5. \A i \in 1 .. server[g].durable : server'[g].log[i] = server[g].log[i]
      BY <1>2, <1>4, <2>4
    <2> QED BY <1>2, <1>4, <2>1, <2>2, <2>3, <2>5 DEF Keeps
  <1>6. ASSUME NEW h \in Host, h # g PROVE Keeps(h)
    BY <1>1, <1>2, <1>6, KeepsLog DEF Servers
  <1> QED BY <1>2, <1>5, <1>6

LEMMA SyncKeeps ==
    ASSUME TypeOK, Servers, NEW g \in Host, SyncFrame(g)
    PROVE  /\ server' = [h \in Host |-> server'[h]] /\ \A h \in Host : Keeps(h)
           /\ server'[g].image = server[g].image
           /\ \A h \in Host : h # g => server'[h] = server[h]
  <1>1. server \in [Host -> ServerType] BY TypeShape
  <1>2. /\ server' = [h \in Host |-> server'[h]]
        /\ server'[g].log = server[g].log /\ server'[g].lock = FALSE
        /\ server'[g].durable = Len(server[g].log) /\ server'[g].image = server[g].image
        /\ server'[g] = [log |-> server[g].log, durable |-> Len(server[g].log),
                         image |-> server[g].image, lock |-> FALSE]
        /\ \A h \in Host : h # g => server'[h] = server[h]
    BY <1>1 DEF SyncFrame, ServerType
  <1>3. Numbered(server[g].log) /\ server[g].durable \in 1 .. Len(server[g].log)
        /\ Len(server[g].log) \in Nat
    BY <1>1, LenProperties DEF Servers, ServerType
  <1>4. Keeps(g)
    <2>1. server[g].durable \in Nat /\ server[g].image \in Point BY <1>1 DEF ServerType
    <2>2. server'[g] \in ServerType BY <1>2, <1>3, <2>1 DEF ServerType, Numbered
    <2> QED BY <1>2, <1>3, <2>1, <2>2 DEF Keeps
  <1>5. ASSUME NEW h \in Host, h # g PROVE Keeps(h)
    BY <1>1, <1>2, <1>5, KeepsLog DEF Servers
  <1> QED BY <1>2, <1>4, <1>5

\* A checkpoint, or its end, only touches a server's image and lock.
LEMMA LockKeeps ==
    ASSUME TypeOK, Servers, NEW g \in Host, NEW image \in Point, NEW lock \in BOOLEAN,
           server' = [server EXCEPT ![g].lock = lock, ![g].image = image],
           ~lock => server[g].durable = Len(server[g].log)
    PROVE  /\ server' = [h \in Host |-> server'[h]] /\ \A h \in Host : Keeps(h)
           /\ server'[g].log = server[g].log /\ server'[g].durable = server[g].durable
           /\ server'[g].image = image /\ server'[g].lock = lock
           /\ \A h \in Host : h # g => server'[h] = server[h]
  <1>1. server \in [Host -> ServerType] BY TypeShape
  <1>2. /\ server' = [h \in Host |-> server'[h]]
        /\ server'[g].log = server[g].log /\ server'[g].lock = lock
        /\ server'[g].durable = server[g].durable /\ server'[g].image = image
        /\ server'[g] = [log |-> server[g].log, durable |-> server[g].durable,
                         image |-> image, lock |-> lock]
        /\ \A h \in Host : h # g => server'[h] = server[h]
    BY <1>1 DEF ServerType
  <1>3. server'[g] \in ServerType BY <1>1, <1>2 DEF ServerType
  <1>4. Keeps(g) BY <1>2, <1>3, KeepsLog
  <1>5. ASSUME NEW h \in Host, h # g PROVE Keeps(h)
    BY <1>1, <1>2, <1>5, KeepsLog DEF Servers
  <1> QED BY <1>2, <1>4, <1>5

LEMMA AskKeeps ==
    ASSUME TypeOK, Servers, NEW c \in Creator, AskCheckpoint(c)
    PROVE  LET g == job[c].host IN
           /\ server' = [h \in Host |-> server'[h]] /\ \A h \in Host : Keeps(h)
           /\ g \in Host /\ ~server[g].lock /\ server'[g].lock
           /\ server'[g].log = server[g].log /\ server'[g].durable = server[g].durable
           /\ server'[g].image = NoImage
           /\ \A h \in Host : h # g => server'[h] = server[h]
  <1> DEFINE g == job[c].host
  <1>1. g \in Host /\ NoImage \in Point BY TypeShape DEF JobType
  <1>2. server' = [server EXCEPT ![g].lock = TRUE, ![g].image = NoImage] /\ ~server[g].lock
    BY DEF AskCheckpoint
  <1> HIDE DEF g
  <1>3. /\ server' = [h \in Host |-> server'[h]] /\ \A h \in Host : Keeps(h)
        /\ server'[g].log = server[g].log /\ server'[g].durable = server[g].durable
        /\ server'[g].image = NoImage /\ server'[g].lock = TRUE
        /\ \A h \in Host : h # g => server'[h] = server[h]
    BY <1>1, <1>2, LockKeeps
  <1> QED BY <1>1, <1>2, <1>3 DEF g

LEMMA AnswerKeeps ==
    ASSUME TypeOK, Servers, Locks, NEW c \in Creator, AnswerCheckpoint(c)
    PROVE  LET g == job[c].host
               point == [watermark |-> Len(server[g].log), version |-> Len(server[g].log) - 1,
                         stamp |-> Cardinality(checkpoints) + 1]
           IN  /\ server' = [h \in Host |-> server'[h]] /\ \A h \in Host : Keeps(h)
               /\ g \in Host /\ point \in Point /\ server'[g].image = point
               /\ server[g].durable = Len(server[g].log)
               /\ server'[g].log = server[g].log /\ server'[g].durable = server[g].durable
               /\ \A h \in Host : h # g => server'[h] = server[h]
  <1> DEFINE g == job[c].host
             point == [watermark |-> Len(server[g].log), version |-> Len(server[g].log) - 1,
                       stamp |-> Cardinality(checkpoints) + 1]
  <1>1. g \in Host /\ server[g].log \in Seq(Byte) BY TypeShape DEF JobType, ServerType
  <1>2. point \in Point
    <2>1. Len(server[g].log) \in Nat /\ Cardinality(checkpoints) \in Nat
      BY <1>1, LenProperties, TypeShape
    <2>2. Len(server[g].log) # 0 BY <1>1 DEF Servers, Numbered
    <2>3. Len(server[g].log) - 1 \in Nat /\ Cardinality(checkpoints) + 1 \in Nat BY <2>1, <2>2
    <2> QED BY <2>1, <2>3 DEF Point
  <1>3. server' = [server EXCEPT ![g].lock = FALSE, ![g].image = point]
    BY DEF AnswerCheckpoint
  <1>4. server[g].durable = Len(server[g].log) BY DEF Locks, AnswerCheckpoint
  <1> HIDE DEF g, point
  <1>5. /\ server' = [h \in Host |-> server'[h]] /\ \A h \in Host : Keeps(h)
        /\ server'[g].log = server[g].log /\ server'[g].durable = server[g].durable
        /\ server'[g].image = point
        /\ \A h \in Host : h # g => server'[h] = server[h]
    BY <1>1, <1>2, <1>3, <1>4, LockKeeps
  <1> QED BY <1>1, <1>2, <1>4, <1>5 DEF g, point

LEMMA SameServers ==
    ASSUME TypeOK, Servers, server' = server
    PROVE  server' = [h \in Host |-> server'[h]] /\ \A h \in Host : Keeps(h)
  <1>1. server \in [Host -> ServerType] BY TypeShape
  <1>2. \A h \in Host : Keeps(h) BY <1>1, KeepsLog DEF Servers
  <1> QED BY <1>1, <1>2

LEMMA AbandonKeeps ==
    ASSUME TypeOK, Servers, Locks, NEW c \in Creator, Abandon(c)
    PROVE  LET g == job[c].host IN
           /\ server' = [h \in Host |-> server'[h]] /\ \A h \in Host : Keeps(h)
           /\ g \in Host /\ \A h \in Host : server'[h].image = server[h].image
           /\ server'[g].log = server[g].log /\ server'[g].durable = server[g].durable
           /\ job[c].pc # "checkpoint" => server' = server
           /\ \A h \in Host : h # g => server'[h] = server[h]
  <1> DEFINE g == job[c].host
  <1>1. server \in [Host -> ServerType] /\ g \in Host BY TypeShape DEF JobType
  <1>2. CASE job[c].pc = "checkpoint"
    <2>1. server' = [server EXCEPT ![g].lock = FALSE] BY <1>2 DEF Abandon
    <2>2. server[g].durable = Len(server[g].log) BY <1>2 DEF Locks
    <2>3. server[g].image \in Point BY <1>1 DEF ServerType
    <2> HIDE DEF g
    <2>4. server' = [server EXCEPT ![g].lock = FALSE, ![g].image = server[g].image]
      BY <1>1, <2>1 DEF ServerType
    <2>5. /\ server' = [h \in Host |-> server'[h]] /\ \A h \in Host : Keeps(h)
          /\ server'[g].log = server[g].log /\ server'[g].durable = server[g].durable
          /\ server'[g].image = server[g].image
          /\ \A h \in Host : h # g => server'[h] = server[h]
      BY <1>1, <2>2, <2>3, <2>4, LockKeeps
    <2> QED BY <1>1, <1>2, <2>5 DEF g
  <1>3. CASE job[c].pc # "checkpoint"
    <2>1. server' = server BY <1>3 DEF Abandon
    <2> QED BY <1>1, <2>1, SameServers
  <1> QED BY <1>2, <1>3

LEMMA LossKeeps ==
    ASSUME TypeOK, Servers, PowerLoss
    PROVE  /\ server' = [h \in Host |-> server'[h]] /\ \A h \in Host : Keeps(h)
           /\ \A h \in Host : server'[h].image = server[h].image
  <1>1. server \in [Host -> ServerType] BY TypeShape
  <1>2. server' = [h \in Host |-> server'[h]] BY DEF PowerLoss
  <1>3. ASSUME NEW h \in Host
        PROVE  Keeps(h) /\ server'[h].image = server[h].image
    <2> DEFINE n == server[h].durable
               log == SubSeq(server[h].log, 1, n)
    <2>1. server'[h] = [server[h] EXCEPT !.log = log, !.lock = FALSE] BY DEF PowerLoss
    <2>2. /\ server[h] \in ServerType /\ n \in Nat /\ server[h].image \in Point
          /\ Numbered(server[h].log) /\ n \in 1 .. Len(server[h].log)
      BY <1>1 DEF Servers, ServerType
    <2>3. Numbered(log) /\ Len(log) = n /\ \A i \in 1 .. n : log[i] = server[h].log[i]
      BY <2>2, NumberedPrefix
    <2> HIDE DEF log
    <2>4. server'[h] = [log |-> log, durable |-> n, image |-> server[h].image, lock |-> FALSE]
      BY <2>1, <2>2 DEF ServerType
    <2>5. /\ server'[h].log = log /\ server'[h].durable = n
          /\ server'[h].image = server[h].image /\ server'[h].lock = FALSE
      BY <2>4
    <2>6. server'[h] \in ServerType BY <2>2, <2>3, <2>4 DEF ServerType, Numbered
    <2>7. n \in 1 .. n /\ n <= n
      <3> HIDE DEF n
      <3>1. Len(server[h].log) \in Nat BY <2>2, LenProperties DEF Numbered
      <3> QED BY <2>2, <3>1
    <2> QED BY <2>3, <2>5, <2>6, <2>7 DEF Keeps
  <1> QED BY <1>2, <1>3

\* The steps of one creator that leave the servers alone.
Quiet(c) ==
    \/ \E o \in Output, h \in Host : Begin(c, o, h)
    \/ VerifySnapshot(c) \/ MakeOutput(c) \/ CopyPrefix(c) \/ Write(c) \/ Sync(c)
    \/ SyncEntries(c) \/ Rename(c) \/ SyncParent(c)

LEMMA NextCases ==
    ASSUME [Next]_vars
    PROVE  \/ \E h \in Host : AppendFrame(h) \/ SyncFrame(h)
           \/ \E c \in Creator : Quiet(c) \/ AskCheckpoint(c) \/ AnswerCheckpoint(c) \/ Abandon(c)
           \/ PowerLoss
           \/ UNCHANGED vars
  <1>1. CASE UNCHANGED vars BY <1>1
  <1>2. CASE Next BY <1>2 DEF Next, Quiet
  <1> QED BY <1>1, <1>2

LEMMA QuietLeaves ==
    ASSUME NEW c \in Creator, Quiet(c)
    PROVE  UNCHANGED <<server, powerLosses, checkpoints>>
  BY DEF Quiet, Begin, VerifySnapshot, MakeOutput, CopyPrefix, Write, Sync, SyncEntries,
         Rename, SyncParent

LEMMA ServersLemma ==
    ASSUME IInv, [Next]_vars
    PROVE  server' \in [Host -> ServerType] /\ Servers' /\ \A h \in Host : Keeps(h)
  <1>1. TypeOK /\ Servers /\ Locks BY DEF IInv
  <1>2. server' = [h \in Host |-> server'[h]] /\ \A h \in Host : Keeps(h)
    <2>1. ASSUME NEW h \in Host, AppendFrame(h) \/ SyncFrame(h)
          PROVE  server' = [g \in Host |-> server'[g]] /\ \A g \in Host : Keeps(g)
      BY <1>1, <2>1, AppendKeeps, SyncKeeps
    <2>2. ASSUME NEW c \in Creator, Quiet(c) \/ UNCHANGED vars
          PROVE  server' = [g \in Host |-> server'[g]] /\ \A g \in Host : Keeps(g)
      BY <1>1, <2>2, QuietLeaves, SameServers DEF vars
    <2>3. ASSUME UNCHANGED vars
          PROVE  server' = [g \in Host |-> server'[g]] /\ \A g \in Host : Keeps(g)
      BY <1>1, <2>3, SameServers DEF vars
    <2>4. ASSUME NEW c \in Creator, AskCheckpoint(c)
          PROVE  server' = [g \in Host |-> server'[g]] /\ \A g \in Host : Keeps(g)
      BY <1>1, <2>4, AskKeeps
    <2>5. ASSUME NEW c \in Creator, AnswerCheckpoint(c)
          PROVE  server' = [g \in Host |-> server'[g]] /\ \A g \in Host : Keeps(g)
      BY <1>1, <2>5, AnswerKeeps
    <2>6. ASSUME NEW c \in Creator, Abandon(c)
          PROVE  server' = [g \in Host |-> server'[g]] /\ \A g \in Host : Keeps(g)
      BY <1>1, <2>6, AbandonKeeps
    <2>7. ASSUME PowerLoss
          PROVE  server' = [g \in Host |-> server'[g]] /\ \A g \in Host : Keeps(g)
      BY <1>1, <2>7, LossKeeps
    <2> QED BY <2>1, <2>2, <2>3, <2>4, <2>5, <2>6, <2>7, NextCases
  <1>3. \A h \in Host : server'[h] \in ServerType BY <1>2 DEF Keeps
  <1>4. server' \in [Host -> ServerType] BY <1>2, <1>3
  <1>5. Servers' BY <1>2 DEF Keeps, Servers
  <1> QED BY <1>2, <1>4, <1>5

-----------------------------------------------------------------------------
(* The checkpoints.                                                        *)

\* The supplied server goes on keeping what was checkpointed.
LEMMA SourceKeeps ==
    ASSUME TypeOK, Checkpoints, Keeps("here"), NEW k \in checkpoints, KeptBySource(k)
    PROVE  KeptBySource(k)'
  <1>1. server[ "here" ].durable \in Nat /\ server'[ "here" ].durable \in Nat
    BY TypeShape DEF Keeps, ServerType, Host
  <1>2. k.point.watermark \in Nat BY LenProperties DEF Checkpoints, Numbered
  <1>3. /\ k.point.watermark <= server["here"].durable
        /\ server["here"].durable <= server'["here"].durable
    BY DEF KeptBySource, Keeps
  <1>4. k.point.watermark <= server'["here"].durable BY <1>1, <1>2, <1>3
  <1>5. ASSUME NEW i \in 1 .. k.point.watermark
        PROVE  server'["here"].log[i] = k.log[i]
    <2>1. i \in 1 .. server["here"].durable BY <1>1, <1>2, <1>3
    <2> QED BY <2>1 DEF Keeps, KeptBySource
  <1> QED BY <1>4, <1>5 DEF KeptBySource

LEMMA ImageStays ==
    ASSUME TypeOK, Checkpoints, Keeps("here"), checkpoints' = checkpoints,
           server'["here"].image \in {NoImage, server["here"].image}
    PROVE  Checkpoints'
  <1>1. \A k \in checkpoints' : Numbered(k.log) /\ Len(k.log) = k.point.watermark
    BY DEF Checkpoints
  <1>2. CASE server'["here"].image = NoImage BY <1>1, <1>2 DEF Checkpoints
  <1>3. CASE server'["here"].image = server["here"].image
    <2>1. CASE server["here"].image = NoImage BY <1>1, <1>3, <2>1 DEF Checkpoints
    <2>2. CASE server["here"].image # NoImage
      <3>1. PICK k \in checkpoints : k.point = server["here"].image /\ KeptBySource(k)
        BY <2>2 DEF Checkpoints
      <3>2. KeptBySource(k)' BY <3>1, SourceKeeps
      <3>3. k \in checkpoints' /\ k.point = server'["here"].image BY <1>3, <3>1
      <3> QED BY <1>1, <3>2, <3>3 DEF Checkpoints
    <2> QED BY <2>1, <2>2
  <1> QED BY <1>2, <1>3

LEMMA AnswerCheckpoints ==
    ASSUME IInv, NEW c \in Creator, AnswerCheckpoint(c)
    PROVE  Checkpoints' /\ checkpoints \subseteq checkpoints' /\ IsFiniteSet(checkpoints')
  <1> DEFINE g == job[c].host
             point == [watermark |-> Len(server[g].log), version |-> Len(server[g].log) - 1,
                       stamp |-> Cardinality(checkpoints) + 1]
             k == [point |-> point, log |-> server[g].log]
  <1>1. TypeOK /\ Servers /\ Locks /\ Checkpoints BY DEF IInv
  <1>2. /\ \A h \in Host : Keeps(h)
        /\ g \in Host /\ point \in Point /\ server'[g].image = point
        /\ server[g].durable = Len(server[g].log)
        /\ server'[g].log = server[g].log /\ server'[g].durable = server[g].durable
        /\ \A h \in Host : h # g => server'[h] = server[h]
    BY <1>1, AnswerKeeps
  <1>3. checkpoints' = checkpoints \cup {k} BY DEF AnswerCheckpoint
  <1>4. /\ k.point = point /\ k.log = server[g].log /\ point.watermark = Len(server[g].log)
        /\ point.version = Len(server[g].log) - 1
        /\ Len(server[g].log) \in Nat /\ Numbered(server[g].log)
    BY <1>1, <1>2, LenProperties DEF Servers, Numbered
  <1> HIDE DEF k, point, g
  <1>5. \A q \in checkpoints' :
           Numbered(q.log) /\ Len(q.log) = q.point.watermark /\ q.point.version = Len(q.log) - 1
    BY <1>1, <1>3, <1>4 DEF Checkpoints
  <1>6. IsFiniteSet(checkpoints') /\ checkpoints \subseteq checkpoints' /\ k \in checkpoints'
    BY <1>1, <1>3, FS_AddElement DEF TypeOK
  <1>7. CASE g = "here"
    <2>1. /\ k.point.watermark <= server'["here"].durable
          /\ \A i \in 1 .. k.point.watermark : server'["here"].log[i] = k.log[i]
      BY <1>2, <1>4, <1>7
    <2>2. k.point = server'["here"].image BY <1>2, <1>4, <1>7
    <2>3. \E q \in checkpoints' :
             /\ q.point = server'["here"].image /\ q.point.watermark <= server'["here"].durable
             /\ \A i \in 1 .. q.point.watermark : server'["here"].log[i] = q.log[i]
      BY <1>6, <2>1, <2>2
    <2> QED BY <1>5, <1>6, <2>3 DEF Checkpoints, KeptBySource
  <1>8. CASE g # "here"
    <2>1. server'["here"] = server["here"] /\ Keeps("here") BY <1>2, <1>8 DEF Host
    <2>2. CASE server["here"].image = NoImage BY <1>5, <1>6, <2>1, <2>2 DEF Checkpoints
    <2>3. CASE server["here"].image # NoImage
      <3>1. PICK q \in checkpoints : q.point = server["here"].image /\ KeptBySource(q)
        BY <1>1, <2>3 DEF Checkpoints
      <3>2. KeptBySource(q)' BY <1>1, <2>1, <3>1, SourceKeeps
      <3>3. q \in checkpoints' /\ q.point = server'["here"].image BY <1>6, <2>1, <3>1
      <3> QED BY <1>5, <1>6, <3>2, <3>3 DEF Checkpoints
    <2> QED BY <2>2, <2>3
  <1> QED BY <1>7, <1>8

LEMMA CheckpointsLemma ==
    ASSUME IInv, [Next]_vars
    PROVE  /\ Checkpoints' /\ checkpoints \subseteq checkpoints' /\ IsFiniteSet(checkpoints')
           /\ \A k \in checkpoints : KeptBySource(k) => KeptBySource(k)'
  <1>1. TypeOK /\ Servers /\ Locks /\ Checkpoints /\ IsFiniteSet(checkpoints)
    BY DEF IInv, TypeOK
  <1>2. Keeps("here") BY ServersLemma DEF Host
  <1>3. \A k \in checkpoints : KeptBySource(k) => KeptBySource(k)' BY <1>1, <1>2, SourceKeeps
  <1>4. ASSUME checkpoints' = checkpoints, server'["here"].image \in {NoImage, server["here"].image}
        PROVE  Checkpoints' /\ checkpoints \subseteq checkpoints' /\ IsFiniteSet(checkpoints')
    BY <1>1, <1>2, <1>4, ImageStays
  <1> DEFINE Goal == Checkpoints' /\ checkpoints \subseteq checkpoints' /\ IsFiniteSet(checkpoints')
  <1>5. ASSUME NEW h \in Host, AppendFrame(h) \/ SyncFrame(h) PROVE Goal
    <2>1. server'["here"].image = server["here"].image
      BY <1>1, <1>5, AppendKeeps, SyncKeeps DEF Host
    <2>2. checkpoints' = checkpoints BY <1>5 DEF AppendFrame, SyncFrame
    <2> QED BY <1>4, <2>1, <2>2
  <1>6. ASSUME NEW c \in Creator, Quiet(c) PROVE Goal BY <1>4, <1>6, QuietLeaves
  <1>7. ASSUME NEW c \in Creator, AskCheckpoint(c) PROVE Goal
    <2>1. server'["here"].image \in {NoImage, server["here"].image}
      BY <1>1, <1>7, AskKeeps DEF Host
    <2>2. checkpoints' = checkpoints BY <1>7 DEF AskCheckpoint
    <2> QED BY <1>4, <2>1, <2>2
  <1>8. ASSUME NEW c \in Creator, AnswerCheckpoint(c) PROVE Goal BY <1>8, AnswerCheckpoints
  <1>9. ASSUME NEW c \in Creator, Abandon(c) PROVE Goal
    <2>1. server'["here"].image = server["here"].image BY <1>1, <1>9, AbandonKeeps DEF Host
    <2>2. checkpoints' = checkpoints BY <1>9 DEF Abandon
    <2> QED BY <1>4, <2>1, <2>2
  <1>10. ASSUME PowerLoss PROVE Goal
    <2>1. server'["here"].image = server["here"].image BY <1>1, <1>10, LossKeeps DEF Host
    <2>2. checkpoints' = checkpoints BY <1>10 DEF PowerLoss
    <2> QED BY <1>4, <2>1, <2>2
  <1>11. ASSUME UNCHANGED vars PROVE Goal BY <1>4, <1>11 DEF vars
  <1>12. Goal BY <1>5, <1>6, <1>7, <1>8, <1>9, <1>10, <1>11, NextCases
  <1> QED BY <1>3, <1>12

-----------------------------------------------------------------------------
(* The creators.                                                           *)

\* A step of one creator's own.
Moves(c) ==
    /\ job' \in [Creator -> JobType]
    /\ job'[c].pc \notin {"idle", "checkpoint"} /\ job'[c].output \in Output
    /\ \A b \in Creator : b # c => job'[b] = job[b]

LEMMA GoesMoves ==
    ASSUME TypeOK, OneOwner, NEW c \in Creator, job[c].pc # "idle",
           NEW pc \in ProgramCounter, pc \notin {"idle", "checkpoint"}, Goes(c, pc)
    PROVE  Moves(c)
  <1>1. job[c].output \in Output BY DEF OneOwner
  <1>2. /\ job' \in [Creator -> JobType] /\ job'[c].pc = pc /\ job'[c].output = job[c].output
        /\ \A b \in Creator : b # c => job'[b] = job[b]
    BY GoesTo
  <1> QED BY <1>1, <1>2 DEF Moves

LEMMA BeginMoves ==
    ASSUME TypeOK, NEW c \in Creator, NEW o \in Output, NEW h \in Host, Begin(c, o, h)
    PROVE  /\ Moves(c) /\ job'[c].pc \in {"failed", "ask"} /\ job'[c].copied = job[c].copied
           /\ disk' = disk
  <1> DEFINE pc == IF disk[o].made THEN "failed" ELSE "ask"
  <1>1. job \in [Creator -> JobType] BY TypeShape
  <1>2. job' = [job EXCEPT ![c].output = o, ![c].host = h, ![c].pc = pc] BY DEF Begin
  <1>3. pc \in {"failed", "ask"} OBVIOUS
  <1> HIDE DEF pc
  <1>4. pc \in ProgramCounter BY <1>3 DEF ProgramCounter
  <1>5. /\ job' \in [Creator -> JobType] /\ job'[c].pc = pc /\ job'[c].output = o
        /\ job'[c].copied = job[c].copied
        /\ \A b \in Creator : b # c => job'[b] = job[b]
    BY <1>1, <1>2, <1>4 DEF JobType
  <1> QED BY <1>3, <1>5 DEF Moves, Begin

LEMMA AnswerMoves ==
    ASSUME TypeOK, Servers, Locks, OneOwner, NEW c \in Creator, AnswerCheckpoint(c)
    PROVE  /\ Moves(c) /\ job'[c].pc = "verify" /\ job'[c].copied = job[c].copied
           /\ disk' = disk
  <1> DEFINE h == job[c].host
             point == [watermark |-> Len(server[h].log), version |-> Len(server[h].log) - 1,
                       stamp |-> Cardinality(checkpoints) + 1]
  <1>1. job \in [Creator -> JobType] BY TypeShape
  <1>2. job' = [job EXCEPT ![c].pc = "verify", ![c].point = point] BY DEF AnswerCheckpoint
  <1>3. point \in Point BY AnswerKeeps
  <1>4. "verify" \in ProgramCounter BY DEF ProgramCounter
  <1> HIDE DEF point
  <1>5. /\ job' \in [Creator -> JobType] /\ job'[c].pc = "verify"
        /\ job'[c].output = job[c].output /\ job'[c].copied = job[c].copied
        /\ \A b \in Creator : b # c => job'[b] = job[b]
    BY <1>1, <1>2, <1>3, <1>4 DEF JobType
  <1>6. job[c].output \in Output BY DEF OneOwner, AnswerCheckpoint
  <1> QED BY <1>5, <1>6 DEF Moves, AnswerCheckpoint

\* The byte that is read next is that of the checkpoint, which the source
\* still has.
LEMMA NextByte ==
    ASSUME IInv, NEW c \in Creator, job[c].pc = "copy",
           Len(job[c].copied) + 1 <= job[c].point.watermark
    PROVE  LET n == Len(job[c].copied) + 1 IN
           \E k \in checkpoints :
              /\ k.point = job[c].point /\ KeptBySource(k)
              /\ n \in 1 .. k.point.watermark /\ server["here"].log[n] = k.log[n]
              /\ server["here"].log[n] \in Byte
              /\ \A i \in 1 .. Len(job[c].copied) : job[c].copied[i] = k.log[i]
  <1> DEFINE n == Len(job[c].copied) + 1
  <1>1. TypeOK /\ Servers /\ Checkpoints /\ Copies(c) BY DEF IInv
  <1>2. PICK k \in checkpoints :
           /\ k.point = job[c].point /\ KeptBySource(k)
           /\ \A i \in 1 .. Len(job[c].copied) : job[c].copied[i] = k.log[i]
    BY <1>1 DEF Copies, Verified, Working, BeforeRename, BeforeManifest, BeforeDigest,
                BeforeArtifact
  <1>3. Len(job[c].copied) \in Nat /\ job[c].point.watermark \in Nat
    BY <1>1, TypeShape, LenProperties DEF JobType, Point
  <1>4. n \in 1 .. k.point.watermark BY <1>2, <1>3
  <1>5. server["here"].log[n] = k.log[n] BY <1>2, <1>4 DEF KeptBySource
  <1>6. server["here"].log \in Seq(Byte) /\ Len(server["here"].log) \in Nat
        /\ server["here"].durable \in 1 .. Len(server["here"].log)
    BY <1>1, TypeShape, LenProperties DEF ServerType, Host, Servers
  <1>7. k.point.watermark <= server["here"].durable /\ k.point.watermark \in Nat
    BY <1>2, <1>3 DEF KeptBySource
  <1>8. n \in 1 .. Len(server["here"].log)
    <2> HIDE DEF n
    <2> QED BY <1>4, <1>6, <1>7
  <1>9. server["here"].log[n] \in Byte BY <1>6, <1>8, ElementOfSeq
  <1> QED BY <1>2, <1>4, <1>5, <1>9

LEMMA CopyMoves ==
    ASSUME IInv, NEW c \in Creator, CopyPrefix(c),
           Len(job[c].copied) + 1 <= job[c].point.watermark
    PROVE  LET byte == server["here"].log[Len(job[c].copied) + 1] IN
           /\ Moves(c) /\ byte \in Byte /\ job'[c].pc = "copy" /\ job'[c].output = job[c].output
           /\ job'[c].point = job[c].point /\ job'[c].copied = Append(job[c].copied, byte)
  <1> DEFINE byte == server["here"].log[Len(job[c].copied) + 1]
  <1>1. TypeOK /\ OneOwner /\ job[c].pc = "copy" BY DEF IInv, CopyPrefix
  <1>2. job \in [Creator -> JobType] BY <1>1, TypeShape
  <1>3. byte \in Byte BY <1>1, NextByte
  <1>4. job' = [job EXCEPT ![c].copied = Append(@, byte)] BY DEF CopyPrefix
  <1>5. job[c].output \in Output BY <1>1 DEF OneOwner
  <1>6. job[c].copied \in Seq(Byte) BY <1>2 DEF JobType
  <1> HIDE DEF byte
  <1>7. Append(job[c].copied, byte) \in Seq(Byte) BY <1>3, <1>6, AppendProperties
  <1>8. /\ job' \in [Creator -> JobType] /\ job'[c].pc = "copy"
        /\ job'[c].output = job[c].output /\ job'[c].point = job[c].point
        /\ job'[c].copied = Append(job[c].copied, byte)
        /\ \A b \in Creator : b # c => job'[b] = job[b]
    BY <1>1, <1>2, <1>4, <1>7 DEF JobType
  <1> QED BY <1>3, <1>5, <1>8 DEF Moves, byte

LEMMA WriteCases ==
    ASSUME NEW w \in Writes
    PROVE  \/ w.at = "artifact" /\ w.name = "artifact" /\ w.next = "sync artifact"
           \/ w.at = "digest" /\ w.name = "digest" /\ w.next = "sync digest"
           \/ w.at = "manifest" /\ w.name = "temporary" /\ w.next = "sync manifest"
  <1>1. CASE w = [at |-> "artifact", name |-> "artifact", next |-> "sync artifact"] BY <1>1
  <1>2. CASE w = [at |-> "digest", name |-> "digest", next |-> "sync digest"] BY <1>2
  <1>3. CASE w = [at |-> "manifest", name |-> "temporary", next |-> "sync manifest"] BY <1>3
  <1> QED BY <1>1, <1>2, <1>3, Zenon DEF Writes

LEMMA SyncCases ==
    ASSUME NEW s \in Syncs
    PROVE  \/ s.at = "sync history" /\ s.name = "history" /\ s.next = "artifact"
           \/ s.at = "sync artifact" /\ s.name = "artifact" /\ s.next = "digest"
           \/ s.at = "sync digest" /\ s.name = "digest" /\ s.next = "sync entries"
           \/ s.at = "sync manifest" /\ s.name = "temporary" /\ s.next = "rename"
  <1>1. CASE s = [at |-> "sync history", name |-> "history", next |-> "artifact"] BY <1>1
  <1>2. CASE s = [at |-> "sync artifact", name |-> "artifact", next |-> "digest"] BY <1>2
  <1>3. CASE s = [at |-> "sync digest", name |-> "digest", next |-> "sync entries"] BY <1>3
  <1>4. CASE s = [at |-> "sync manifest", name |-> "temporary", next |-> "rename"] BY <1>4
  <1> QED BY <1>1, <1>2, <1>3, <1>4, Zenon DEF Syncs

LEMMA QuietMoves ==
    ASSUME IInv, NEW c \in Creator, Quiet(c)
    PROVE  Moves(c)
  <1>1. TypeOK /\ OneOwner BY DEF IInv
  <1>2. ASSUME NEW o \in Output, NEW h \in Host, Begin(c, o, h) PROVE Moves(c)
    BY <1>1, <1>2, BeginMoves
  <1>3. CASE VerifySnapshot(c)
    <2> DEFINE pc == IF MatchesReceipt(job[c].point) THEN "mkdir" ELSE "failed"
    <2>1. Goes(c, pc) /\ job[c].pc # "idle" BY <1>3 DEF VerifySnapshot
    <2>2. pc \in {"mkdir", "failed"} OBVIOUS
    <2> HIDE DEF pc
    <2>3. pc \in ProgramCounter /\ pc \notin {"idle", "checkpoint"}
      BY <2>2 DEF ProgramCounter
    <2> QED BY <1>1, <2>1, <2>3, GoesMoves
  <1>4. CASE MakeOutput(c)
    <2>1. job[c].pc # "idle" /\ (Goes(c, "failed") \/ Goes(c, "copy")) BY <1>4 DEF MakeOutput
    <2>2. "failed" \in ProgramCounter /\ "copy" \in ProgramCounter BY DEF ProgramCounter
    <2> QED BY <1>1, <2>1, <2>2, GoesMoves
  <1>5. CASE CopyPrefix(c)
    <2>1. CASE Len(job[c].copied) + 1 <= job[c].point.watermark BY <1>5, <2>1, CopyMoves
    <2>2. CASE ~(Len(job[c].copied) + 1 <= job[c].point.watermark)
      <3>1. job[c].pc # "idle" /\ Goes(c, "sync history") BY <1>5, <2>2 DEF CopyPrefix
      <3>2. "sync history" \in ProgramCounter BY DEF ProgramCounter
      <3> QED BY <1>1, <3>1, <3>2, GoesMoves
    <2> QED BY <2>1, <2>2
  <1>6. CASE Write(c)
    <2>1. PICK w \in Writes : job[c].pc = w.at /\ Goes(c, w.next) BY <1>6 DEF Write
    <2>2. w.next \in ProgramCounter /\ w.next \notin {"idle", "checkpoint"} /\ w.at # "idle"
      BY <2>1, WriteCases DEF ProgramCounter
    <2> QED BY <1>1, <2>1, <2>2, GoesMoves
  <1>7. CASE Sync(c)
    <2>1. PICK s \in Syncs : job[c].pc = s.at /\ Goes(c, s.next) BY <1>7 DEF Sync
    <2>2. s.next \in ProgramCounter /\ s.next \notin {"idle", "checkpoint"} /\ s.at # "idle"
      BY <2>1, SyncCases DEF ProgramCounter
    <2> QED BY <1>1, <2>1, <2>2, GoesMoves
  <1>8. CASE SyncEntries(c)
    <2>1. job[c].pc # "idle" /\ (Goes(c, "manifest") \/ Goes(c, "sync parent"))
      BY <1>8 DEF SyncEntries
    <2>2. "manifest" \in ProgramCounter /\ "sync parent" \in ProgramCounter
      BY DEF ProgramCounter
    <2> QED BY <1>1, <2>1, <2>2, GoesMoves
  <1>9. CASE Rename(c)
    <2>1. job[c].pc # "idle" /\ Goes(c, "sync renamed") BY <1>9 DEF Rename
    <2>2. "sync renamed" \in ProgramCounter BY DEF ProgramCounter
    <2> QED BY <1>1, <2>1, <2>2, GoesMoves
  <1>10. CASE SyncParent(c)
    <2>1. job[c].pc # "idle" /\ Goes(c, "done") BY <1>10 DEF SyncParent
    <2>2. "done" \in ProgramCounter BY DEF ProgramCounter
    <2> QED BY <1>1, <2>1, <2>2, GoesMoves
  <1> QED BY <1>2, <1>3, <1>4, <1>5, <1>6, <1>7, <1>8, <1>9, <1>10 DEF Quiet

LEMMA AskMoves ==
    ASSUME TypeOK, OneOwner, NEW c \in Creator, AskCheckpoint(c)
    PROVE  /\ job' \in [Creator -> JobType] /\ job[c].pc = "ask" /\ job'[c].pc = "checkpoint"
           /\ job'[c].copied = job[c].copied /\ job'[c].host = job[c].host
           /\ job'[c].output \in Output /\ disk' = disk
           /\ \A b \in Creator : b # c => job'[b] = job[b]
  <1>1. Goes(c, "checkpoint") /\ job[c].pc = "ask" /\ disk' = disk BY DEF AskCheckpoint
  <1>2. "checkpoint" \in ProgramCounter BY DEF ProgramCounter
  <1>3. job[c].output \in Output BY <1>1 DEF OneOwner
  <1> QED BY <1>1, <1>2, <1>3, GoesTo

LEMMA AbandonMoves ==
    ASSUME TypeOK, OneOwner, NEW c \in Creator, Abandon(c)
    PROVE  Moves(c) /\ job'[c].pc = "failed" /\ disk' = disk
  <1>1. Goes(c, "failed") /\ job[c].pc # "idle" /\ disk' = disk BY DEF Abandon, Ended
  <1>2. "failed" \in ProgramCounter BY DEF ProgramCounter
  <1> QED BY <1>1, <1>2, GoesTo, GoesMoves

LEMMA LossMoves ==
    ASSUME TypeOK, PowerLoss
    PROVE  /\ job' \in [Creator -> JobType]
           /\ \A c \in Creator :
                 /\ job'[c].output = job[c].output /\ job'[c].point = job[c].point
                 /\ job'[c].copied = job[c].copied
                 /\ (job'[c].pc = job[c].pc /\ job[c].pc \in Ended) \/ job'[c].pc = "failed"
                 /\ job'[c].pc = "idle" <=> job[c].pc = "idle"
  <1>1. job \in [Creator -> JobType] BY TypeShape
  <1>2. job' = [c \in Creator |-> job'[c]] BY DEF PowerLoss
  <1>3. ASSUME NEW c \in Creator
        PROVE  /\ job'[c] \in JobType
               /\ job'[c].output = job[c].output /\ job'[c].point = job[c].point
               /\ job'[c].copied = job[c].copied
               /\ (job'[c].pc = job[c].pc /\ job[c].pc \in Ended) \/ job'[c].pc = "failed"
               /\ job'[c].pc = "idle" <=> job[c].pc = "idle"
    <2> DEFINE pc == IF job[c].pc \in Ended THEN job[c].pc ELSE "failed"
               j == job[c]
    <2>1. job'[c] = [j EXCEPT !.pc = pc] /\ j \in JobType BY <1>1 DEF PowerLoss
    <2>2. /\ (pc = j.pc /\ j.pc \in Ended) \/ pc = "failed"
          /\ pc = "idle" <=> j.pc = "idle"
      BY DEF Ended
    <2>3. pc \in ProgramCounter BY <1>1 DEF JobType, ProgramCounter
    <2> HIDE DEF pc, j
    <2>4. /\ job'[c] \in JobType /\ job'[c].pc = pc /\ job'[c].output = j.output
          /\ job'[c].point = j.point /\ job'[c].copied = j.copied
      BY <2>1, <2>3 DEF JobType
    <2> QED BY <2>2, <2>4 DEF j
  <1> QED BY <1>2, <1>3

LEMMA JobsLemma ==
    ASSUME IInv, [Next]_vars
    PROVE  /\ job' \in [Creator -> JobType]
           /\ \A c \in Creator : job'[c].pc # "idle" => job'[c].output \in Output
  <1>1. TypeOK /\ OneOwner /\ Servers /\ Locks /\ job \in [Creator -> JobType]
    BY TypeShape DEF IInv
  <1>2. \A c \in Creator : job[c].pc # "idle" => job[c].output \in Output BY <1>1 DEF OneOwner
  <1> DEFINE Goal == /\ job' \in [Creator -> JobType]
                     /\ \A c \in Creator : job'[c].pc # "idle" => job'[c].output \in Output
  <1>3. ASSUME job' = job PROVE Goal BY <1>1, <1>2, <1>3
  <1>0. ASSUME NEW c \in Creator, job' \in [Creator -> JobType], job'[c].output \in Output,
               \A b \in Creator : b # c => job'[b] = job[b]
        PROVE  Goal
    <2>1. ASSUME NEW b \in Creator, job'[b].pc # "idle" PROVE job'[b].output \in Output
      <3>1. CASE b = c BY <1>0, <3>1
      <3>2. CASE b # c
        <4>1. job'[b] = job[b] BY <1>0, <3>2
        <4> QED BY <1>2, <2>1, <4>1
      <3> QED BY <3>1, <3>2
    <2> QED BY <1>0, <2>1
  <1>4. ASSUME NEW c \in Creator, Moves(c) PROVE Goal
    <2> HIDE DEF Goal
    <2> QED BY <1>0, <1>4 DEF Moves
  <1>5. ASSUME NEW h \in Host, AppendFrame(h) \/ SyncFrame(h) PROVE Goal
    BY <1>3, <1>5 DEF AppendFrame, SyncFrame
  <1>6. ASSUME NEW c \in Creator, Quiet(c) PROVE Goal BY <1>4, <1>6, QuietMoves
  <1>7. ASSUME NEW c \in Creator, AskCheckpoint(c) PROVE Goal
    <2> HIDE DEF Goal
    <2> QED BY <1>0, <1>1, <1>7, AskMoves
  <1>8. ASSUME NEW c \in Creator, AnswerCheckpoint(c) PROVE Goal
    BY <1>1, <1>4, <1>8, AnswerMoves
  <1>9. ASSUME NEW c \in Creator, Abandon(c) PROVE Goal BY <1>1, <1>4, <1>9, AbandonMoves
  <1>10. ASSUME PowerLoss PROVE Goal BY <1>1, <1>2, <1>10, LossMoves
  <1>11. ASSUME UNCHANGED vars PROVE Goal BY <1>3, <1>11 DEF vars
  <1>12. Goal BY <1>5, <1>6, <1>7, <1>8, <1>9, <1>10, <1>11, NextCases
  <1> QED BY <1>12

\* A server is let go of by the one that holds it.
LEMMA LocksStay ==
    ASSUME Locks,
           \A b \in Creator : job'[b].pc = "checkpoint" =>
               /\ job[b].pc = "checkpoint" /\ job'[b].host = job[b].host
               /\ server'[job[b].host] = server[job[b].host]
    PROVE  Locks'
  BY DEF Locks

LEMMA LocksLemma ==
    ASSUME IInv, [Next]_vars
    PROVE  Locks'
  <1>1. TypeOK /\ OneOwner /\ Servers /\ Locks /\ job \in [Creator -> JobType]
    BY TypeShape DEF IInv
  <1>2. \A b \in Creator : job[b].pc = "checkpoint" =>
           /\ job[b].host \in Host /\ server[job[b].host].lock
           /\ server[job[b].host].durable = Len(server[job[b].host].log)
    BY <1>1 DEF Locks, JobType
  <1>3. ASSUME NEW h \in Host, AppendFrame(h) \/ SyncFrame(h) PROVE Locks'
    <2>1. job' = job BY <1>3 DEF AppendFrame, SyncFrame
    <2>2. \A g \in Host : g # h => server'[g] = server[g]
      BY <1>1, <1>3, AppendKeeps, SyncKeeps
    <2>3. ~server[h].lock \/ server[h].durable < Len(server[h].log)
      BY <1>3 DEF AppendFrame, SyncFrame
    <2>4. server[h].durable \in Nat /\ Len(server[h].log) \in Nat
      BY <1>1, TypeShape, LenProperties DEF ServerType
    <2>5. \A b \in Creator : job[b].pc = "checkpoint" => job[b].host # h
      BY <1>2, <2>3, <2>4
    <2> QED BY <1>1, <1>2, <2>1, <2>2, <2>5, LocksStay
  <1>4. ASSUME NEW c \in Creator, Quiet(c) PROVE Locks'
    <2>1. Moves(c) /\ server' = server BY <1>4, QuietMoves, QuietLeaves
    <2> QED BY <1>1, <2>1, LocksStay DEF Moves
  <1>5. ASSUME NEW c \in Creator, AskCheckpoint(c) PROVE Locks'
    <2> DEFINE g == job[c].host
    <2>1. /\ g \in Host /\ ~server[g].lock /\ server'[g].lock
          /\ server'[g].log = server[g].log /\ server'[g].durable = server[g].durable
          /\ \A h \in Host : h # g => server'[h] = server[h]
      BY <1>1, <1>5, AskKeeps
    <2>2. /\ job'[c].pc = "checkpoint" /\ job'[c].host = g
          /\ \A b \in Creator : b # c => job'[b] = job[b]
      BY <1>1, <1>5, AskMoves
    <2>3. server[g].durable = Len(server[g].log) BY <1>1, <2>1 DEF Servers
    <2> HIDE DEF g
    <2>4. \A b \in Creator : b # c /\ job'[b].pc = "checkpoint" =>
             job'[b].host # g /\ server'[job[b].host] = server[job[b].host]
      BY <1>2, <2>1, <2>2
    <2>5. ASSUME NEW b \in Creator, job'[b].pc = "checkpoint"
          PROVE  /\ server'[job'[b].host].lock
                 /\ server'[job'[b].host].durable = Len(server'[job'[b].host].log)
      BY <1>2, <2>1, <2>2, <2>3, <2>4, <2>5
    <2>6. ASSUME NEW b \in Creator, NEW d \in Creator, job'[b].pc = "checkpoint",
                 job'[d].pc = "checkpoint", job'[b].host = job'[d].host
          PROVE  b = d
      BY <1>1, <2>2, <2>4, <2>6 DEF Locks
    <2> QED BY <2>5, <2>6 DEF Locks
  <1>6. ASSUME NEW c \in Creator, AnswerCheckpoint(c) \/ Abandon(c) PROVE Locks'
    <2> DEFINE g == job[c].host
    <2>1. Moves(c) BY <1>1, <1>6, AnswerMoves, AbandonMoves
    <2>2. \A h \in Host : h # g => server'[h] = server[h]
      BY <1>1, <1>6, AnswerKeeps, AbandonKeeps
    <2>3. CASE server' = server BY <1>1, <2>1, <2>3, LocksStay DEF Moves
    <2>4. CASE server' # server
      <3>1. job[c].pc = "checkpoint"
        BY <1>1, <1>6, <2>4, AbandonKeeps DEF AnswerCheckpoint
      <3>2. ASSUME NEW b \in Creator, job'[b].pc = "checkpoint"
            PROVE  /\ job[b].pc = "checkpoint" /\ job'[b].host = job[b].host
                   /\ server'[job[b].host] = server[job[b].host]
        <4>1. b # c /\ job'[b] = job[b] BY <2>1, <3>2 DEF Moves
        <4>2. job[b].host # g BY <1>1, <3>1, <3>2, <4>1 DEF Locks
        <4> HIDE DEF g
        <4> QED BY <1>2, <2>2, <3>2, <4>1, <4>2
      <3> QED BY <1>1, <3>2, LocksStay
    <2> QED BY <2>3, <2>4
  <1>7. ASSUME PowerLoss PROVE Locks'
    <2>1. \A c \in Creator : job'[c].pc # "checkpoint" BY <1>1, <1>7, LossMoves DEF Ended
    <2> QED BY <2>1 DEF Locks
  <1>8. ASSUME UNCHANGED vars PROVE Locks' BY <1>1, <1>8, LocksStay DEF vars
  <1> QED BY <1>3, <1>4, <1>5, <1>6, <1>7, <1>8, NextCases

-----------------------------------------------------------------------------
(* What a creator's step does to its output.                               *)

LEMMA OneChanged ==
    ASSUME TypeOK, NEW o \in Output, NEW e, disk' = [disk EXCEPT ![o] = e]
    PROVE  /\ disk' = [p \in Output |-> disk'[p]] /\ disk'[o] = e
           /\ \A p \in Output : p # o => disk'[p] = disk[p]
  BY DEF TypeOK

LEMMA StageMade ==
    ASSUME NEW j, j.pc = "copy", j.copied = <<>>, NEW e, e.made, e.synced = {},
           DOMAIN e.files = {}
    PROVE  Stage(j, e)
  BY DEF Stage, Entries, BeforeArtifact, BeforeDigest, BeforeManifest, BeforeRename

LEMMA StageCopied ==
    ASSUME NEW j, j.pc = "copy", NEW d, Stage(j, d),
           NEW i, i.pc = "copy", i.copied # <<>>, NEW e,
           e.made = d.made, e.synced = d.synced, DOMAIN e.files = DOMAIN d.files \cup {"history"},
           e.files["history"].bytes = i.copied, e.files["history"].intact,
           \A n \in DOMAIN d.files : n # "history" => e.files[n] = d.files[n]
    PROVE  Stage(i, e)
  BY DEF Stage, Entries, BeforeArtifact, BeforeDigest, BeforeManifest, BeforeRename

LEMMA StageCopyEnds ==
    ASSUME NEW j, j.pc = "copy", j.copied # <<>>, NEW d, Stage(j, d),
           NEW i, i.pc = "sync history", i.copied = j.copied
    PROVE  Stage(i, d)
  BY DEF Stage, Entries, BeforeArtifact, BeforeDigest, BeforeManifest, BeforeRename

LEMMA StageWritten ==
    ASSUME NEW j, NEW d, Stage(j, d), NEW w \in Writes, j.pc = w.at,
           NEW i, i.pc = w.next, i.copied = j.copied, i.point = j.point, NEW e,
           e.made = d.made, e.synced = d.synced, DOMAIN e.files = DOMAIN d.files \cup {w.name},
           e.files[w.name].bytes = (IF w.name = "artifact" THEN "receipt" ELSE Told(j)),
           e.files[w.name].intact,
           \A n \in DOMAIN d.files : n # w.name => e.files[n] = d.files[n]
    PROVE  Stage(i, e)
  <1>0. Told(i) = Told(j) BY DEF Told
  <1>1. CASE w.at = "artifact" /\ w.name = "artifact" /\ w.next = "sync artifact"
    BY <1>0, <1>1 DEF Stage, Entries, BeforeArtifact, BeforeDigest, BeforeManifest, BeforeRename
  <1>2. CASE w.at = "digest" /\ w.name = "digest" /\ w.next = "sync digest"
    BY <1>0, <1>2 DEF Stage, Entries, BeforeArtifact, BeforeDigest, BeforeManifest, BeforeRename
  <1>3. CASE w.at = "manifest" /\ w.name = "temporary" /\ w.next = "sync manifest"
    BY <1>0, <1>3 DEF Stage, Entries, BeforeArtifact, BeforeDigest, BeforeManifest, BeforeRename
  <1> QED BY <1>1, <1>2, <1>3, WriteCases

LEMMA StageSynced ==
    ASSUME NEW j, NEW d, Stage(j, d), NEW s \in Syncs, j.pc = s.at,
           NEW i, i.pc = s.next, i.copied = j.copied, i.point = j.point, NEW e,
           e.made = d.made, e.synced = d.synced, DOMAIN e.files = DOMAIN d.files,
           e.files[s.name].bytes = d.files[s.name].bytes, e.files[s.name].synced,
           e.files[s.name].intact = d.files[s.name].intact,
           \A n \in DOMAIN d.files : n # s.name => e.files[n] = d.files[n]
    PROVE  Stage(i, e)
  <1>0. Told(i) = Told(j) BY DEF Told
  <1>1. CASE s.at = "sync history" /\ s.name = "history" /\ s.next = "artifact"
    BY <1>0, <1>1 DEF Stage, Entries, BeforeArtifact, BeforeDigest, BeforeManifest, BeforeRename
  <1>2. CASE s.at = "sync artifact" /\ s.name = "artifact" /\ s.next = "digest"
    BY <1>0, <1>2 DEF Stage, Entries, BeforeArtifact, BeforeDigest, BeforeManifest, BeforeRename
  <1>3. CASE s.at = "sync digest" /\ s.name = "digest" /\ s.next = "sync entries"
    BY <1>0, <1>3 DEF Stage, Entries, BeforeArtifact, BeforeDigest, BeforeManifest, BeforeRename
  <1>4. CASE s.at = "sync manifest" /\ s.name = "temporary" /\ s.next = "rename"
    BY <1>0, <1>4 DEF Stage, Entries, BeforeArtifact, BeforeDigest, BeforeManifest, BeforeRename
  <1> QED BY <1>1, <1>2, <1>3, <1>4, SyncCases

\* The names of a directory before the manifest is shown, and after.
LEMMA StageNames ==
    ASSUME NEW j, NEW d, IsDirectory(d), Stage(j, d)
    PROVE  /\ j.pc = "sync entries" => DOMAIN d.files = {"artifact", "history", "digest"}
           /\ j.pc = "rename" => DOMAIN d.files = {"artifact", "history", "digest", "temporary"}
           /\ j.pc \in {"sync renamed", "sync parent", "done"} => DOMAIN d.files = Complete
  <1> DEFINE names == DOMAIN d.files
  <1>1. names \subseteq {"artifact", "history", "digest", "manifest", "temporary"}
    BY DEF IsDirectory, FileNames, Complete
  <1>2. /\ "history" \in names <=> ~(j.pc = "copy" /\ j.copied = <<>>)
        /\ "artifact" \in names <=> j.pc \notin BeforeArtifact
        /\ "digest" \in names <=> j.pc \notin BeforeDigest
        /\ "temporary" \in names <=> j.pc \in {"sync manifest", "rename"}
        /\ "manifest" \in names <=> j.pc \notin BeforeRename
    BY DEF Stage
  <1> HIDE DEF names
  <1>3. CASE j.pc = "sync entries"
    BY <1>1, <1>2, <1>3 DEF names, BeforeArtifact, BeforeDigest, BeforeManifest, BeforeRename
  <1>4. CASE j.pc = "rename"
    BY <1>1, <1>2, <1>4 DEF names, BeforeArtifact, BeforeDigest, BeforeManifest, BeforeRename
  <1>5. CASE j.pc \in {"sync renamed", "sync parent", "done"}
    BY <1>1, <1>2, <1>5
       DEF names, Complete, BeforeArtifact, BeforeDigest, BeforeManifest, BeforeRename
  <1> QED BY <1>3, <1>4, <1>5

LEMMA StageEntries ==
    ASSUME NEW j, NEW d, Stage(j, d), IsDirectory(d), NEW i, i.copied = j.copied,
           i.point = j.point, NEW e, e.made = d.made, e.files = d.files,
           e.synced = DOMAIN d.files,
           \/ j.pc = "sync entries" /\ i.pc = "manifest"
           \/ j.pc = "sync renamed" /\ i.pc = "sync parent"
    PROVE  Stage(i, e)
  <1>0. Told(i) = Told(j) BY DEF Told
  <1>1. CASE j.pc = "sync entries" /\ i.pc = "manifest"
    BY <1>0, <1>1, StageNames
       DEF Stage, Entries, BeforeArtifact, BeforeDigest, BeforeManifest, BeforeRename
  <1>2. CASE j.pc = "sync renamed" /\ i.pc = "sync parent"
    BY <1>0, <1>2, StageNames
       DEF Stage, Entries, BeforeArtifact, BeforeDigest, BeforeManifest, BeforeRename
  <1> QED BY <1>1, <1>2

LEMMA StageRenamed ==
    ASSUME NEW j, j.pc = "rename", NEW d, Stage(j, d), NEW i, i.pc = "sync renamed",
           i.copied = j.copied, i.point = j.point, NEW e, e.made = d.made, e.synced = d.synced,
           DOMAIN e.files = (DOMAIN d.files \ {"temporary"}) \cup {"manifest"},
           e.files["manifest"] = d.files["temporary"],
           \A n \in DOMAIN d.files \ {"temporary"} : n # "manifest" => e.files[n] = d.files[n]
    PROVE  Stage(i, e)
  <1>0. Told(i) = Told(j) BY DEF Told
  <1> QED BY <1>0
          DEF Stage, Entries, BeforeArtifact, BeforeDigest, BeforeManifest, BeforeRename

LEMMA StageReported ==
    ASSUME NEW j, j.pc = "sync parent", NEW d, Stage(j, d), NEW i, i.pc = "done",
           i.copied = j.copied, i.point = j.point, NEW e, e.made = d.made, e.kept,
           e.synced = d.synced, e.files = d.files
    PROVE  Stage(i, e)
  <1>0. Told(i) = Told(j) BY DEF Told
  <1> QED BY <1>0
          DEF Stage, Entries, BeforeArtifact, BeforeDigest, BeforeManifest, BeforeRename

\* What an owner's output shows: its entries are there, and once the manifest
\* is, so is everything it tells of.
LEMMA StageShows ==
    ASSUME NEW j, NEW d, IsDirectory(d), Stage(j, d), j.pc \in Working \cup {"done"}
    PROVE  /\ d.made /\ d.synced \subseteq DOMAIN d.files
           /\ "manifest" \in DOMAIN d.files =>
                 /\ DOMAIN d.files = Complete
                 /\ \A n \in Complete : d.files[n].intact /\ d.files[n].synced
                 /\ {"artifact", "history", "digest"} \subseteq d.synced
                 /\ d.files["manifest"].bytes = Told(j) /\ d.files["digest"].bytes = Told(j)
                 /\ d.files["history"].bytes = j.copied
                 /\ j.pc \in {"sync renamed", "sync parent", "done"}
  <1>1. ASSUME "manifest" \in DOMAIN d.files
        PROVE  /\ DOMAIN d.files = Complete
               /\ \A n \in Complete : d.files[n].intact /\ d.files[n].synced
               /\ {"artifact", "history", "digest"} \subseteq d.synced
               /\ d.files["manifest"].bytes = Told(j) /\ d.files["digest"].bytes = Told(j)
               /\ d.files["history"].bytes = j.copied
               /\ j.pc \in {"sync renamed", "sync parent", "done"}
    <2>1. j.pc \notin BeforeRename BY <1>1 DEF Stage
    <2>2. j.pc \in {"sync renamed", "sync parent", "done"} BY <2>1 DEF Working
    <2>3. DOMAIN d.files = Complete BY <2>2, StageNames
    <2>4. j.pc \notin {"copy", "sync history", "sync artifact", "sync digest"}
             \cup BeforeArtifact \cup BeforeDigest \cup BeforeManifest
      BY <2>1 DEF BeforeRename, BeforeManifest, BeforeDigest, BeforeArtifact
    <2>5. \A n \in Complete : d.files[n].intact BY <2>3 DEF Stage
    <2>6. /\ d.files["artifact"].synced /\ d.files["history"].synced
          /\ d.files["digest"].synced /\ d.files["manifest"].synced
          /\ d.files["manifest"].bytes = Told(j) /\ d.files["digest"].bytes = Told(j)
          /\ d.files["history"].bytes = j.copied
      BY <2>1, <2>3, <2>4 DEF Stage, Complete
    <2>7. d.synced = Entries(j.pc) BY DEF Stage
    <2>8. {"artifact", "history", "digest"} \subseteq Entries(j.pc)
      BY <2>2, <2>4 DEF Entries, Complete
    <2>9. \A n \in Complete : d.files[n].synced BY <2>6 DEF Complete
    <2> QED BY <2>2, <2>3, <2>5, <2>6, <2>7, <2>8, <2>9
  <1>2. d.made /\ d.synced = Entries(j.pc) BY DEF Stage
  <1>3. Entries(j.pc) \subseteq DOMAIN d.files
    <2>1. CASE j.pc \in BeforeDigest \cup {"sync digest", "sync entries"}
      BY <2>1 DEF Entries
    <2>2. CASE j.pc \in {"manifest", "sync manifest", "rename", "sync renamed"}
      <3>1. {"artifact", "history", "digest"} \subseteq DOMAIN d.files
        BY <2>2 DEF Stage, BeforeArtifact, BeforeDigest
      <3>2. Entries(j.pc) = {"artifact", "history", "digest"}
        BY <2>2 DEF Entries, BeforeDigest, BeforeArtifact
      <3> QED BY <3>1, <3>2
    <2>3. CASE j.pc \in {"sync parent", "done"}
      <3>1. DOMAIN d.files = Complete BY <2>3, StageNames
      <3>2. Entries(j.pc) = Complete BY <2>3 DEF Entries, BeforeDigest, BeforeArtifact
      <3> QED BY <3>1, <3>2
    <2> QED BY <2>1, <2>2, <2>3 DEF Working, BeforeRename, BeforeManifest
  <1> QED BY <1>1, <1>2, <1>3

\* A creator's step on its output, and on nothing else.
Acts(c) ==
    LET o == job'[c].output IN
    /\ disk' = [p \in Output |-> disk'[p]] /\ \A p \in Output : IsDirectory(disk'[p])
    /\ \A p \in Output : p # o => disk'[p] = disk[p]
    /\ IF job'[c].pc \in Working \cup {"done"}
       THEN /\ Stage(job'[c], disk'[o])
            /\ (Owns(c) /\ job[c].output = o) \/ ~disk[o].made
       ELSE disk' = disk

\* The steps of an owner: the next counter, the output's next state.
LEMMA OwnerActs ==
    ASSUME IInv, NEW c \in Creator, Owns(c), job'[c].output = job[c].output,
           job'[c].pc \in Working \cup {"done"}, NEW e,
           disk' = [disk EXCEPT ![job[c].output] = e],
           IsDirectory(e), Stage(job'[c], e)
    PROVE  Acts(c)
  <1> DEFINE o == job[c].output
  <1>1. TypeOK /\ OneOwner BY DEF IInv
  <1>2. job[c].pc # "idle"
    BY DEF Owns, Working, BeforeRename, BeforeManifest, BeforeDigest, BeforeArtifact
  <1>3. o \in Output BY <1>1, <1>2 DEF OneOwner
  <1> HIDE DEF o
  <1>4. /\ disk' = [p \in Output |-> disk'[p]] /\ disk'[o] = e
        /\ \A p \in Output : p # o => disk'[p] = disk[p]
    BY <1>1, <1>3, OneChanged DEF o
  <1>5. \A p \in Output : IsDirectory(disk'[p])
    <2> SUFFICES ASSUME NEW p \in Output PROVE IsDirectory(disk'[p]) OBVIOUS
    <2>1. CASE p = o BY <1>4, <2>1
    <2>2. CASE p # o BY <1>1, <1>4, <2>2 DEF TypeOK
    <2> QED BY <2>1, <2>2
  <1>6. Stage(job'[c], disk'[o]) /\ job'[c].output = o BY <1>4 DEF o
  <1> QED BY <1>4, <1>5, <1>6 DEF Acts, o

LEMMA OwnerOutput ==
    ASSUME IInv, NEW c \in Creator, Owns(c)
    PROVE  /\ job[c].output \in Output /\ IsDirectory(disk[job[c].output])
           /\ Stage(job[c], disk[job[c].output])
  <1>1. TypeOK /\ OneOwner BY DEF IInv
  <1>2. job[c].pc # "idle"
    BY DEF Owns, Working, BeforeRename, BeforeManifest, BeforeDigest, BeforeArtifact
  <1> QED BY <1>1, <1>2 DEF IInv, OneOwner, TypeOK

\* The steps that leave the outputs alone.
LEMMA NoActs ==
    ASSUME IInv, NEW c \in Creator, disk' = disk,
           job'[c].pc \notin Working \cup {"done"}
    PROVE  Acts(c)
  <1>1. TypeOK BY DEF IInv
  <1> QED BY <1>1 DEF Acts, TypeOK

LEMMA StoreEdit ==
    ASSUME TypeOK, NEW o \in Output, NEW name \in FileNames, NEW bytes, Store(o, name, bytes)
    PROVE  LET e == disk'[o] d == disk[o] IN
           /\ disk' = [disk EXCEPT ![o] = e] /\ IsDirectory(e)
           /\ e.made = d.made /\ e.synced = d.synced
           /\ DOMAIN e.files = DOMAIN d.files \cup {name}
           /\ e.files[name].bytes = bytes /\ e.files[name].intact
           /\ \A n \in DOMAIN d.files : n # name => e.files[n] = d.files[n]
  <1> DEFINE d == disk[o]
             files == [n \in DOMAIN d.files \cup {name} |->
                         IF n = name THEN [bytes |-> bytes, synced |-> FALSE, intact |-> TRUE]
                         ELSE d.files[n]]
             e == [d EXCEPT !.files = files]
  <1>1. disk' = [disk EXCEPT ![o] = e] BY DEF Store
  <1>2. IsDirectory(d) BY DEF TypeOK
  <1>3. /\ DOMAIN files = DOMAIN d.files \cup {name}
        /\ files = [n \in DOMAIN files |-> files[n]]
        /\ files[name] = [bytes |-> bytes, synced |-> FALSE, intact |-> TRUE]
        /\ \A n \in DOMAIN d.files : n # name => files[n] = d.files[n]
    OBVIOUS
  <1>4. e = [d EXCEPT !.files = files] OBVIOUS
  <1> HIDE DEF d, files, e
  <1>5. /\ IsDirectory(e) /\ e.made = d.made /\ e.synced = d.synced /\ e.files = files
        /\ e.files[name].bytes = bytes /\ e.files[name].intact
    BY <1>2, <1>3, <1>4, StoreDirectory
  <1>6. disk'[o] = e BY <1>1, OneChanged
  <1> QED BY <1>1, <1>3, <1>5, <1>6 DEF d

LEMMA MakeActs ==
    ASSUME IInv, NEW c \in Creator, MakeOutput(c)
    PROVE  Acts(c)
  <1> DEFINE o == job[c].output
  <1>1. TypeOK /\ OneOwner /\ Copies(c) /\ job[c].pc = "mkdir" BY DEF IInv, MakeOutput
  <1>2. o \in Output BY <1>1 DEF OneOwner
  <1>3. CASE disk[o].made
    <2>1. Goes(c, "failed") /\ disk' = disk BY <1>3 DEF MakeOutput
    <2>2. job'[c].pc = "failed" BY <1>1, <2>1, GoesTo DEF ProgramCounter
    <2>3. "failed" \notin Working \cup {"done"}
      BY DEF Working, BeforeRename, BeforeManifest, BeforeDigest, BeforeArtifact
    <2> QED BY <2>1, <2>2, <2>3, NoActs
  <1>4. CASE ~disk[o].made
    <2> DEFINE e == [NoDirectory EXCEPT !.made = TRUE]
    <2>1. Goes(c, "copy") /\ disk' = [disk EXCEPT ![o] = e] BY <1>4 DEF MakeOutput
    <2>2. /\ job'[c].pc = "copy" /\ job'[c].output = o /\ job'[c].copied = job[c].copied
      BY <1>1, <2>1, GoesTo DEF ProgramCounter
    <2>3. job[c].copied = <<>> BY <1>1 DEF Copies, Early
    <2>4. e = [made |-> TRUE, kept |-> FALSE, files |-> NoFiles, synced |-> {}]
      <3>1. NoDirectory = [made |-> FALSE, kept |-> FALSE, files |-> NoFiles, synced |-> {}]
        BY DEF NoDirectory
      <3>2. ASSUME NEW r, r = [made |-> FALSE, kept |-> FALSE, files |-> NoFiles, synced |-> {}],
                   NEW q, q = [r EXCEPT !.made = TRUE]
            PROVE  q = [made |-> TRUE, kept |-> FALSE, files |-> NoFiles, synced |-> {}]
        BY ONLY <3>2
      <3> QED BY <3>1, <3>2
    <2>5. /\ e.made = TRUE /\ e.kept = FALSE /\ e.synced = {} /\ e.files = NoFiles
          /\ e = [made |-> e.made, kept |-> e.kept, files |-> e.files, synced |-> e.synced]
      BY <2>4
    <2>6. DOMAIN NoFiles = {} /\ NoFiles = [n \in DOMAIN NoFiles |-> NoFiles[n]]
      BY DEF NoFiles
    <2> HIDE DEF e
    <2>7. IsDirectory(e) BY <2>5, <2>6 DEF IsDirectory
    <2>8. Stage(job'[c], e) BY <2>2, <2>3, <2>5, <2>6, StageMade
    <2> HIDE DEF o
    <2>9. /\ disk' = [p \in Output |-> disk'[p]] /\ disk'[o] = e
          /\ \A p \in Output : p # o => disk'[p] = disk[p]
      BY <1>1, <1>2, <2>1, OneChanged
    <2>10. \A p \in Output : IsDirectory(disk'[p])
      <3> SUFFICES ASSUME NEW p \in Output PROVE IsDirectory(disk'[p]) OBVIOUS
      <3>1. CASE p = o BY <2>7, <2>9, <3>1
      <3>2. CASE p # o BY <1>1, <2>9, <3>2 DEF TypeOK
      <3> QED BY <3>1, <3>2
    <2>11. job'[c].pc \in Working \cup {"done"}
      BY <2>2 DEF Working, BeforeRename, BeforeManifest, BeforeDigest, BeforeArtifact
    <2> QED BY <1>4, <2>2, <2>8, <2>9, <2>10, <2>11 DEF Acts
  <1> QED BY <1>3, <1>4

LEMMA CopyActs ==
    ASSUME IInv, NEW c \in Creator, CopyPrefix(c)
    PROVE  Acts(c)
  <1> DEFINE o == job[c].output d == disk[o] n == Len(job[c].copied) + 1
  <1>1. TypeOK /\ Copies(c) /\ job[c].pc = "copy" BY DEF IInv, CopyPrefix
  <1>2. Owns(c) BY <1>1 DEF Owns, Working, BeforeRename, BeforeManifest, BeforeDigest,
                            BeforeArtifact
  <1>3. o \in Output /\ IsDirectory(d) /\ Stage(job[c], d) BY <1>2, OwnerOutput
  <1>4. CASE n <= job[c].point.watermark
    <2>1. /\ job'[c].pc = "copy" /\ job'[c].output = o
          /\ \E byte \in Byte : job'[c].copied = Append(job[c].copied, byte)
      BY <1>4, CopyMoves
    <2>2. job[c].copied \in Seq(Byte) BY <1>1, TypeShape DEF JobType
    <2>3. job'[c].copied # <<>>
      <3>1. PICK byte \in Byte : job'[c].copied = Append(job[c].copied, byte) BY <2>1
      <3>2. Len(job'[c].copied) = Len(job[c].copied) + 1 BY <2>2, <3>1, AppendProperties
      <3>3. Len(job[c].copied) \in Nat BY <2>2, LenProperties
      <3>4. Len(<<>>) = 0 OBVIOUS
      <3> QED BY <3>2, <3>3, <3>4
    <2>4. Store(o, "history", job'[c].copied) BY <1>4 DEF CopyPrefix
    <2> DEFINE e == disk'[o]
    <2>5. /\ disk' = [disk EXCEPT ![o] = e] /\ IsDirectory(e)
          /\ e.made = d.made /\ e.synced = d.synced
          /\ DOMAIN e.files = DOMAIN d.files \cup {"history"}
          /\ e.files["history"].bytes = job'[c].copied /\ e.files["history"].intact
          /\ \A q \in DOMAIN d.files : q # "history" => e.files[q] = d.files[q]
      BY <1>1, <1>3, <2>4, StoreEdit DEF FileNames, Complete
    <2> HIDE DEF d, e
    <2>6. Stage(job'[c], e)
      <3>1. job[c].pc = "copy" /\ Stage(job[c], d) /\ job'[c].pc = "copy" BY <1>1, <1>3, <2>1
      <3> QED BY ONLY <2>3, <2>5, <3>1, StageCopied
    <2>7. job'[c].pc \in Working \cup {"done"}
      BY <2>1 DEF Working, BeforeRename, BeforeManifest, BeforeDigest, BeforeArtifact
    <2> QED BY <1>2, <2>1, <2>5, <2>6, <2>7, OwnerActs
  <1>5. CASE ~(n <= job[c].point.watermark)
    <2>1. Goes(c, "sync history") /\ disk' = disk BY <1>5 DEF CopyPrefix
    <2>2. /\ job'[c].pc = "sync history" /\ job'[c].output = o
          /\ job'[c].copied = job[c].copied
      BY <1>1, <2>1, GoesTo DEF ProgramCounter
    <2>3. job[c].copied # <<>>
      <3>1. PICK k \in checkpoints : k.point = job[c].point
        BY <1>1 DEF Copies, Verified, Working, BeforeRename, BeforeManifest, BeforeDigest,
                BeforeArtifact
      <3>2. Numbered(k.log) /\ Len(k.log) = job[c].point.watermark
        BY <3>1 DEF IInv, Checkpoints
      <3>3. Len(k.log) # 0 /\ Len(k.log) \in Nat BY <3>2, LenProperties DEF Numbered
      <3>4. SUFFICES ASSUME job[c].copied = <<>> PROVE FALSE OBVIOUS
      <3>5. Len(job[c].copied) = 0 BY <3>4
      <3> QED BY <1>5, <3>2, <3>3, <3>5
    <2> HIDE DEF d
    <2>4. Stage(job'[c], d) BY <1>1, <1>3, <2>2, <2>3, StageCopyEnds
    <2>5. disk' = [disk EXCEPT ![o] = d] BY <1>1, <1>3, <2>1 DEF TypeOK, d
    <2>6. job'[c].pc \in Working \cup {"done"}
      BY <2>2 DEF Working, BeforeRename, BeforeManifest, BeforeDigest, BeforeArtifact
    <2> QED BY <1>2, <1>3, <2>2, <2>4, <2>5, <2>6, OwnerActs
  <1> QED BY <1>4, <1>5

LEMMA WriteActs ==
    ASSUME IInv, NEW c \in Creator, Write(c)
    PROVE  Acts(c)
  <1> DEFINE o == job[c].output d == disk[o] e == disk'[o]
  <1>1. TypeOK BY DEF IInv
  <1>2. PICK w \in Writes :
           /\ job[c].pc = w.at /\ Goes(c, w.next)
           /\ Store(o, w.name, IF w.name = "artifact" THEN "receipt" ELSE Manifest(c))
    BY DEF Write
  <1> DEFINE bytes == IF w.name = "artifact" THEN "receipt" ELSE Told(job[c])
  <1>3. /\ w.at \in Working /\ w.next \in Working /\ w.name \in FileNames
        /\ w.next \in ProgramCounter
    BY <1>2, WriteCases
       DEF Working, BeforeRename, BeforeManifest, BeforeDigest, BeforeArtifact, FileNames,
           Complete, ProgramCounter
  <1>4. Owns(c) BY <1>2, <1>3 DEF Owns
  <1>5. o \in Output /\ IsDirectory(d) /\ Stage(job[c], d) BY <1>4, OwnerOutput
  <1>6. /\ job'[c].pc = w.next /\ job'[c].output = o /\ job'[c].copied = job[c].copied
        /\ job'[c].point = job[c].point
    BY <1>1, <1>2, <1>3, GoesTo
  <1>7. Store(o, w.name, bytes) BY <1>2 DEF Manifest, Told
  <1> HIDE DEF bytes
  <1>8. /\ disk' = [disk EXCEPT ![o] = e] /\ IsDirectory(e)
        /\ e.made = d.made /\ e.synced = d.synced
        /\ DOMAIN e.files = DOMAIN d.files \cup {w.name}
        /\ e.files[w.name].bytes = bytes /\ e.files[w.name].intact
        /\ \A n \in DOMAIN d.files : n # w.name => e.files[n] = d.files[n]
    BY <1>1, <1>3, <1>5, <1>7, StoreEdit
  <1> HIDE DEF d, e
  <1>9. Stage(job'[c], e) BY <1>2, <1>5, <1>6, <1>8, StageWritten DEF bytes
  <1> QED BY <1>3, <1>4, <1>6, <1>8, <1>9, OwnerActs

LEMMA SyncActs ==
    ASSUME IInv, NEW c \in Creator, Sync(c)
    PROVE  Acts(c)
  <1> DEFINE o == job[c].output d == disk[o]
  <1>1. TypeOK BY DEF IInv
  <1>2. PICK s \in Syncs :
           /\ job[c].pc = s.at /\ Goes(c, s.next)
           /\ disk' = [disk EXCEPT ![o].files[s.name].synced = TRUE]
    BY DEF Sync
  <1>3. /\ s.at \in Working /\ s.next \in Working /\ s.next \in ProgramCounter
    BY <1>2, SyncCases
       DEF Working, BeforeRename, BeforeManifest, BeforeDigest, BeforeArtifact, ProgramCounter
  <1>4. Owns(c) BY <1>2, <1>3 DEF Owns
  <1>5. o \in Output /\ IsDirectory(d) /\ Stage(job[c], d) BY <1>4, OwnerOutput
  <1>6. s.name \in DOMAIN d.files
    BY <1>2, <1>5, SyncCases DEF Stage, BeforeArtifact, BeforeDigest
  <1>7. /\ job'[c].pc = s.next /\ job'[c].output = o /\ job'[c].copied = job[c].copied
        /\ job'[c].point = job[c].point
    BY <1>1, <1>2, <1>3, GoesTo
  <1> DEFINE file == [d.files[s.name] EXCEPT !.synced = TRUE]
             files == [d.files EXCEPT ![s.name] = file]
             e == [d EXCEPT !.files = files]
  <1>8. disk' = [disk EXCEPT ![o] = e] BY <1>2
  <1>9. /\ IsFile(file) /\ file.bytes = d.files[s.name].bytes /\ file.synced
        /\ file.intact = d.files[s.name].intact
    <2>1. IsFile(d.files[s.name]) BY <1>5, <1>6 DEF IsDirectory
    <2> QED BY <2>1, SyncedFile
  <1> HIDE DEF file, d
  <1>10. /\ IsDirectory(e) /\ e.made = d.made /\ e.synced = d.synced
         /\ DOMAIN e.files = DOMAIN d.files
         /\ e.files[s.name].bytes = d.files[s.name].bytes /\ e.files[s.name].synced
         /\ e.files[s.name].intact = d.files[s.name].intact
         /\ \A n \in DOMAIN d.files : n # s.name => e.files[n] = d.files[n]
    <2>1. /\ DOMAIN files = DOMAIN d.files /\ files[s.name] = file
          /\ files = [n \in DOMAIN files |-> files[n]]
          /\ \A n \in DOMAIN d.files : n # s.name => files[n] = d.files[n]
      BY <1>5, <1>6 DEF IsDirectory
    <2>2. e = [d EXCEPT !.files = files] OBVIOUS
    <2> HIDE DEF files, e
    <2>3. IsDirectory(e) /\ e.made = d.made /\ e.synced = d.synced /\ e.files = files
      BY <1>5, <1>6, <1>9, <2>1, <2>2, SyncDirectory
    <2> QED BY <1>9, <2>1, <2>3
  <1> HIDE DEF files, e
  <1>11. Stage(job'[c], e) BY ONLY <1>2, <1>5, <1>7, <1>10, StageSynced
  <1> QED BY <1>3, <1>4, <1>7, <1>8, <1>10, <1>11, OwnerActs

LEMMA EntriesActs ==
    ASSUME IInv, NEW c \in Creator, SyncEntries(c)
    PROVE  Acts(c)
  <1> DEFINE o == job[c].output d == disk[o]
             e == [d EXCEPT !.synced = DOMAIN d.files]
             pc == IF job[c].pc = "sync entries" THEN "manifest" ELSE "sync parent"
  <1>1. TypeOK BY DEF IInv
  <1>2. /\ job[c].pc = "sync entries" \/ job[c].pc = "sync renamed"
        /\ Goes(c, pc) /\ disk' = [disk EXCEPT ![o] = e]
    BY DEF SyncEntries
  <1>3. \/ job[c].pc = "sync entries" /\ pc = "manifest"
        \/ job[c].pc = "sync renamed" /\ pc = "sync parent"
    BY <1>2
  <1> HIDE DEF pc
  <1>4. pc \in Working /\ pc \in ProgramCounter /\ job[c].pc \in Working
    BY <1>3
       DEF Working, BeforeRename, BeforeManifest, BeforeDigest, BeforeArtifact, ProgramCounter
  <1>5. Owns(c) BY <1>4 DEF Owns
  <1>6. o \in Output /\ IsDirectory(d) /\ Stage(job[c], d) BY <1>5, OwnerOutput
  <1>7. /\ job'[c].pc = pc /\ job'[c].output = o /\ job'[c].copied = job[c].copied
        /\ job'[c].point = job[c].point
    BY <1>1, <1>2, <1>4, GoesTo
  <1> HIDE DEF d
  <1>8. /\ IsDirectory(e) /\ e.made = d.made /\ e.files = d.files /\ e.synced = DOMAIN d.files
    <2>1. d = [made |-> d.made, kept |-> d.kept, files |-> d.files, synced |-> d.synced]
      BY <1>6 DEF IsDirectory
    <2>2. e = [made |-> d.made, kept |-> d.kept, files |-> d.files, synced |-> DOMAIN d.files]
      BY ONLY <2>1
    <2> HIDE DEF e
    <2>3. /\ e.made = d.made /\ e.kept = d.kept /\ e.files = d.files
          /\ e.synced = DOMAIN d.files
          /\ e = [made |-> e.made, kept |-> e.kept, files |-> e.files, synced |-> e.synced]
      BY ONLY <2>2
    <2> QED BY ONLY <1>6, <2>3 DEF IsDirectory
  <1> HIDE DEF e
  <1>9. Stage(job'[c], e) BY ONLY <1>3, <1>6, <1>7, <1>8, StageEntries
  <1> QED BY <1>2, <1>4, <1>5, <1>7, <1>8, <1>9, OwnerActs

LEMMA RenameActs ==
    ASSUME IInv, NEW c \in Creator, Rename(c)
    PROVE  Acts(c)
  <1> DEFINE o == job[c].output d == disk[o]
             files == [name \in (DOMAIN d.files \ {"temporary"}) \cup {"manifest"} |->
                         IF name = "manifest" THEN d.files["temporary"] ELSE d.files[name]]
             e == [d EXCEPT !.files = files]
  <1>1. TypeOK BY DEF IInv
  <1>2. /\ job[c].pc = "rename" /\ Goes(c, "sync renamed")
        /\ disk' = [disk EXCEPT ![o] = e]
    BY DEF Rename
  <1>3. /\ "sync renamed" \in Working /\ "sync renamed" \in ProgramCounter
        /\ job[c].pc \in Working
    BY <1>2
       DEF Working, BeforeRename, BeforeManifest, BeforeDigest, BeforeArtifact, ProgramCounter
  <1>4. Owns(c) BY <1>3 DEF Owns
  <1>5. o \in Output /\ IsDirectory(d) /\ Stage(job[c], d) BY <1>4, OwnerOutput
  <1>6. /\ job'[c].pc = "sync renamed" /\ job'[c].output = o /\ job'[c].copied = job[c].copied
        /\ job'[c].point = job[c].point
    BY <1>1, <1>2, <1>3, GoesTo
  <1>7. "temporary" \in DOMAIN d.files BY <1>2, <1>5, StageNames
  <1>8. /\ DOMAIN files = (DOMAIN d.files \ {"temporary"}) \cup {"manifest"}
        /\ files = [n \in DOMAIN files |-> files[n]]
        /\ files["manifest"] = d.files["temporary"]
        /\ \A n \in DOMAIN d.files \ {"temporary"} : n # "manifest" => files[n] = d.files[n]
    OBVIOUS
  <1> HIDE DEF d, files
  <1>9. IsDirectory(e) /\ e.made = d.made /\ e.synced = d.synced /\ e.files = files
    <2>1. d = [made |-> d.made, kept |-> d.kept, files |-> d.files, synced |-> d.synced]
      BY <1>5 DEF IsDirectory
    <2>2. e = [made |-> d.made, kept |-> d.kept, files |-> files, synced |-> d.synced]
      BY ONLY <2>1
    <2> HIDE DEF e
    <2>3. /\ e.made = d.made /\ e.kept = d.kept /\ e.files = files /\ e.synced = d.synced
          /\ e = [made |-> e.made, kept |-> e.kept, files |-> e.files, synced |-> e.synced]
      BY ONLY <2>2
    <2>4. d.made \in BOOLEAN /\ d.kept \in BOOLEAN BY <1>5 DEF IsDirectory
    <2>5. DOMAIN files \subseteq FileNames BY <1>5, <1>8 DEF IsDirectory, FileNames, Complete
    <2>6. \A n \in DOMAIN files : IsFile(files[n]) BY <1>5, <1>7, <1>8 DEF IsDirectory
    <2> QED BY ONLY <1>8, <2>3, <2>4, <2>5, <2>6 DEF IsDirectory
  <1> HIDE DEF e
  <1>10. Stage(job'[c], e)
    <2>1. /\ DOMAIN e.files = (DOMAIN d.files \ {"temporary"}) \cup {"manifest"}
          /\ e.files["manifest"] = d.files["temporary"]
          /\ \A n \in DOMAIN d.files \ {"temporary"} : n # "manifest" => e.files[n] = d.files[n]
      BY ONLY <1>8, <1>9
    <2>2. job[c].pc = "rename" /\ Stage(job[c], d) /\ e.made = d.made /\ e.synced = d.synced
      BY <1>2, <1>5, <1>9
    <2> QED BY ONLY <1>6, <2>1, <2>2, StageRenamed
  <1> QED BY <1>2, <1>3, <1>4, <1>6, <1>9, <1>10, OwnerActs

LEMMA ParentActs ==
    ASSUME IInv, NEW c \in Creator, SyncParent(c)
    PROVE  Acts(c)
  <1> DEFINE o == job[c].output d == disk[o] e == [d EXCEPT !.kept = TRUE]
  <1>1. TypeOK BY DEF IInv
  <1>2. job[c].pc = "sync parent" /\ Goes(c, "done") /\ disk' = [disk EXCEPT ![o] = e]
    BY DEF SyncParent
  <1>3. job[c].pc \in Working /\ "done" \in ProgramCounter
    BY <1>2 DEF Working, ProgramCounter
  <1>4. Owns(c) BY <1>3 DEF Owns
  <1>5. o \in Output /\ IsDirectory(d) /\ Stage(job[c], d) BY <1>4, OwnerOutput
  <1>6. /\ job'[c].pc = "done" /\ job'[c].output = o /\ job'[c].copied = job[c].copied
        /\ job'[c].point = job[c].point
    BY <1>1, <1>2, <1>3, GoesTo
  <1> HIDE DEF d
  <1>7. IsDirectory(e) /\ e.made = d.made /\ e.kept /\ e.synced = d.synced /\ e.files = d.files
    <2>1. e = [d EXCEPT !.kept = TRUE] OBVIOUS
    <2> HIDE DEF e
    <2> QED BY <1>5, <2>1, KeptDirectory
  <1> HIDE DEF e
  <1>8. Stage(job'[c], e) BY ONLY <1>2, <1>5, <1>6, <1>7, StageReported
  <1> QED BY <1>2, <1>4, <1>6, <1>7, <1>8, OwnerActs

LEMMA QuietActs ==
    ASSUME IInv, NEW c \in Creator, Quiet(c)
    PROVE  Acts(c)
  <1>1. TypeOK /\ OneOwner BY DEF IInv
  <1>2. \A pc \in {"ask", "mkdir", "failed"} :
           pc \notin Working \cup {"done"} /\ pc \in ProgramCounter
    BY DEF Working, BeforeRename, BeforeManifest, BeforeDigest, BeforeArtifact, ProgramCounter
  <1>3. ASSUME NEW o \in Output, NEW h \in Host, Begin(c, o, h) PROVE Acts(c)
    <2>1. job'[c].pc \in {"failed", "ask"} /\ disk' = disk BY <1>1, <1>3, BeginMoves
    <2> QED BY <1>2, <2>1, NoActs
  <1>4. CASE VerifySnapshot(c)
    <2> DEFINE pc == IF MatchesReceipt(job[c].point) THEN "mkdir" ELSE "failed"
    <2>1. Goes(c, pc) /\ disk' = disk BY <1>4 DEF VerifySnapshot
    <2>2. pc \in {"mkdir", "failed"} OBVIOUS
    <2> HIDE DEF pc
    <2>3. job'[c].pc = pc BY <1>1, <1>2, <2>1, <2>2, GoesTo
    <2> QED BY <1>2, <2>1, <2>2, <2>3, NoActs
  <1> QED BY <1>3, <1>4, MakeActs, CopyActs, WriteActs, SyncActs, EntriesActs, RenameActs,
             ParentActs DEF Quiet

-----------------------------------------------------------------------------
(* What has been copied.                                                   *)

LEMMA CopiesStay ==
    ASSUME IInv, [Next]_vars, NEW c \in Creator, job'[c].point = job[c].point,
           job'[c].copied = job[c].copied, job'[c].pc \in Early => job[c].pc \in Early,
           job'[c].pc \in Verified =>
              /\ job[c].pc \in Verified /\ (job'[c].pc # "done" => job[c].pc # "done")
              /\ \/ job'[c].pc \in {"mkdir", "copy"} \/ job[c].pc \notin {"mkdir", "copy"}
                 \/ Len(job[c].copied) = job[c].point.watermark
    PROVE  Copies(c)'
  <1>1. Copies(c) BY DEF IInv
  <1>2. job'[c].pc \in Early => job'[c].copied = <<>> BY <1>1 DEF Copies
  <1>3. ASSUME job'[c].pc \in Verified
        PROVE  \E k \in checkpoints' :
                  /\ k.point = job'[c].point
                  /\ job'[c].pc # "done" => KeptBySource(k)'
                  /\ Len(job'[c].copied) <= k.point.watermark
                  /\ job'[c].pc \notin {"mkdir", "copy"} => Len(job'[c].copied) = k.point.watermark
                  /\ \A i \in 1 .. Len(job'[c].copied) : job'[c].copied[i] = k.log[i]
    <2>1. PICK k \in checkpoints :
             /\ k.point = job[c].point
             /\ job[c].pc # "done" => KeptBySource(k)
             /\ Len(job[c].copied) <= k.point.watermark
             /\ job[c].pc \notin {"mkdir", "copy"} => Len(job[c].copied) = k.point.watermark
             /\ \A i \in 1 .. Len(job[c].copied) : job[c].copied[i] = k.log[i]
      BY <1>1, <1>3 DEF Copies
    <2>2. k \in checkpoints' /\ (KeptBySource(k) => KeptBySource(k)') BY CheckpointsLemma
    <2>3. job'[c].pc # "done" => KeptBySource(k)' BY <1>3, <2>1, <2>2
    <2>4. job'[c].pc \notin {"mkdir", "copy"} => Len(job'[c].copied) = k.point.watermark
      BY <1>3, <2>1
    <2> QED BY <2>1, <2>2, <2>3, <2>4
  <1> QED BY <1>2, <1>3 DEF Copies

LEMMA CopiesEarly ==
    ASSUME IInv, NEW c \in Creator, job[c].pc \in Early, job'[c].copied = job[c].copied,
           job'[c].pc \notin Verified
    PROVE  Copies(c)'
  <1>1. job[c].copied = <<>> BY DEF IInv, Copies
  <1> QED BY <1>1 DEF Copies

LEMMA CopiesFailed ==
    ASSUME NEW c \in Creator, job'[c].pc = "failed"
    PROVE  Copies(c)'
  BY DEF Copies, Early, Verified, Working, BeforeRename, BeforeManifest, BeforeDigest,
         BeforeArtifact

\* The image beside the log is the one the receipt tells of: its checkpoint is
\* of this log.
LEMMA CopiesVerified ==
    ASSUME IInv, [Next]_vars, NEW c \in Creator, VerifySnapshot(c)
    PROVE  Copies(c)'
  <1>1. TypeOK /\ Checkpoints /\ Copies(c) /\ job[c].pc = "verify" BY DEF IInv, VerifySnapshot
  <1>2. CASE ~MatchesReceipt(job[c].point)
    <2>1. Goes(c, "failed") BY <1>2 DEF VerifySnapshot
    <2> QED BY <1>1, <2>1, GoesTo, CopiesFailed DEF ProgramCounter
  <1>3. CASE MatchesReceipt(job[c].point)
    <2>1. Goes(c, "mkdir") BY <1>3 DEF VerifySnapshot
    <2>2. /\ job'[c].pc = "mkdir" /\ job'[c].point = job[c].point
          /\ job'[c].copied = job[c].copied
      BY <1>1, <2>1, GoesTo DEF ProgramCounter
    <2>3. job[c].copied = <<>> /\ Len(<<>>) = 0 BY <1>1 DEF Copies, Early
    <2>4. server["here"].image # NoImage /\ server["here"].image = job[c].point
      BY <1>3 DEF MatchesReceipt, NoImage
    <2>5. PICK k \in checkpoints : k.point = job[c].point /\ KeptBySource(k)
      BY <1>1, <2>4 DEF Checkpoints
    <2>6. k \in checkpoints' /\ KeptBySource(k)' BY <2>5, CheckpointsLemma
    <2>7. k.point.watermark \in Nat BY <1>1, LenProperties DEF Checkpoints, Numbered
    <2>8. /\ Len(job'[c].copied) <= k.point.watermark
          /\ \A i \in 1 .. Len(job'[c].copied) : job'[c].copied[i] = k.log[i]
      BY <2>2, <2>3, <2>7
    <2>9. "mkdir" \in Early BY DEF Early
    <2> QED BY <2>2, <2>3, <2>5, <2>6, <2>8, <2>9 DEF Copies
  <1> QED BY <1>2, <1>3

LEMMA CopiesCopied ==
    ASSUME IInv, [Next]_vars, NEW c \in Creator, CopyPrefix(c)
    PROVE  Copies(c)'
  <1> DEFINE n == Len(job[c].copied) + 1
  <1>1. TypeOK /\ Checkpoints /\ Copies(c) /\ job[c].pc = "copy" BY DEF IInv, CopyPrefix
  <1>2. job[c].copied \in Seq(Byte) /\ Len(job[c].copied) \in Nat
        /\ job[c].point.watermark \in Nat
    BY <1>1, TypeShape, LenProperties DEF JobType, Point
  <1>3. "copy" \in Verified /\ "sync history" \in Verified
        /\ "copy" \notin Early /\ "sync history" \notin Early
    BY DEF Verified, Working, BeforeRename, BeforeManifest, BeforeDigest, BeforeArtifact, Early
  <1>4. CASE n <= job[c].point.watermark
    <2> DEFINE byte == server["here"].log[n]
    <2>1. PICK k \in checkpoints :
             /\ k.point = job[c].point /\ KeptBySource(k)
             /\ n \in 1 .. k.point.watermark /\ byte = k.log[n]
             /\ \A i \in 1 .. Len(job[c].copied) : job[c].copied[i] = k.log[i]
      BY <1>1, <1>4, NextByte
    <2>2. /\ byte \in Byte /\ job'[c].pc = "copy" /\ job'[c].point = job[c].point
          /\ job'[c].copied = Append(job[c].copied, byte)
      BY <1>4, CopyMoves
    <2>3. k \in checkpoints' /\ KeptBySource(k)' BY <2>1, CheckpointsLemma
    <2> HIDE DEF byte
    <2>4. /\ Len(job'[c].copied) = n /\ job'[c].copied[n] = byte
          /\ \A i \in 1 .. Len(job[c].copied) : job'[c].copied[i] = job[c].copied[i]
      BY <1>2, <2>2, AppendProperties
    <2>5. \A i \in 1 .. n : job'[c].copied[i] = k.log[i]
      <3> SUFFICES ASSUME NEW i \in 1 .. n PROVE job'[c].copied[i] = k.log[i] OBVIOUS
      <3>1. CASE i = n BY <2>1, <2>4, <3>1
      <3>2. CASE i # n
        <4>1. i \in 1 .. Len(job[c].copied) BY <1>2, <3>2
        <4> QED BY <2>1, <2>4, <4>1
      <3> QED BY <3>1, <3>2
    <2>6. Len(job'[c].copied) <= k.point.watermark BY <1>2, <2>1, <2>4
    <2> HIDE DEF n
    <2> QED BY <1>3, <2>1, <2>2, <2>3, <2>4, <2>5, <2>6 DEF Copies
  <1>5. CASE ~(n <= job[c].point.watermark)
    <2>1. Goes(c, "sync history") BY <1>5 DEF CopyPrefix
    <2>2. /\ job'[c].pc = "sync history" /\ job'[c].point = job[c].point
          /\ job'[c].copied = job[c].copied
      BY <1>1, <2>1, GoesTo DEF ProgramCounter
    <2>3. Len(job[c].copied) <= job[c].point.watermark BY <1>1, <1>3 DEF Copies
    <2>4. Len(job[c].copied) = job[c].point.watermark BY <1>2, <1>5, <2>3
    <2> QED BY <1>1, <1>3, <2>2, <2>4, CopiesStay
  <1> QED BY <1>4, <1>5

LEMMA CopiesQuiet ==
    ASSUME IInv, [Next]_vars, NEW c \in Creator, Quiet(c)
    PROVE  Copies(c)'
  <1>1. TypeOK /\ Copies(c) BY DEF IInv
  <1>2. Working \subseteq Verified /\ Working \cap Early = {} /\ Working \cap {"mkdir", "done"} = {}
    BY DEF Verified, Working, BeforeRename, BeforeManifest, BeforeDigest, BeforeArtifact, Early
  <1>3. ASSUME NEW o \in Output, NEW h \in Host, Begin(c, o, h) PROVE Copies(c)'
    <2>1. /\ job'[c].pc \in {"failed", "ask"} /\ job'[c].copied = job[c].copied
          /\ job[c].pc = "idle"
      BY <1>1, <1>3, BeginMoves DEF Begin
    <2>2. "idle" \in Early /\ "ask" \notin Verified /\ "failed" \notin Verified
      BY DEF Verified, Working, BeforeRename, BeforeManifest, BeforeDigest, BeforeArtifact, Early
    <2> QED BY <2>1, <2>2, CopiesEarly
  <1>4. CASE MakeOutput(c)
    <2>1. job[c].pc = "mkdir" /\ (Goes(c, "failed") \/ Goes(c, "copy")) BY <1>4 DEF MakeOutput
    <2>2. CASE Goes(c, "failed") BY <1>1, <2>2, GoesTo, CopiesFailed DEF ProgramCounter
    <2>3. CASE Goes(c, "copy")
      <3>1. /\ job'[c].pc = "copy" /\ job'[c].point = job[c].point
            /\ job'[c].copied = job[c].copied
        BY <1>1, <2>3, GoesTo DEF ProgramCounter
      <3>2. "copy" \notin Early /\ "mkdir" \in Verified BY DEF Early, Verified
      <3> QED BY <2>1, <3>1, <3>2, CopiesStay
    <2> QED BY <2>1, <2>2, <2>3
  <1>5. ASSUME NEW pc \in ProgramCounter, Goes(c, pc), pc \in Working \cup {"done"},
               job[c].pc \in Working \ {"copy"}
        PROVE  Copies(c)'
    <2>1. /\ job'[c].pc = pc /\ job'[c].point = job[c].point
          /\ job'[c].copied = job[c].copied
      BY <1>1, <1>5, GoesTo
    <2>2. pc \notin Early BY <1>2, <1>5 DEF Early
    <2>3. job[c].pc \in Verified /\ job[c].pc # "done" /\ job[c].pc \notin {"mkdir", "copy"}
      BY <1>2, <1>5
    <2> QED BY <2>1, <2>2, <2>3, CopiesStay
  <1>6. CASE Write(c)
    <2>1. PICK w \in Writes : job[c].pc = w.at /\ Goes(c, w.next) BY <1>6 DEF Write
    <2>2. w.at \in Working \ {"copy"} /\ w.next \in Working /\ w.next \in ProgramCounter
      BY <2>1, WriteCases
         DEF Working, BeforeRename, BeforeManifest, BeforeDigest, BeforeArtifact, ProgramCounter
    <2> QED BY <1>5, <2>1, <2>2
  <1>7. CASE Sync(c)
    <2>1. PICK s \in Syncs : job[c].pc = s.at /\ Goes(c, s.next) BY <1>7 DEF Sync
    <2>2. s.at \in Working \ {"copy"} /\ s.next \in Working /\ s.next \in ProgramCounter
      BY <2>1, SyncCases
         DEF Working, BeforeRename, BeforeManifest, BeforeDigest, BeforeArtifact, ProgramCounter
    <2> QED BY <1>5, <2>1, <2>2
  <1>8. CASE SyncEntries(c)
    <2>1. /\ job[c].pc \in {"sync entries", "sync renamed"}
          /\ Goes(c, "manifest") \/ Goes(c, "sync parent")
      BY <1>8 DEF SyncEntries
    <2>2. /\ "manifest" \in Working /\ "sync parent" \in Working
          /\ "manifest" \in ProgramCounter /\ "sync parent" \in ProgramCounter
          /\ job[c].pc \in Working \ {"copy"}
      BY <2>1 DEF Working, BeforeRename, BeforeManifest, ProgramCounter
    <2> QED BY <1>5, <2>1, <2>2
  <1>9. CASE Rename(c)
    <2>1. job[c].pc = "rename" /\ Goes(c, "sync renamed") BY <1>9 DEF Rename
    <2>2. "sync renamed" \in Working /\ "sync renamed" \in ProgramCounter /\ "rename" \in Working
      BY DEF Working, BeforeRename, ProgramCounter
    <2> QED BY <1>5, <2>1, <2>2
  <1>10. CASE SyncParent(c)
    <2>1. job[c].pc = "sync parent" /\ Goes(c, "done") BY <1>10 DEF SyncParent
    <2>2. "done" \in ProgramCounter /\ "sync parent" \in Working BY DEF Working, ProgramCounter
    <2> QED BY <1>5, <2>1, <2>2
  <1> QED BY <1>3, <1>4, <1>6, <1>7, <1>8, <1>9, <1>10, CopiesVerified, CopiesCopied DEF Quiet

LEMMA CopiesLemma ==
    ASSUME IInv, [Next]_vars
    PROVE  \A c \in Creator : Copies(c)'
  <1>1. TypeOK /\ OneOwner /\ Servers /\ Locks BY DEF IInv
  <1>2. ASSUME NEW b \in Creator, job'[b] = job[b] PROVE Copies(b)' BY <1>2, CopiesStay
  <1>3. ASSUME NEW h \in Host, AppendFrame(h) \/ SyncFrame(h)
        PROVE  \A c \in Creator : Copies(c)'
    BY <1>2, <1>3 DEF AppendFrame, SyncFrame
  <1>4. ASSUME NEW c \in Creator, Quiet(c) PROVE \A b \in Creator : Copies(b)'
    <2>1. \A b \in Creator : b # c => job'[b] = job[b] BY <1>4, QuietMoves DEF Moves
    <2> QED BY <1>2, <1>4, <2>1, CopiesQuiet
  <1>5. ASSUME NEW c \in Creator, AskCheckpoint(c) \/ AnswerCheckpoint(c)
        PROVE  \A b \in Creator : Copies(b)'
    <2>1. /\ job[c].pc \in Early /\ job'[c].pc \in {"checkpoint", "verify"}
          /\ job'[c].copied = job[c].copied
          /\ \A b \in Creator : b # c => job'[b] = job[b]
      BY <1>1, <1>5, AskMoves, AnswerMoves DEF AskCheckpoint, AnswerCheckpoint, Early, Moves
    <2>2. "checkpoint" \notin Verified /\ "verify" \notin Verified
      BY DEF Verified, Working, BeforeRename, BeforeManifest, BeforeDigest, BeforeArtifact
    <2>3. Copies(c)' BY <2>1, <2>2, CopiesEarly
    <2> QED BY <1>2, <2>1, <2>3
  <1>6. ASSUME NEW c \in Creator, Abandon(c) PROVE \A b \in Creator : Copies(b)'
    <2>1. /\ job'[c].pc = "failed" /\ \A b \in Creator : b # c => job'[b] = job[b]
      BY <1>1, <1>6, AbandonMoves DEF Moves
    <2> QED BY <1>2, <2>1, CopiesFailed
  <1>7. ASSUME PowerLoss PROVE \A b \in Creator : Copies(b)'
    <2> SUFFICES ASSUME NEW b \in Creator PROVE Copies(b)' OBVIOUS
    <2>1. CASE job'[b].pc = "failed" BY <2>1, CopiesFailed
    <2>2. CASE job'[b].pc # "failed"
      <3>1. /\ job'[b].pc = job[b].pc /\ job'[b].point = job[b].point
            /\ job'[b].copied = job[b].copied
        BY <1>1, <1>7, <2>2, LossMoves
      <3> QED BY <3>1, CopiesStay
    <2> QED BY <2>1, <2>2
  <1>8. ASSUME UNCHANGED vars PROVE \A c \in Creator : Copies(c)' BY <1>2, <1>8 DEF vars
  <1> QED BY <1>3, <1>4, <1>5, <1>6, <1>7, <1>8, NextCases

-----------------------------------------------------------------------------
(* The outputs.                                                            *)

Outputs ==
    /\ disk = [o \in Output |-> disk[o]] /\ \A o \in Output : IsDirectory(disk[o])
    /\ OneOwner
    /\ \A c \in Creator : Owns(c) => Stage(job[c], disk[job[c].output])
    /\ \A o \in Output : Directory(disk[o])

\* The log of a checkpoint that was copied to its end is the copy.
LEMMA CopiedIsLog ==
    ASSUME NEW k, Numbered(k.log), Len(k.log) = k.point.watermark, NEW s \in Seq(Byte),
           Len(s) = k.point.watermark, \A i \in 1 .. Len(s) : s[i] = k.log[i]
    PROVE  k.log = s
  BY SeqEqual DEF Numbered

LEMMA DirectoryStays ==
    ASSUME checkpoints \subseteq checkpoints', NEW d, Directory(d)
    PROVE  Directory(d)'
  BY DEF Directory, Committed

\* A creator that owns its output leaves there what a directory may hold.
LEMMA OwnerDirectory ==
    ASSUME NEW c \in Creator, job' \in [Creator -> JobType], Checkpoints', Copies(c)',
           job'[c].pc \in Working \cup {"done"}, NEW e, IsDirectory(e), Stage(job'[c], e)
    PROVE  Directory(e)'
  <1> DEFINE j == job'[c]
  <1>1. /\ e.made /\ e.synced \subseteq DOMAIN e.files
        /\ "manifest" \in DOMAIN e.files =>
              /\ DOMAIN e.files = Complete
              /\ \A n \in Complete : e.files[n].intact /\ e.files[n].synced
              /\ {"artifact", "history", "digest"} \subseteq e.synced
              /\ e.files["manifest"].bytes = Told(j) /\ e.files["digest"].bytes = Told(j)
              /\ e.files["history"].bytes = j.copied
              /\ j.pc \in {"sync renamed", "sync parent", "done"}
    BY StageShows
  <1>2. ASSUME "manifest" \in DOMAIN e.files PROVE Committed(e)'
    <2>1. j.pc \in {"sync renamed", "sync parent", "done"} BY <1>1, <1>2
    <2>2. j.pc \in Verified /\ j.pc \notin {"mkdir", "copy"} BY <2>1 DEF Verified, Working
    <2>3. PICK k \in checkpoints' :
             /\ k.point = j.point /\ Len(j.copied) = k.point.watermark
             /\ \A i \in 1 .. Len(j.copied) : j.copied[i] = k.log[i]
      BY <2>2 DEF Copies
    <2>4. Numbered(k.log) /\ Len(k.log) = k.point.watermark BY <2>3 DEF Checkpoints
    <2>5. j.copied \in Seq(Byte) BY DEF JobType
    <2> HIDE DEF j
    <2>6. k.log = j.copied BY <2>3, <2>4, <2>5, CopiedIsLog
    <2>7. Told(j).point = j.point /\ Told(j).history = j.copied
          /\ Told(j).version = j.point.version
      BY DEF Told
    <2>8. /\ DOMAIN e.files = Complete
          /\ \A n \in Complete : e.files[n].intact /\ e.files[n].synced
          /\ {"artifact", "history", "digest"} \subseteq e.synced
          /\ e.files["manifest"].bytes = Told(j) /\ e.files["digest"].bytes = Told(j)
          /\ e.files["history"].bytes = j.copied
      BY <1>1, <1>2
    <2>9. \E q \in checkpoints' :
             q.point = e.files["manifest"].bytes.point /\ q.log = e.files["manifest"].bytes.history
      BY <2>3, <2>6, <2>7, <2>8
    <2> QED BY <2>7, <2>8, <2>9 DEF Committed
  <1> QED BY <1>1, <1>2 DEF Directory

LEMMA OutputsAct ==
    ASSUME IInv, [Next]_vars, NEW c \in Creator, Acts(c),
           \A b \in Creator : b # c => job'[b] = job[b]
    PROVE  Outputs'
  <1> DEFINE o == job'[c].output owner == job'[c].pc \in Working \cup {"done"}
  <1>1. /\ TypeOK /\ OneOwner /\ \A p \in Output : Directory(disk[p])
        /\ \A b \in Creator : Owns(b) => Stage(job[b], disk[job[b].output])
    BY DEF IInv
  <1>2. /\ job' \in [Creator -> JobType]
        /\ \A b \in Creator : job'[b].pc # "idle" => job'[b].output \in Output
    BY JobsLemma
  <1>3. Checkpoints' /\ checkpoints \subseteq checkpoints' BY CheckpointsLemma
  <1>4. /\ disk' = [p \in Output |-> disk'[p]] /\ \A p \in Output : IsDirectory(disk'[p])
        /\ \A p \in Output : p # o => disk'[p] = disk[p]
        /\ owner => /\ Stage(job'[c], disk'[o])
                    /\ (Owns(c) /\ job[c].output = o) \/ ~disk[o].made
        /\ ~owner => disk' = disk
    BY DEF Acts
  <1>5. owner => o \in Output
    <2>1. "idle" \notin Working \cup {"done"}
      BY DEF Working, BeforeRename, BeforeManifest, BeforeDigest, BeforeArtifact
    <2> QED BY <1>2, <2>1
  <1>6. ASSUME NEW b \in Creator, b # c, Owns(b)', owner, job'[b].output = o
        PROVE  FALSE
    <2>1. job'[b] = job[b] /\ Owns(b) BY <1>6 DEF Owns
    <2>2. Stage(job[b], disk[o]) BY <1>1, <1>6, <2>1
    <2>3. disk[o].made BY <2>2 DEF Stage
    <2>4. Owns(c) /\ job[c].output = o BY <1>4, <1>6, <2>3
    <2> QED BY <1>1, <1>6, <2>1, <2>4 DEF OneOwner
  <1>7. OneOwner'
    <2>1. ASSUME NEW a \in Creator, NEW b \in Creator, Owns(a)', Owns(b)',
                 job'[a].output = job'[b].output
          PROVE  a = b
      <3>1. CASE a = c BY <1>6, <2>1, <3>1 DEF Owns
      <3>2. CASE b = c BY <1>6, <2>1, <3>2 DEF Owns
      <3>3. CASE a # c /\ b # c
        <4>1. job'[a] = job[a] /\ job'[b] = job[b] BY <3>3
        <4> QED BY <1>1, <2>1, <4>1 DEF OneOwner, Owns
      <3> QED BY <3>1, <3>2, <3>3
    <2> QED BY <1>2, <2>1 DEF OneOwner
  <1>8. ASSUME NEW b \in Creator, Owns(b)'
        PROVE  Stage(job'[b], disk'[job'[b].output])
    <2>1. CASE b = c BY <1>4, <1>8, <2>1 DEF Owns
    <2>2. CASE b # c
      <3>1. job'[b] = job[b] /\ Owns(b) BY <1>8, <2>2 DEF Owns
      <3>2. job[b].output \in Output BY <3>1, OwnerOutput
      <3>3. disk'[job[b].output] = disk[job[b].output]
        <4>1. CASE owner BY <1>4, <1>6, <1>8, <2>2, <3>1, <3>2, <4>1
        <4>2. CASE ~owner BY <1>4, <4>2
        <4> QED BY <4>1, <4>2
      <3> QED BY <1>1, <3>1, <3>3
    <2> QED BY <2>1, <2>2
  <1>9. ASSUME NEW p \in Output PROVE Directory(disk[p])'
    <2>1. CASE disk'[p] = disk[p]
      <3>1. Directory(disk[p]) BY <1>1
      <3> DEFINE d == disk'[p]
      <3>2. d = disk[p] BY <2>1
      <3> HIDE DEF d
      <3>3. Directory(d) BY <3>1, <3>2
      <3> QED BY <1>3, <3>3, DirectoryStays DEF d, Directory, Committed
    <2>2. CASE disk'[p] # disk[p]
      <3>1. owner /\ p = o BY <1>4, <2>2
      <3>2. Copies(c)' BY CopiesLemma
      <3>3. IsDirectory(disk'[p]) /\ Stage(job'[c], disk'[p]) BY <1>4, <3>1
      <3> QED BY <1>2, <1>3, <3>1, <3>2, <3>3, OwnerDirectory DEF Directory, Committed
    <2> QED BY <2>1, <2>2
  <1> QED BY <1>4, <1>7, <1>8, <1>9 DEF Outputs

\* Steps that no creator takes, but a power loss.
LEMMA OutputsStay ==
    ASSUME IInv, [Next]_vars, job' = job, disk' = disk
    PROVE  Outputs'
  <1>1. /\ TypeOK /\ OneOwner /\ \A p \in Output : Directory(disk[p])
        /\ \A b \in Creator : Owns(b) => Stage(job[b], disk[job[b].output])
        /\ checkpoints \subseteq checkpoints'
    BY CheckpointsLemma DEF IInv
  <1>2. OneOwner' BY <1>1 DEF OneOwner, Owns
  <1>3. \A b \in Creator : Owns(b)' => Stage(job'[b], disk'[job'[b].output])
    BY <1>1 DEF Owns
  <1>4. \A p \in Output : Directory(disk[p])' BY <1>1 DEF Directory, Committed
  <1>5. disk' = [o \in Output |-> disk'[o]] /\ \A o \in Output : IsDirectory(disk'[o])
    BY <1>1 DEF TypeOK
  <1> QED BY <1>2, <1>3, <1>4, <1>5 DEF Outputs

\* Nothing of a reported backup is left to lose.
LEMMA ReportedStays ==
    ASSUME NEW j, j.pc = "done", NEW d, IsDirectory(d), Directory(d), Stage(j, d),
           NEW i, i.pc = "done", i.copied = j.copied, i.point = j.point,
           NEW e \in AfterLoss(d)
    PROVE  Stage(i, e)
  <1>1. /\ d.made /\ d.kept /\ d.synced = Complete /\ DOMAIN d.files = Complete
        /\ \A n \in Complete : d.files[n].intact /\ d.files[n].synced
        /\ d.files["manifest"].bytes = Told(j) /\ d.files["digest"].bytes = Told(j)
        /\ d.files["history"].bytes = j.copied
    <2>1. "done" \notin BeforeRename
      BY DEF BeforeRename, BeforeManifest, BeforeDigest, BeforeArtifact
    <2>2. DOMAIN d.files = Complete BY StageNames
    <2>3. Entries("done") = Complete BY DEF Entries, BeforeDigest, BeforeArtifact
    <2>4. "manifest" \in DOMAIN d.files BY <2>2 DEF Complete
    <2>5. d.made /\ d.kept /\ d.synced = Complete BY <2>3 DEF Stage
    <2>6. "done" \in Working \cup {"done"} OBVIOUS
    <2> QED BY <2>2, <2>4, <2>5, <2>6, StageShows
  <1>2. PICK stays \in MayStay(d), harmed \in MayBeHarmed(d) : e = Found(d, stays, harmed)
    BY <1>1 DEF AfterLoss
  <1>3. /\ e.made /\ e.kept
        /\ e.synced = d.synced \cup stays /\ DOMAIN e.files = d.synced \cup stays
        /\ stays \subseteq UNION {Names(n) : n \in DOMAIN d.files \ d.synced}
        /\ \A n \in (d.synced \cup stays) \cap DOMAIN d.files :
              /\ e.files[n].bytes = d.files[n].bytes /\ e.files[n].synced
              /\ d.files[n].intact /\ d.files[n].synced => e.files[n].intact
    BY <1>2, FoundFacts
  <1>4. stays = {}
    <2>1. DOMAIN d.files \ d.synced = {} BY <1>1
    <2> QED BY <1>3, <2>1
  <1>5. /\ e.made /\ e.kept /\ e.synced = Complete /\ DOMAIN e.files = Complete
        /\ \A n \in Complete : e.files[n].intact /\ e.files[n].synced
        /\ \A n \in Complete : e.files[n].bytes = d.files[n].bytes
    BY <1>1, <1>3, <1>4
  <1>6. /\ e.files["manifest"].bytes = Told(i) /\ e.files["digest"].bytes = Told(i)
        /\ e.files["history"].bytes = i.copied
    BY <1>1, <1>5 DEF Complete, Told
  <1>7. Entries("done") = Complete BY DEF Entries, BeforeDigest, BeforeArtifact
  <1> QED BY <1>5, <1>6, <1>7
          DEF Stage, Complete, BeforeRename, BeforeManifest, BeforeDigest, BeforeArtifact

LEMMA OutputsLoss ==
    ASSUME IInv, [Next]_vars, PowerLoss
    PROVE  Outputs'
  <1>1. /\ TypeOK /\ OneOwner /\ \A p \in Output : Directory(disk[p])
        /\ \A b \in Creator : Owns(b) => Stage(job[b], disk[job[b].output])
    BY DEF IInv
  <1>2. /\ disk' = [o \in Output |-> disk'[o]] /\ checkpoints' = checkpoints
        /\ \A o \in Output : disk'[o] \in AfterLoss(disk[o])
    BY DEF PowerLoss
  <1>3. \A c \in Creator :
           /\ job'[c].output = job[c].output /\ job'[c].point = job[c].point
           /\ job'[c].copied = job[c].copied
           /\ Owns(c)' => job[c].pc = "done" /\ job'[c].pc = "done" /\ Owns(c)
    <2>1. "failed" \notin Working \cup {"done"} /\ Ended \cap (Working \cup {"done"}) = {"done"}
      BY DEF Ended, Working, BeforeRename, BeforeManifest, BeforeDigest, BeforeArtifact
    <2> QED BY <1>1, <2>1, LossMoves DEF Owns
  <1>4. ASSUME NEW o \in Output
        PROVE  IsDirectory(disk'[o]) /\ Directory(disk[o])'
    <2> DEFINE e == disk'[o]
    <2>1. e \in AfterLoss(disk[o]) /\ IsDirectory(disk[o]) /\ Directory(disk[o])
      BY <1>1, <1>2 DEF TypeOK
    <2> HIDE DEF e
    <2>2. IsDirectory(e) /\ Directory(e) BY <2>1, LossKeepsDirectory
    <2> QED BY <1>2, <2>2 DEF e, Directory, Committed
  <1>5. ASSUME NEW b \in Creator, Owns(b)'
        PROVE  Stage(job'[b], disk'[job'[b].output])
    <2> DEFINE o == job[b].output
    <2>1. Owns(b) /\ job[b].pc = "done" /\ job'[b].pc = "done" BY <1>3, <1>5
    <2>2. o \in Output /\ IsDirectory(disk[o]) /\ Stage(job[b], disk[o]) BY <2>1, OwnerOutput
    <2>3. Directory(disk[o]) /\ disk'[o] \in AfterLoss(disk[o]) BY <1>1, <1>2, <2>2
    <2> HIDE DEF o
    <2>4. Stage(job'[b], disk'[o]) BY <1>3, <2>1, <2>2, <2>3, ReportedStays
    <2> QED BY <1>3, <2>4 DEF o
  <1>6. OneOwner'
    <2>1. \A c \in Creator : job'[c].pc # "idle" => job'[c].output \in Output BY JobsLemma
    <2> QED BY <1>1, <1>3, <2>1 DEF OneOwner
  <1> QED BY <1>2, <1>4, <1>5, <1>6 DEF Outputs

LEMMA OutputsLemma ==
    ASSUME IInv, [Next]_vars
    PROVE  Outputs'
  <1>1. TypeOK /\ OneOwner /\ Servers /\ Locks BY DEF IInv
  <1>2. \A pc \in {"checkpoint", "verify", "failed"} : pc \notin Working \cup {"done"}
    BY DEF Working, BeforeRename, BeforeManifest, BeforeDigest, BeforeArtifact
  <1>3. ASSUME NEW h \in Host, AppendFrame(h) \/ SyncFrame(h) PROVE Outputs'
    BY <1>3, OutputsStay DEF AppendFrame, SyncFrame
  <1>4. ASSUME NEW c \in Creator, Quiet(c) PROVE Outputs'
    BY <1>4, QuietActs, QuietMoves, OutputsAct DEF Moves
  <1>5. ASSUME NEW c \in Creator, AskCheckpoint(c) PROVE Outputs'
    <2>1. /\ job'[c].pc = "checkpoint" /\ disk' = disk
          /\ \A b \in Creator : b # c => job'[b] = job[b]
      BY <1>1, <1>5, AskMoves
    <2>2. Acts(c) BY <1>2, <2>1, NoActs
    <2> QED BY <2>1, <2>2, OutputsAct
  <1>6. ASSUME NEW c \in Creator, AnswerCheckpoint(c) \/ Abandon(c) PROVE Outputs'
    <2>1. /\ job'[c].pc \in {"verify", "failed"} /\ disk' = disk
          /\ \A b \in Creator : b # c => job'[b] = job[b]
      BY <1>1, <1>6, AnswerMoves, AbandonMoves DEF Moves
    <2>2. Acts(c) BY <1>2, <2>1, NoActs
    <2> QED BY <2>1, <2>2, OutputsAct
  <1>7. ASSUME PowerLoss PROVE Outputs' BY <1>7, OutputsLoss
  <1>8. ASSUME UNCHANGED vars PROVE Outputs' BY <1>8, OutputsStay DEF vars
  <1> QED BY <1>3, <1>4, <1>5, <1>6, <1>7, <1>8, NextCases

-----------------------------------------------------------------------------
(* The theorems.                                                           *)

LEMMA NextLemma ==
    ASSUME IInv, [Next]_vars
    PROVE  IInv'
  <1>1. server' \in [Host -> ServerType] /\ Servers' BY ServersLemma
  <1>2. Checkpoints' /\ IsFiniteSet(checkpoints') BY CheckpointsLemma
  <1>3. Locks' BY LocksLemma
  <1>4. \A c \in Creator : Copies(c)' BY CopiesLemma
  <1>5. Outputs' BY OutputsLemma
  <1>6. job' \in [Creator -> JobType] BY JobsLemma
  <1>7. powerLosses' \in Nat
    <2>1. powerLosses' = powerLosses \/ powerLosses' = powerLosses + 1
      BY NextCases, QuietLeaves
         DEF AppendFrame, SyncFrame, AskCheckpoint, AnswerCheckpoint, Abandon, PowerLoss, vars
    <2>2. powerLosses \in Nat BY TypeShape DEF IInv
    <2> QED BY <2>1, <2>2
  <1>8. TypeOK' BY <1>1, <1>2, <1>5, <1>6, <1>7 DEF TypeOK, ServerType, JobType, Outputs
  <1>9. /\ OneOwner' /\ \A o \in Output : Directory(disk[o])'
        /\ \A c \in Creator : Owns(c)' => Stage(job'[c], disk'[job'[c].output])
    BY <1>5 DEF Outputs
  <1> QED BY <1>1, <1>2, <1>3, <1>4, <1>8, <1>9 DEF IInv

\* The inductive invariant: how far every creator came, what it left, and that
\* the supplied log keeps every checkpoint it goes by, under concurrent writes,
\* kills and power losses.
THEOREM BackupInvariant == Spec => []IInv
  <1>1. Init => IInv BY InitLemma
  <1>2. IInv /\ [Next]_vars => IInv' BY NextLemma
  <1> QED BY <1>1, <1>2, PTL DEF Spec

\* A directory that shows its manifest is one that verifyBackup() accepts.
LEMMA CommittedAccepts ==
    ASSUME IInv, NEW o \in Output, "manifest" \in DOMAIN disk[o].files
    PROVE  /\ Accepts(o)
           /\ \E k \in checkpoints :
                 LET m == disk[o].files["manifest"].bytes IN
                 /\ k.point = m.point /\ k.log = m.history
                 /\ m.version = Cardinality(Range(k.log) \ {Header})
  <1> DEFINE files == disk[o].files m == files["manifest"].bytes
  <1>1. Committed(disk[o]) /\ Checkpoints BY DEF IInv, Directory
  <1>2. /\ DOMAIN files = Complete /\ \A n \in Complete : files[n].intact
        /\ files["digest"].bytes = m /\ files["history"].bytes = m.history
        /\ m.version = m.point.version
    BY <1>1 DEF Committed
  <1>3. PICK k \in checkpoints : k.point = m.point /\ k.log = m.history
    BY <1>1 DEF Committed
  <1>4. Numbered(k.log) /\ Len(k.log) = k.point.watermark /\ k.point.version = Len(k.log) - 1
    BY <1>1 DEF Checkpoints
  <1>5. Cardinality(Range(k.log) \ {Header}) = Len(k.log) - 1 BY <1>4, NumberedVersion
  <1>6. m.version = Cardinality(Range(k.log) \ {Header})
    BY <1>2, <1>3, <1>4, <1>5
  <1>7. m.point.watermark = Len(m.history) /\ m.history # <<>> /\ m.history[1] = Header
    BY <1>3, <1>4 DEF Numbered
  <1>8. Accepts(o) BY <1>2, <1>7 DEF Accepts
  <1> QED BY <1>3, <1>6, <1>8

\* Whatever was killed or lost on the way, an output that shows its manifest
\* is complete and is the log of the checkpoint it names, at its version.
THEOREM ExactTheorem == Spec => []CommittedIsExact
  <1>1. IInv => CommittedIsExact BY CommittedAccepts DEF CommittedIsExact
  <1> QED BY <1>1, BackupInvariant, PTL

\* A backup that create reported stays accepted, also after a power loss and
\* beside other creators aimed at the same output.
THEOREM KeptTheorem == Spec => []ReportedIsKept
  <1>1. ASSUME IInv, NEW c \in Creator, job[c].pc = "done"
        PROVE  Accepts(job[c].output)
    <2> DEFINE o == job[c].output
    <2>1. Owns(c) BY <1>1 DEF Owns
    <2>2. o \in Output /\ IsDirectory(disk[o]) /\ Stage(job[c], disk[o])
      BY <1>1, <2>1, OwnerOutput
    <2>3. DOMAIN disk[o].files = Complete BY <1>1, <2>2, StageNames
    <2>4. "manifest" \in DOMAIN disk[o].files BY <2>3 DEF Complete
    <2> QED BY <1>1, <2>2, <2>4, CommittedAccepts
  <1>2. IInv => ReportedIsKept BY <1>1 DEF ReportedIsKept
  <1> QED BY <1>2, BackupInvariant, PTL
================================================================================
