----------------------------- MODULE CdrWriter -----------------------------
(***************************************************************************)
(* The writers of CDRs (cdrwriter/): to BigQuery (bigquery_writer.go), to     *)
(* Elastic (elastic_writer.go) and to files (file_writer.go).                *)
(*                                                                          *)
(* A writer takes CDRs from a channel and sends them in batches to a         *)
(* database that may fail, and may have inserted part of a batch when it     *)
(* does.  Batches go to a backup file, and backup files get a name of their  *)
(* own (.w) and are sent by another goroutine.  The process may stop at any  *)
(* moment and start again: the files are what is left of it.                 *)
(*                                                                          *)
(* Time is measured in intervals of BIGQUERY_CDR_WRITE_TIME_MILLIS.          *)
(***************************************************************************)
EXTENDS Integers, FiniteSets

CONSTANTS
    Cdrs,
    OldCdrs,    \* CDRs that an earlier process may have left in the backup file
    Kinds,      \* subset of {"bigquery", "elastic", "file"}
    MaxFiles,   \* bound: .w files at a time
    Capacity,   \* of packetChan (1000)
    Threshold,  \* BIGQUERY_CDR_COUNT_THRESHOLD (500)
    Glitch,     \* glitchTime
    ChunkSize,  \* CDRs that processBackupFile of Elastic sends at a time (1000)
    MaxFaults   \* bound: stops of the process and partial insertions

ASSUME CdrWriterAssumption ==
    /\ IsFiniteSet(Cdrs) /\ OldCdrs \subseteq Cdrs
    /\ Kinds \subseteq {"bigquery", "elastic", "file"}
    /\ {MaxFiles, Capacity, Threshold, Glitch, ChunkSize, MaxFaults} \subseteq Nat

VARIABLES
    kind,
    accepted,   \* CDRs for which WriteRadiusCDR returned
    queued,     \* those in packetChan
    closed,     \* packetChan is closed
    loop,       \* eventLoop: "down", "starting", "running", "sending", "backup", "ending", "done"
    batch,      \* CDRs in memory
    counter,    \* cdrCounter
    due,        \* more than an interval since lastWritten, or rotateSeconds since the rotation
    sinceError, \* intervals since lastError, capped; the zero time is long ago
    hasBackup,
    backup,     \* CDRs in the backup file
    files,      \* CDRs in each of the .w files, none if there is no such file
    slot,       \* the .w file that processBackupFile sends, 0 for none
    left,       \* CDRs of that file not sent yet
    copies,     \* of each CDR in the database: 0, 1, 2 for more
    outage,     \* history: 0, or 1 + intervals since the first of the errors in a row, capped
    faults,     \* stops and partial insertions
    mishap      \* history: the last step stopped the process or dropped CDRs

memory == <<queued, closed, batch, counter, due, sinceError, hasBackup, outage>>
processor == <<slot, left>>
vars == <<kind, accepted, memory, loop, backup, files, processor, copies, faults, mishap>>

Slots == 1..MaxFiles
Long == Glitch + 1
Later(t) == IF t < Long THEN t + 1 ELSE t
Inserted(S) == [c \in Cdrs |-> IF c \in S /\ copies[c] < 2 THEN copies[c] + 1 ELSE copies[c]]
Up == loop # "down"
Ended == loop \in {"ending", "done"}

Init ==
    /\ kind \in Kinds
    /\ accepted \in {{}, IF kind = "file" THEN {} ELSE OldCdrs} /\ backup = accepted
    /\ queued = {} /\ closed = FALSE /\ loop = "down"
    /\ batch = {} /\ counter = 0 /\ due = FALSE
    /\ sinceError = Long /\ outage = 0 /\ hasBackup = FALSE
    /\ files = [i \in Slots |-> {}]
    /\ slot = 0 /\ left = {}
    /\ copies = [c \in Cdrs |-> 0]
    /\ faults = 0 /\ mishap = FALSE

\* os.Rename of the backup file to a new name with suffix .w, if there is one
RenameBackup(cond) ==
    IF cond /\ backup # {}
    THEN /\ \E i \in Slots :
              /\ files[i] = {} /\ \A j \in Slots : j < i => files[j] # {}
              /\ files' = [files EXCEPT ![i] = backup]
         /\ backup' = {}
    ELSE UNCHANGED <<files, backup>>

\* New*CDRWriter
New ==
    /\ loop = "down"
    /\ loop' = "starting"
    /\ RenameBackup(kind # "file")
    /\ mishap' = FALSE
    /\ UNCHANGED <<kind, accepted, memory, processor, copies, faults>>

\* The goroutine starts, and creates the ticker
Start ==
    /\ loop = "starting"
    /\ loop' = "running"
    /\ due' = (kind = "file")
    /\ mishap' = FALSE
    /\ UNCHANGED <<kind, accepted, queued, closed, batch, counter, sinceError, hasBackup, outage,
                   backup, files, processor, copies, faults>>

\* The process stops, with or without Close()
Stop ==
    /\ Up
    /\ faults < MaxFaults
    /\ faults' = faults + 1
    /\ loop' = "down"
    /\ queued' = {} /\ closed' = FALSE
    /\ batch' = {} /\ counter' = 0 /\ due' = FALSE /\ hasBackup' = FALSE
    /\ sinceError' = Long /\ outage' = 0
    /\ slot' = 0 /\ left' = {}
    /\ mishap' = TRUE
    /\ UNCHANGED <<kind, accepted, backup, files, copies>>

-----------------------------------------------------------------------------
(* Callers *)

\* "Call when sure that no more write operations will be invoked", of Close().  Nobody reads the
\* channel when the event loop has ended.
WriteRadiusCDR(c) ==
    /\ Up /\ ~closed
    /\ c \notin accepted
    /\ Cardinality(queued) < Capacity
    /\ accepted' = accepted \cup {c}
    /\ queued' = queued \cup {c}
    /\ mishap' = Ended
    /\ UNCHANGED <<kind, closed, loop, batch, counter, due, sinceError, hasBackup, outage, backup,
                   files, processor, copies, faults>>

\* The ticker is nil until the event loop has started: a panic, one of the ways to Stop
Close ==
    /\ Up /\ ~closed
    /\ kind = "file" \/ loop # "starting"
    /\ closed' = TRUE
    /\ mishap' = FALSE
    /\ UNCHANGED <<kind, accepted, queued, loop, batch, counter, due, sinceError, hasBackup,
                   outage, backup, files, processor, copies, faults>>

Tick ==
    /\ Up
    /\ due' = TRUE
    /\ sinceError' = Later(sinceError)
    /\ outage' = IF outage = 0 THEN 0 ELSE 1 + Later(outage - 1)
    /\ mishap' = FALSE
    /\ UNCHANGED <<kind, accepted, queued, closed, loop, batch, counter, hasBackup, backup, files,
                   processor, copies, faults>>

-----------------------------------------------------------------------------
(* The event loop of BigQuery *)

Receive(c, k) ==
    /\ kind = k
    /\ loop = "running"
    /\ c \in queued
    /\ queued' = queued \ {c}
    /\ UNCHANGED <<kind, accepted, closed, sinceError, hasBackup, outage, backup, files, processor,
                   faults>>

BigQueryTake(c) ==
    /\ Receive(c, "bigquery")
    /\ batch' = batch \cup {c}
    /\ counter' = counter + 1
    /\ loop' = IF counter' > Threshold \/ due THEN "sending" ELSE "running"
    /\ mishap' = FALSE
    /\ UNCHANGED <<due, copies>>

\* The ticker, which Close() stops
Wake ==
    /\ kind = "bigquery"
    /\ loop = "running"
    /\ due /\ ~closed
    /\ loop' = "sending"
    /\ mishap' = FALSE
    /\ UNCHANGED <<kind, accepted, memory, backup, files, processor, copies, faults>>

\* Mutant: the backup file keeps its name
SendOk_NotRenamed ==
    /\ loop = "sending"
    /\ copies' = Inserted(batch)
    /\ batch' = {}
    /\ counter' = 0 /\ due' = FALSE
    /\ sinceError' = Long /\ outage' = 0
    /\ loop' = "running"
    /\ mishap' = FALSE
    /\ UNCHANGED <<kind, accepted, queued, closed, hasBackup, backup, files, processor, faults>>

SendOk ==
    /\ loop = "sending"
    /\ copies' = Inserted(batch)
    /\ batch' = {}
    /\ RenameBackup(hasBackup)
    /\ hasBackup' = FALSE
    /\ counter' = 0 /\ due' = FALSE
    /\ sinceError' = Long /\ outage' = 0
    /\ loop' = "running"
    /\ mishap' = FALSE
    /\ UNCHANGED <<kind, accepted, queued, closed, processor, faults>>

\* A database that fails may have inserted a part
Partly(S) ==
    \E part \in SUBSET S :
        /\ part # {} => faults < MaxFaults
        /\ faults' = IF part = {} THEN faults ELSE faults + 1
        /\ copies' = Inserted(part)

\* "Only if we are outside the glitch interval, backup the CDR"
BackingUp == sinceError > Glitch /\ batch # {}

\* Mutants of SendFails: hasBackup is not set; the batch is emptied inside the glitch interval too
SendFailed(known, kept) ==
    /\ loop = "sending"
    /\ Partly(batch)
    /\ loop' = IF BackingUp THEN "backup" ELSE "running"
    /\ hasBackup' = known
    /\ batch' = kept
    /\ counter' = 0 /\ due' = FALSE
    /\ sinceError' = 0
    /\ outage' = IF outage = 0 THEN 1 ELSE outage
    /\ mishap' = FALSE
    /\ UNCHANGED <<kind, accepted, queued, closed, backup, files, processor>>
SendFails_NotNoted == SendFailed(hasBackup, batch)
SendFails_ThrownAway == SendFailed(hasBackup \/ BackingUp, IF BackingUp THEN batch ELSE {})

SendFails ==
    /\ loop = "sending"
    /\ Partly(batch)
    /\ loop' = IF BackingUp THEN "backup" ELSE "running"
    /\ hasBackup' = (hasBackup \/ BackingUp)
    /\ counter' = 0 /\ due' = FALSE
    /\ sinceError' = 0
    /\ outage' = IF outage = 0 THEN 1 ELSE outage
    /\ mishap' = FALSE
    /\ UNCHANGED <<kind, accepted, queued, closed, batch, backup, files, processor>>

\* The CDRs are written to the file one by one
BackUpOne(c) ==
    /\ loop = "backup"
    /\ c \in batch
    /\ backup' = backup \cup {c}
    /\ batch' = batch \ {c}
    /\ loop' = IF batch' = {} THEN "running" ELSE "backup"
    /\ mishap' = FALSE
    /\ UNCHANGED <<kind, accepted, queued, closed, counter, due, sinceError, hasBackup, outage,
                   files, processor, copies, faults>>

\* packetChan is closed and empty
Drained ==
    /\ loop = "running"
    /\ closed /\ queued = {}
    /\ loop' = IF kind = "file" THEN "done" ELSE "ending"
    /\ mishap' = FALSE
    /\ UNCHANGED <<kind, accepted, memory, backup, files, processor, copies, faults>>

\* "Write the remaining CDR"; when it fails, "Some CDR may be lost"
EndLoop(lost) ==
    /\ loop = "ending"
    /\ loop' = "done"
    /\ batch' = {}
    /\ mishap' = lost
    /\ UNCHANGED <<kind, accepted, queued, closed, counter, due, sinceError, hasBackup, outage,
                   backup, files, processor>>
FinalSendOk == EndLoop(FALSE) /\ copies' = Inserted(batch) /\ UNCHANGED faults
FinalSendFails == EndLoop(TRUE) /\ Partly(batch)

-----------------------------------------------------------------------------
(* The event loop of Elastic: m, which is tested instead of v, is always nil, *)
(* so that the first CDR ends the loop.  Until then there is nothing to send. *)

ElasticTake(c) ==
    /\ Receive(c, "elastic")
    /\ loop' = "ending"
    /\ mishap' = TRUE
    /\ UNCHANGED <<batch, counter, due, copies>>

(* The event loop of the file writer, which rotates the file with a CDR       *)

FileTake(c) ==
    /\ Receive(c, "file")
    /\ copies' = Inserted({c})
    /\ due' = FALSE
    /\ mishap' = FALSE
    /\ UNCHANGED <<loop, batch, counter>>

-----------------------------------------------------------------------------
(* processBackupFiles, which goes on after Close() *)

Processor ==
    /\ Up /\ kind # "file"
    /\ mishap' = FALSE
    /\ UNCHANGED <<kind, accepted, memory, loop, backup>>

PickFile(i) ==
    /\ Processor
    /\ slot = 0
    /\ files[i] # {}
    /\ slot' = i /\ left' = files[i]
    /\ UNCHANGED <<files, copies, faults>>

\* BigQuery sends the whole file, Elastic some lines at a time
Chunk(S) ==
    /\ S # {} /\ S \subseteq left
    /\ S = left \/ (kind = "elastic" /\ Cardinality(S) = ChunkSize)

ChunkOk(S) ==
    /\ Processor
    /\ slot # 0
    /\ Chunk(S)
    /\ copies' = Inserted(S)
    /\ left' = left \ S
    /\ UNCHANGED <<slot, files, faults>>

\* The file stays as it is
ChunkFails(S) ==
    /\ Processor
    /\ slot # 0
    /\ Chunk(S)
    /\ Partly(S)
    /\ slot' = 0 /\ left' = {}
    /\ UNCHANGED files

\* Mutant: the file is not deleted
RemoveFile_Kept ==
    /\ Processor
    /\ slot # 0 /\ left = {}
    /\ slot' = 0
    /\ UNCHANGED <<files, left, copies, faults>>

RemoveFile ==
    /\ Processor
    /\ slot # 0 /\ left = {}
    /\ files' = [files EXCEPT ![slot] = {}]
    /\ slot' = 0
    /\ UNCHANGED <<left, copies, faults>>

-----------------------------------------------------------------------------
LoopSteps ==
    \/ New \/ Start \/ Wake \/ Drained \/ FinalSendOk \/ FinalSendFails
    \/ \E c \in Cdrs : BackUpOne(c)
Takes == \E c \in Cdrs : BigQueryTake(c) \/ ElasticTake(c) \/ FileTake(c)
Sends == SendOk \/ SendFails
FileSteps == RemoveFile \/ \E i \in Slots : PickFile(i)
Chunks == \E S \in SUBSET left : ChunkOk(S) \/ ChunkFails(S)

Next ==
    \/ LoopSteps \/ Takes \/ Sends \/ FileSteps \/ Chunks
    \/ Stop \/ Close \/ Tick
    \/ \E c \in Cdrs : WriteRadiusCDR(c)

Spec == Init /\ [][Next]_vars

\* The goroutines run, select does not leave out the CDRs for the ticks forever, time passes, and
\* the database answers after some of the attempts: the code tries again forever
FairSpec ==
    /\ Spec
    /\ WF_vars(LoopSteps \/ Sends) /\ WF_vars(FileSteps \/ Chunks) /\ WF_vars(Tick)
    /\ SF_vars(Takes) /\ SF_vars(SendOk) /\ SF_vars(\E S \in SUBSET left : ChunkOk(S))

-----------------------------------------------------------------------------
(* Properties *)

Delivered == {c \in Cdrs : copies[c] > 0}
InFiles == UNION {files[i] : i \in Slots}
Kept == (IF Ended THEN {} ELSE queued) \cup batch \cup backup \cup InFiles
Lost == accepted \ (Kept \cup Delivered)

\* The variables keep their types.
TypeOK ==
    /\ kind \in Kinds
    /\ accepted \subseteq Cdrs /\ queued \subseteq Cdrs /\ batch \subseteq Cdrs
    /\ backup \subseteq Cdrs /\ left \subseteq Cdrs
    /\ closed \in BOOLEAN /\ due \in BOOLEAN /\ hasBackup \in BOOLEAN /\ mishap \in BOOLEAN
    /\ loop \in {"down", "starting", "running", "sending", "backup", "ending", "done"}
    /\ counter \in Nat /\ faults \in Nat
    /\ sinceError \in 0..Long /\ outage \in 0..(Long + 1)
    /\ files \in [Slots -> SUBSET Cdrs]
    /\ slot \in Slots \cup {0}
    /\ copies \in [Cdrs -> 0..2]

\* A CDR is in the channel, in the batch, in a file or in the database until it is lost in a
\* mishap: no failure of the database, in whatever order it hits the batches and the files,
\* loses one.
Delivery == INSTANCE CdrDelivery WITH accepted <- accepted, delivered <- Delivered,
                                      lost <- Lost, mishap <- mishap
ImplementsDelivery == Delivery!Spec

\* Without stops and partial insertions no CDR is inserted twice in BigQuery: it is never in
\* two places from which it would be sent.
NoDuplicates == kind # "elastic" /\ faults = 0 => \A c \in Cdrs : copies[c] <= 1

\* What is in the backup file gets a name of its own when the database is back: the event loop
\* knows that there is one.
BackupKnown == loop \in {"running", "sending", "backup"} /\ backup # {} => hasBackup

\* The event loop of BigQuery and of files comes back again and again to have delivered all that
\* it accepted, however long the database fails, unless Close() is called.
EventuallyDelivered ==
    []<>(kind = "elastic" \/ closed \/ accepted \subseteq Delivered \cup Lost)

-----------------------------------------------------------------------------
(* Expectations that the code does not meet; see README.md *)

\* "Consume all the pending CDR in the buffer", of Close(): nothing is lost while the process
\* runs and the database works.
LostOnlyByStop == Lost # {} => faults > 0

\* "If unavailability of the database last longer that the configured time the CDR are written
\* in a backup file"
BackedUpInOutage == [][SendFails /\ outage > Long /\ batch # {} => loop' = "backup"]_vars
=============================================================================
