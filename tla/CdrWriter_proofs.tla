-------------------------- MODULE CdrWriter_proofs --------------------------
(***************************************************************************)
(* Proofs about the writers of CDRs: that they implement CdrDelivery, that   *)
(* the event loop knows of its backup file, and that nothing is inserted     *)
(* twice without a fault.                                                    *)
(***************************************************************************)
EXTENDS CdrWriter, TLAPS

-----------------------------------------------------------------------------
(* Types *)

\* The constants as the proofs use them.
LEMMA Constants ==
    /\ OldCdrs \subseteq Cdrs /\ MaxFiles \in Nat /\ Glitch \in Nat /\ Long \in Nat
    /\ Slots \subseteq Nat /\ 0 \notin Slots
  BY CdrWriterAssumption DEF Long, Slots

\* What is inserted is delivered, and nothing else.
LEMMA Insert ==
    ASSUME copies \in [Cdrs -> 0..2], NEW S \in SUBSET Cdrs, copies' = Inserted(S)
    PROVE  copies' \in [Cdrs -> 0..2] /\ Delivered' = Delivered \cup S
  BY DEF Inserted, Delivered

\* A failed insertion delivers a part, possibly none.
LEMMA PartlyInserts ==
    ASSUME copies \in [Cdrs -> 0..2], faults \in Nat, NEW S \in SUBSET Cdrs, Partly(S)
    PROVE  /\ copies' \in [Cdrs -> 0..2] /\ faults' \in Nat
           /\ Delivered \subseteq Delivered' /\ Delivered' \subseteq Delivered \cup S
           /\ faults' = 0 => faults = 0 /\ copies' = copies
  <1>1. PICK part \in SUBSET S : /\ faults' = IF part = {} THEN faults ELSE faults + 1
                                 /\ copies' = Inserted(part)
    BY DEF Partly
  <1>2. copies' \in [Cdrs -> 0..2] /\ Delivered' = Delivered \cup part
    BY <1>1, Insert
  <1>3. part = {} => copies' = copies
    BY <1>1 DEF Inserted
  <1> QED
    BY <1>1, <1>2, <1>3

\* The backup file gets a name that no file has, or stays what it is.
LEMMA Rename ==
    ASSUME files \in [Slots -> SUBSET Cdrs], backup \subseteq Cdrs, NEW cond, RenameBackup(cond)
    PROVE  \/ UNCHANGED <<files, backup>> /\ (cond => backup = {})
           \/ /\ backup' = {} /\ backup # {}
              /\ \E i \in Slots : files[i] = {} /\ files' = [files EXCEPT ![i] = backup]
  BY DEF RenameBackup

\* The initial state has the types.
LEMMA InitTypes == Init => TypeOK
  <1> SUFFICES ASSUME Init PROVE TypeOK
    OBVIOUS
  <1>1. accepted \subseteq Cdrs /\ backup \subseteq Cdrs
    BY Constants DEF Init
  <1>2. sinceError \in 0..Long /\ outage \in 0..(Long + 1) /\ counter \in Nat /\ faults \in Nat
    BY Constants DEF Init
  <1>3. files \in [Slots -> SUBSET Cdrs] /\ copies \in [Cdrs -> 0..2]
    BY DEF Init
  <1>4. closed \in BOOLEAN /\ due \in BOOLEAN /\ hasBackup \in BOOLEAN /\ mishap \in BOOLEAN
    BY DEF Init
  <1>5. kind \in Kinds /\ queued = {} /\ batch = {} /\ left = {} /\ slot = 0 /\ loop = "down"
    BY DEF Init
  <1> QED
    BY <1>1, <1>2, <1>3, <1>4, <1>5 DEF TypeOK

\* Every step keeps the types.
LEMMA NextTypes == TypeOK /\ [Next]_vars => TypeOK'
  <1> SUFFICES ASSUME TypeOK, [Next]_vars PROVE TypeOK'
    OBVIOUS
  <1> USE Constants
  <1>1. CASE New
    <2>1. files' \in [Slots -> SUBSET Cdrs] /\ backup' \subseteq Cdrs
      BY <1>1, Rename DEF New, TypeOK
    <2> QED
      BY <1>1, <2>1 DEF New, TypeOK, memory, processor
  <1>2. CASE Start
    BY <1>2 DEF Start, TypeOK, processor
  <1>3. CASE Wake
    BY <1>3 DEF Wake, TypeOK, memory, processor
  <1>4. CASE Drained
    BY <1>4 DEF Drained, TypeOK, memory, processor
  <1>5. CASE FinalSendOk
    <2>1. copies' \in [Cdrs -> 0..2]
      BY <1>5, Insert DEF FinalSendOk, TypeOK
    <2> QED
      BY <1>5, <2>1 DEF FinalSendOk, EndLoop, TypeOK, processor
  <1>6. CASE FinalSendFails
    <2>1. copies' \in [Cdrs -> 0..2] /\ faults' \in Nat
      BY <1>6, PartlyInserts DEF FinalSendFails, TypeOK
    <2> QED
      BY <1>6, <2>1 DEF FinalSendFails, EndLoop, TypeOK, processor
  <1>7. ASSUME NEW c \in Cdrs, BackUpOne(c) PROVE TypeOK'
    BY <1>7 DEF BackUpOne, TypeOK, processor
  <1>8. ASSUME NEW c \in Cdrs, BigQueryTake(c) PROVE TypeOK'
    <2>1. loop' \in {"sending", "running"} /\ counter' \in Nat
      BY <1>8 DEF BigQueryTake, TypeOK
    <2> QED
      BY <1>8, <2>1 DEF BigQueryTake, Receive, TypeOK, processor
  <1>9. ASSUME NEW c \in Cdrs, ElasticTake(c) PROVE TypeOK'
    BY <1>9 DEF ElasticTake, Receive, TypeOK, processor
  <1>10. ASSUME NEW c \in Cdrs, FileTake(c) PROVE TypeOK'
    <2>1. copies' \in [Cdrs -> 0..2]
      BY <1>10, Insert DEF FileTake, TypeOK
    <2> QED
      BY <1>10, <2>1 DEF FileTake, Receive, TypeOK, processor
  <1>11. CASE SendOk
    <2>1. copies' \in [Cdrs -> 0..2]
      BY <1>11, Insert DEF SendOk, TypeOK
    <2>2. files' \in [Slots -> SUBSET Cdrs] /\ backup' \subseteq Cdrs
      BY <1>11, Rename DEF SendOk, TypeOK
    <2>3. sinceError' \in 0..Long /\ outage' \in 0..(Long + 1)
      BY <1>11 DEF SendOk
    <2> QED
      BY <1>11, <2>1, <2>2, <2>3 DEF SendOk, TypeOK, processor
  <1>12. CASE SendFails
    <2>1. copies' \in [Cdrs -> 0..2] /\ faults' \in Nat
      BY <1>12, PartlyInserts DEF SendFails, TypeOK
    <2>2. hasBackup' \in BOOLEAN
      BY <1>12, Zenon DEF SendFails
    <2>3. loop' \in {"backup", "running"}
      BY <1>12 DEF SendFails
    <2>4. sinceError' \in 0..Long /\ outage' \in 0..(Long + 1)
      BY <1>12 DEF SendFails, TypeOK
    <2> QED
      BY <1>12, <2>1, <2>2, <2>3, <2>4 DEF SendFails, TypeOK, processor
  <1>13. CASE RemoveFile
    BY <1>13 DEF RemoveFile, Processor, TypeOK, memory
  <1>14. ASSUME NEW i \in Slots, PickFile(i) PROVE TypeOK'
    BY <1>14 DEF PickFile, Processor, TypeOK, memory
  <1>15. ASSUME NEW S \in SUBSET left, ChunkOk(S) PROVE TypeOK'
    <2>1. copies' \in [Cdrs -> 0..2]
      BY <1>15, Insert DEF ChunkOk, TypeOK
    <2> QED
      BY <1>15, <2>1 DEF ChunkOk, Processor, TypeOK, memory
  <1>16. ASSUME NEW S \in SUBSET left, ChunkFails(S) PROVE TypeOK'
    <2>1. copies' \in [Cdrs -> 0..2] /\ faults' \in Nat
      BY <1>16, PartlyInserts DEF ChunkFails, TypeOK
    <2> QED
      BY <1>16, <2>1 DEF ChunkFails, Processor, TypeOK, memory
  <1>17. CASE Stop
    <2>1. sinceError' \in 0..Long /\ outage' \in 0..(Long + 1)
      BY <1>17 DEF Stop
    <2>2. faults' \in Nat /\ counter' \in Nat
      BY <1>17 DEF Stop, TypeOK
    <2>3. UNCHANGED <<kind, accepted, backup, files, copies>>
      BY <1>17 DEF Stop
    <2>4. queued' = {} /\ batch' = {} /\ left' = {} /\ slot' = 0 /\ loop' = "down"
      BY <1>17 DEF Stop
    <2>5. closed' \in BOOLEAN /\ due' \in BOOLEAN /\ hasBackup' \in BOOLEAN /\ mishap' \in BOOLEAN
      BY <1>17 DEF Stop
    <2> QED
      BY <2>1, <2>2, <2>3, <2>4, <2>5 DEF TypeOK
  <1>18. CASE Close
    BY <1>18 DEF Close, TypeOK, processor
  <1>19. CASE Tick
    <2>1. sinceError' \in 0..Long /\ outage' \in 0..(Long + 1)
      BY <1>19 DEF Tick, Later, TypeOK
    <2> QED
      BY <1>19, <2>1 DEF Tick, TypeOK, processor
  <1>20. ASSUME NEW c \in Cdrs, WriteRadiusCDR(c) PROVE TypeOK'
    <2>1. Ended \in BOOLEAN /\ mishap' = Ended
      BY <1>20 DEF WriteRadiusCDR, Ended
    <2> QED
      BY <1>20, <2>1 DEF WriteRadiusCDR, TypeOK, processor
  <1>21. CASE UNCHANGED vars
    BY <1>21 DEF vars, memory, processor, TypeOK
  <1> QED
    BY <1>1, <1>2, <1>3, <1>4, <1>5, <1>6, <1>7, <1>8, <1>9, <1>10, <1>11, <1>12, <1>13,
       <1>14, <1>15, <1>16, <1>17, <1>18, <1>19, <1>20, <1>21
       DEF Next, LoopSteps, Takes, Sends, FileSteps, Chunks

\* The variables keep their types.
THEOREM TypeCorrect == Spec => []TypeOK
  BY InitTypes, NextTypes, PTL DEF Spec

-----------------------------------------------------------------------------
(* BackupKnown.  The backup file is left from an earlier process only while the *)
(* writer is down, and the file writer has none.                                *)

BackupInv ==
    /\ BackupKnown
    /\ loop = "starting" => backup = {}
    /\ kind = "file" => backup = {} /\ loop \notin {"sending", "backup"}
    /\ loop = "backup" => hasBackup

\* Every step keeps BackupInv.
LEMMA BackupStep == TypeOK /\ BackupInv /\ [Next]_vars => BackupInv'
  <1> SUFFICES ASSUME TypeOK, BackupInv, [Next]_vars PROVE BackupInv'
    OBVIOUS
  <1> USE DEF BackupInv, BackupKnown
  <1>1. CASE New
    <2>1. backup' = {} \/ (kind = "file" /\ UNCHANGED backup)
      BY <1>1, Rename DEF New, TypeOK
    <2> QED
      BY <1>1, <2>1 DEF New, memory
  <1>2. CASE SendOk
    <2>1. (hasBackup => backup' = {}) /\ (backup' = {} \/ UNCHANGED backup)
      BY <1>2, Rename DEF SendOk, TypeOK
    <2> QED
      BY <1>2, <2>1 DEF SendOk
  <1>3. CASE SendFails
    BY <1>3 DEF SendFails
  <1>4. ASSUME NEW c \in Cdrs, BackUpOne(c) PROVE BackupInv'
    BY <1>4 DEF BackUpOne
  <1>5. ASSUME NEW c \in Cdrs, BigQueryTake(c) \/ ElasticTake(c) \/ FileTake(c) PROVE BackupInv'
    BY <1>5 DEF BigQueryTake, ElasticTake, FileTake, Receive
  <1>6. CASE Start \/ Wake \/ Drained \/ FinalSendOk \/ FinalSendFails
    BY <1>6 DEF Start, Wake, Drained, FinalSendOk, FinalSendFails, EndLoop, memory
  <1>7. CASE FileSteps \/ Chunks
    <2>1. UNCHANGED <<kind, memory, loop, backup>>
      BY <1>7 DEF FileSteps, Chunks, PickFile, RemoveFile, ChunkOk, ChunkFails, Processor
    <2> QED
      BY <2>1 DEF memory
  <1>8. CASE Stop \/ Close \/ Tick \/ UNCHANGED vars
    BY <1>8 DEF Stop, Close, Tick, vars, memory
  <1>9. ASSUME NEW c \in Cdrs, WriteRadiusCDR(c) PROVE BackupInv'
    BY <1>9 DEF WriteRadiusCDR
  <1> QED
    BY <1>1, <1>2, <1>3, <1>4, <1>5, <1>6, <1>7, <1>8, <1>9
       DEF Next, LoopSteps, Takes, Sends

\* The event loop knows of what is in the backup file, whatever order of failures, stops and
\* starts there was: hasBackup is set before anything is written to it.
THEOREM BackupFileKnown == Spec => []BackupKnown
  <1>1. Init => BackupInv
    BY DEF Init, BackupInv, BackupKnown
  <1>2. BackupInv => BackupKnown
    BY DEF BackupInv
  <1> QED
    BY <1>1, <1>2, BackupStep, TypeCorrect, PTL DEF Spec

-----------------------------------------------------------------------------
(* The refinement of CdrDelivery.  What the goroutine of the files has sent of  *)
(* its file is delivered, so that nothing is lost with the file.                *)

\* Where a CDR can be found while the process runs.
Held == queued \cup batch \cup backup \cup InFiles

KeptInv ==
    /\ Held \subseteq accepted /\ Delivered \subseteq accepted
    /\ slot # 0 => /\ files[slot] # {} /\ left \subseteq files[slot]
                   /\ files[slot] \subseteq left \cup Delivered

\* The CDRs in the files, before and after a step.
LEMMA Filed ==
    /\ \A c : c \in InFiles <=> \E i \in Slots : c \in files[i]
    /\ \A c : c \in InFiles' <=> \E i \in Slots : c \in files'[i]
    /\ UNCHANGED files => InFiles' = InFiles
  BY DEF InFiles, Slots

\* What leaves the backup file is in a new file, and the other files stay.
LEMMA Renamed ==
    ASSUME TypeOK, NEW cond, RenameBackup(cond)
    PROVE  /\ backup' \cup InFiles' = backup \cup InFiles
           /\ \A i \in Slots : files[i] # {} => files'[i] = files[i]
  <1>1. CASE UNCHANGED <<files, backup>>
    BY <1>1, Filed
  <1>2. ASSUME backup' = {}, NEW i \in Slots, files[i] = {}, files' = [files EXCEPT ![i] = backup]
        PROVE  /\ backup' \cup InFiles' = backup \cup InFiles
               /\ \A j \in Slots : files[j] # {} => files'[j] = files[j]
    <2>1. /\ files'[i] = backup
          /\ \A j \in Slots : j # i => files'[j] = files[j]
      BY <1>2 DEF TypeOK
    <2>2. InFiles' = backup \cup InFiles
      BY <1>2, <2>1, Filed
    <2> QED
      BY <1>2, <2>1, <2>2
  <1> QED
    BY <1>1, <1>2, Rename DEF TypeOK

\* Every step keeps KeptInv.
LEMMA KeptStep == TypeOK /\ KeptInv /\ [Next]_vars => KeptInv'
  <1> SUFFICES ASSUME TypeOK, KeptInv, [Next]_vars PROVE KeptInv'
    OBVIOUS
  <1> USE DEF KeptInv, Held
  <1>0. UNCHANGED copies => Delivered' = Delivered
    BY DEF Delivered
  <1>1. CASE New
    <2>1. /\ backup' \cup InFiles' = backup \cup InFiles
          /\ \A i \in Slots : files[i] # {} => files'[i] = files[i]
      BY <1>1, Renamed DEF New
    <2> QED
      BY <1>0, <1>1, <2>1 DEF New, memory, processor, TypeOK
  <1>2. CASE Start \/ Wake \/ Drained \/ Close \/ Tick \/ UNCHANGED vars
    <2>1. UNCHANGED <<accepted, queued, batch, backup, files, slot, left, copies>>
      BY <1>2 DEF Start, Wake, Drained, Close, Tick, vars, memory, processor
    <2> QED
      BY <1>0, <2>1, Filed
  <1>3. CASE FinalSendOk
    <2>1. Delivered' = Delivered \cup batch
      BY <1>3, Insert DEF FinalSendOk, TypeOK
    <2> QED
      BY <1>3, <2>1, Filed DEF FinalSendOk, EndLoop, processor
  <1>4. CASE FinalSendFails
    <2>1. Delivered \subseteq Delivered' /\ Delivered' \subseteq Delivered \cup batch
      BY <1>4, PartlyInserts DEF FinalSendFails, TypeOK
    <2> QED
      BY <1>4, <2>1, Filed DEF FinalSendFails, EndLoop, processor
  <1>5. ASSUME NEW c \in Cdrs, BackUpOne(c) PROVE KeptInv'
    BY <1>0, <1>5, Filed DEF BackUpOne, processor
  <1>6. ASSUME NEW c \in Cdrs, BigQueryTake(c) \/ ElasticTake(c) PROVE KeptInv'
    BY <1>0, <1>6, Filed DEF BigQueryTake, ElasticTake, Receive, processor
  <1>7. ASSUME NEW c \in Cdrs, FileTake(c) PROVE KeptInv'
    <2>1. Delivered' = Delivered \cup {c}
      BY <1>7, Insert DEF FileTake, TypeOK
    <2> QED
      BY <1>7, <2>1, Filed DEF FileTake, Receive, processor
  <1>8. CASE SendOk
    <2>1. Delivered' = Delivered \cup batch
      BY <1>8, Insert DEF SendOk, TypeOK
    <2>2. /\ backup' \cup InFiles' = backup \cup InFiles
          /\ \A i \in Slots : files[i] # {} => files'[i] = files[i]
      BY <1>8, Renamed DEF SendOk
    <2> QED
      BY <1>8, <2>1, <2>2 DEF SendOk, processor, TypeOK
  <1>9. CASE SendFails
    <2>1. Delivered \subseteq Delivered' /\ Delivered' \subseteq Delivered \cup batch
      BY <1>9, PartlyInserts DEF SendFails, TypeOK
    <2> QED
      BY <1>9, <2>1, Filed DEF SendFails, processor
  <1>10. CASE RemoveFile
    <2>1. InFiles' \subseteq InFiles
      BY <1>10, Filed DEF RemoveFile, TypeOK
    <2> QED
      BY <1>0, <1>10, <2>1 DEF RemoveFile, Processor, memory
  <1>11. ASSUME NEW i \in Slots, PickFile(i) PROVE KeptInv'
    BY <1>0, <1>11, Filed DEF PickFile, Processor, memory
  <1>12. ASSUME NEW S \in SUBSET left, ChunkOk(S) PROVE KeptInv'
    <2>1. Delivered' = Delivered \cup S
      BY <1>12, Insert DEF ChunkOk, TypeOK
    <2>2. slot \in Slots /\ left \subseteq InFiles
      BY <1>12, Filed DEF ChunkOk, TypeOK
    <2> QED
      BY <1>12, <2>1, <2>2, Filed DEF ChunkOk, Processor, memory
  <1>13. ASSUME NEW S \in SUBSET left, ChunkFails(S) PROVE KeptInv'
    <2>1. Delivered \subseteq Delivered' /\ Delivered' \subseteq Delivered \cup S
      BY <1>13, PartlyInserts DEF ChunkFails, TypeOK
    <2>2. slot \in Slots /\ left \subseteq InFiles
      BY <1>13, Filed DEF ChunkFails, TypeOK
    <2> QED
      BY <1>13, <2>1, <2>2, Filed DEF ChunkFails, Processor, memory
  <1>14. CASE Stop
    BY <1>0, <1>14, Filed DEF Stop
  <1>15. ASSUME NEW c \in Cdrs, WriteRadiusCDR(c) PROVE KeptInv'
    BY <1>0, <1>15, Filed DEF WriteRadiusCDR, processor
  <1> QED
    BY <1>1, <1>2, <1>3, <1>4, <1>5, <1>6, <1>7, <1>8, <1>9, <1>10, <1>11, <1>12, <1>13,
       <1>14, <1>15 DEF Next, LoopSteps, Takes, Sends, FileSteps, Chunks

\* CDRs change their place or are delivered, and none disappears: a Deliver of CdrDelivery.
Moves ==
    /\ accepted' = accepted
    /\ Kept \subseteq Kept' \cup Delivered' /\ Kept' \subseteq Kept
    /\ Delivered \subseteq Delivered' /\ Delivered' \subseteq Delivered \cup Kept

\* CDRs may disappear, and what was lost stays so: a Lose of CdrDelivery.
Drops ==
    /\ mishap' = TRUE
    /\ accepted \subseteq accepted' /\ accepted' \subseteq Cdrs
    /\ Delivered \subseteq Delivered' /\ Delivered' \subseteq accepted'
    /\ Kept' \cup Delivered' \subseteq Kept \cup Delivered \cup (accepted' \ accepted)

\* A step that moves CDRs is a step of CdrDelivery.
LEMMA MovesDeliver ==
    ASSUME KeptInv, Moves PROVE Delivery!Next
  <1>1. Lost' = Lost
    BY DEF Moves, Lost
  <1>2. Delivered' \subseteq accepted \ Lost
    BY DEF Moves, Lost, KeptInv, Held, Kept
  <1> QED
    BY <1>1, <1>2 DEF Moves, Delivery!Next, Delivery!Deliver

\* So is a step that drops some.
LEMMA DropsLose ==
    ASSUME Drops PROVE Delivery!Next
  <1>1. Lost \subseteq Lost' /\ Lost' \subseteq accepted' /\ Lost' \cap Delivered' = {}
    BY DEF Drops, Lost
  <1> QED
    BY <1>1 DEF Drops, Delivery!Next, Delivery!Lose

\* Every step of the writer is one of CdrDelivery.
LEMMA DeliveryStep == TypeOK /\ KeptInv /\ [Next]_vars => [Delivery!Next]_(Delivery!vars)
  <1> SUFFICES ASSUME TypeOK, KeptInv, [Next]_vars PROVE Delivery!Next \/ UNCHANGED (Delivery!vars)
    OBVIOUS
  <1> USE MovesDeliver, DropsLose DEF Kept, Ended
  <1>0. UNCHANGED copies => Delivered' = Delivered
    BY DEF Delivered
  <1>1. CASE New
    <2>1. backup' \cup InFiles' = backup \cup InFiles
      BY <1>1, Renamed DEF New
    <2>2. Moves
      BY <1>0, <1>1, <2>1 DEF New, memory, Moves
    <2> QED
      BY <2>2
  <1>2. CASE Start \/ Wake \/ Drained \/ Close \/ Tick
    <2>1. UNCHANGED <<accepted, queued, batch, backup, files, copies>>
      BY <1>2 DEF Start, Wake, Drained, Close, Tick, memory
    <2>2. (IF Ended THEN {} ELSE queued)' = IF Ended THEN {} ELSE queued
      BY <1>2 DEF Start, Wake, Drained, Close, Tick, memory
    <2>3. Moves
      BY <1>0, <2>1, <2>2, Filed DEF Moves
    <2> QED
      BY <2>3
  <1>3. CASE FinalSendOk
    <2>1. Delivered' = Delivered \cup batch
      BY <1>3, Insert DEF FinalSendOk, TypeOK
    <2>2. Moves
      BY <1>3, <2>1, Filed DEF FinalSendOk, EndLoop, Moves
    <2> QED
      BY <2>2
  <1>4. CASE FinalSendFails
    <2>1. Delivered \subseteq Delivered' /\ Delivered' \subseteq Delivered \cup batch
      BY <1>4, PartlyInserts DEF FinalSendFails, TypeOK
    <2>2. Drops
      BY <1>4, <2>1, Filed DEF FinalSendFails, EndLoop, Drops, KeptInv, Held, TypeOK
    <2> QED
      BY <2>2
  <1>5. ASSUME NEW c \in Cdrs, BackUpOne(c) PROVE Delivery!Next
    <2>1. Moves
      BY <1>0, <1>5, Filed DEF BackUpOne, Moves
    <2> QED
      BY <2>1
  <1>6. ASSUME NEW c \in Cdrs, BigQueryTake(c) PROVE Delivery!Next
    <2>1. Moves
      BY <1>0, <1>6, Filed DEF BigQueryTake, Receive, Moves
    <2> QED
      BY <2>1
  <1>7. ASSUME NEW c \in Cdrs, ElasticTake(c) PROVE Delivery!Next
    <2>1. Drops
      BY <1>0, <1>7, Filed DEF ElasticTake, Receive, Drops, KeptInv, Held, TypeOK
    <2> QED
      BY <2>1
  <1>8. ASSUME NEW c \in Cdrs, FileTake(c) PROVE Delivery!Next
    <2>1. Delivered' = Delivered \cup {c}
      BY <1>8, Insert DEF FileTake, TypeOK
    <2>2. Moves
      BY <1>8, <2>1, Filed DEF FileTake, Receive, Moves
    <2> QED
      BY <2>2
  <1>9. CASE SendOk
    <2>1. Delivered' = Delivered \cup batch
      BY <1>9, Insert DEF SendOk, TypeOK
    <2>2. backup' \cup InFiles' = backup \cup InFiles
      BY <1>9, Renamed DEF SendOk
    <2>3. Moves
      BY <1>9, <2>1, <2>2 DEF SendOk, Moves
    <2> QED
      BY <2>3
  <1>10. CASE SendFails
    <2>1. Delivered \subseteq Delivered' /\ Delivered' \subseteq Delivered \cup batch
      BY <1>10, PartlyInserts DEF SendFails, TypeOK
    <2>2. Moves
      BY <1>10, <2>1, Filed DEF SendFails, Moves
    <2> QED
      BY <2>2
  <1>11. CASE RemoveFile
    <2>1. InFiles' \subseteq InFiles /\ InFiles \subseteq InFiles' \cup Delivered
      BY <1>11, Filed DEF RemoveFile, TypeOK, KeptInv
    <2>2. Moves
      BY <1>0, <1>11, <2>1 DEF RemoveFile, Processor, memory, Moves
    <2> QED
      BY <2>2
  <1>12. ASSUME NEW i \in Slots, PickFile(i) PROVE Delivery!Next
    <2>1. Moves
      BY <1>0, <1>12, Filed DEF PickFile, Processor, memory, Moves
    <2> QED
      BY <2>1
  <1>13. ASSUME NEW S \in SUBSET left, ChunkOk(S) \/ ChunkFails(S) PROVE Delivery!Next
    <2>1. Delivered \subseteq Delivered' /\ Delivered' \subseteq Delivered \cup S
      BY <1>13, Insert, PartlyInserts DEF ChunkOk, ChunkFails, TypeOK
    <2>2. left \subseteq InFiles
      BY <1>13, Filed DEF ChunkOk, ChunkFails, TypeOK, KeptInv
    <2>3. Moves
      BY <1>13, <2>1, <2>2, Filed DEF ChunkOk, ChunkFails, Processor, memory, Moves
    <2> QED
      BY <2>3
  <1>14. CASE Stop
    <2>1. Drops
      BY <1>0, <1>14, Filed DEF Stop, Drops, KeptInv, TypeOK
    <2> QED
      BY <2>1
  <1>15. ASSUME NEW c \in Cdrs, WriteRadiusCDR(c), Ended PROVE Delivery!Next
    <2>1. Drops
      BY <1>0, <1>15, Filed DEF WriteRadiusCDR, Drops, KeptInv, TypeOK
    <2> QED
      BY <2>1
  <1>16. ASSUME NEW c \in Cdrs, WriteRadiusCDR(c), ~Ended PROVE Delivery!Next
    <2>1. Lost' = Lost
      BY <1>0, <1>16, Filed DEF WriteRadiusCDR, Lost
    <2> QED
      BY <1>0, <1>16, <2>1 DEF WriteRadiusCDR, Delivery!Next, Delivery!Accept
  <1>17. CASE UNCHANGED vars
    <2>1. Lost' = Lost
      BY <1>0, <1>17, Filed DEF vars, memory, Lost
    <2> QED
      BY <1>0, <1>17, <2>1 DEF vars, Delivery!vars
  <1> QED
    BY <1>1, <1>2, <1>3, <1>4, <1>5, <1>6, <1>7, <1>8, <1>9, <1>10, <1>11, <1>12, <1>13,
       <1>14, <1>15, <1>16, <1>17 DEF Next, LoopSteps, Takes, Sends, FileSteps, Chunks

\* The initial states are as CdrDelivery and KeptInv say.
LEMMA DeliveryInit == Init => Delivery!Init /\ KeptInv
  <1> SUFFICES ASSUME Init PROVE Delivery!Init /\ KeptInv
    OBVIOUS
  <1>1. InFiles = {} /\ Delivered = {}
    BY Filed DEF Init, Delivered
  <1>2. accepted \subseteq Cdrs /\ backup = accepted
    BY Constants DEF Init
  <1>3. Lost = {}
    BY <1>2 DEF Lost, Kept
  <1> QED
    BY <1>1, <1>2, <1>3 DEF Init, Delivery!Init, KeptInv, Held

\* The writers implement CdrDelivery: whatever the order in which the database fails, batches
\* are kept, backed up, renamed and sent again, and the process stops, a CDR that was accepted
\* is kept until it is delivered, except for the mishaps.
THEOREM WriterImplementsDelivery == Spec => ImplementsDelivery
  BY DeliveryInit, KeptStep, DeliveryStep, TypeCorrect, PTL DEF Spec, ImplementsDelivery, Delivery!Spec

-----------------------------------------------------------------------------
(* NoDuplicates.  Without faults, and with files that are sent as a whole, a    *)
(* CDR is in one place, or delivered: it is both only in the file that was sent *)
(* and is about to be removed.                                                  *)

Single == kind # "elastic" /\ faults = 0

OnePlace ==
    /\ queued \cap batch = {} /\ queued \cap backup = {} /\ batch \cap backup = {}
    /\ InFiles \cap (queued \cup batch \cup backup) = {}
    /\ \A i, j \in Slots : i # j => files[i] \cap files[j] = {}

Undelivered ==
    /\ Delivered \cap (queued \cup batch \cup backup) = {}
    /\ \A i \in Slots : i # slot => files[i] \cap Delivered = {}
    /\ slot # 0 => left \cap Delivered = {} /\ (left = {} \/ left = files[slot])

OnceInv ==
    Single => /\ \A c \in Cdrs : copies[c] <= 1
              /\ OnePlace /\ Undelivered

\* What was not delivered is inserted once.
LEMMA InsertOnce ==
    ASSUME copies \in [Cdrs -> 0..2], \A c \in Cdrs : copies[c] <= 1,
           NEW S \in SUBSET Cdrs, S \cap Delivered = {}, copies' = Inserted(S)
    PROVE  \A c \in Cdrs : copies'[c] <= 1
  BY DEF Inserted, Delivered

\* The backup file goes to an empty slot: no CDR is in two places after it.
LEMMA RenamedOnce ==
    ASSUME TypeOK, KeptInv, NEW cond, RenameBackup(cond), OnePlace, Undelivered,
           UNCHANGED <<queued, slot, left>>, batch' \subseteq batch,
           Delivered' \subseteq Delivered \cup batch, Delivered' \cap batch' = {}
    PROVE  OnePlace' /\ Undelivered'
  <1>1. CASE UNCHANGED <<files, backup>>
    BY <1>1, Filed DEF OnePlace, Undelivered, KeptInv, TypeOK
  <1>2. ASSUME backup' = {}, NEW i \in Slots, files[i] = {}, files' = [files EXCEPT ![i] = backup]
        PROVE  OnePlace' /\ Undelivered'
    <2>1. /\ files'[i] = backup
          /\ \A j \in Slots : j # i => files'[j] = files[j]
      BY <1>2 DEF TypeOK
    <2>2. i # slot
      BY <1>2, Constants DEF KeptInv
    <2>3. \A j \in Slots : files[j] \cap (queued \cup batch \cup backup) = {}
      BY Filed DEF OnePlace
    <2>4. OnePlace'
      BY <1>2, <2>1, <2>3, Filed DEF OnePlace
    <2>5. Undelivered'
      BY <1>2, <2>1, <2>2, <2>3 DEF Undelivered, OnePlace, KeptInv, TypeOK
    <2> QED
      BY <2>4, <2>5
  <1> QED
    BY <1>1, <1>2, Rename DEF TypeOK

\* Every step keeps OnceInv.
LEMMA OnceStep == TypeOK /\ KeptInv /\ OnceInv /\ [Next]_vars => OnceInv'
  <1> SUFFICES ASSUME TypeOK, KeptInv, OnceInv, [Next]_vars, Single' PROVE OnceInv'
    BY DEF OnceInv
  <1> USE DEF OnceInv
  <1>0. UNCHANGED copies => Delivered' = Delivered
    BY DEF Delivered
  <1>1. kind' = kind
    BY DEF Next, LoopSteps, Takes, Sends, FileSteps, Chunks, New, Start, Wake, Drained,
           FinalSendOk, FinalSendFails, EndLoop, BackUpOne, BigQueryTake, ElasticTake, FileTake,
           Receive, SendOk, SendFails, RemoveFile, PickFile, ChunkOk, ChunkFails, Processor,
           Stop, Close, Tick, WriteRadiusCDR, vars
  <1>2. CASE New
    <2>1. Single /\ UNCHANGED <<queued, batch, slot, left, copies>>
      BY <1>1, <1>2 DEF New, Single, memory, processor
    <2>2. OnePlace' /\ Undelivered'
      BY <1>0, <1>2, <2>1, RenamedOnce DEF New, Undelivered
    <2> QED
      BY <2>1, <2>2
  <1>3. CASE Start \/ Wake \/ Drained \/ Close \/ Tick \/ UNCHANGED vars
    <2>1. UNCHANGED <<queued, batch, backup, files, slot, left, copies, faults>>
      BY <1>3 DEF Start, Wake, Drained, Close, Tick, vars, memory, processor
    <2> QED
      BY <1>0, <1>1, <2>1, Filed DEF Single, OnePlace, Undelivered
  <1>4. CASE FinalSendOk
    <2>1. Single /\ UNCHANGED <<queued, backup, files, slot, left>> /\ batch' = {}
      BY <1>1, <1>4 DEF FinalSendOk, EndLoop, Single, processor
    <2>2. Delivered' = Delivered \cup batch
      BY <1>4, Insert DEF FinalSendOk, TypeOK
    <2>3. \A c \in Cdrs : copies'[c] <= 1
      BY <1>4, <2>1, InsertOnce DEF FinalSendOk, TypeOK, Undelivered
    <2>4. \A j \in Slots : files[j] \cap batch = {}
      BY <2>1, Filed DEF OnePlace
    <2> QED
      BY <2>1, <2>2, <2>3, <2>4, Filed DEF OnePlace, Undelivered, KeptInv, TypeOK
  <1>5. CASE FinalSendFails
    <2>1. faults = 0 /\ UNCHANGED copies
      BY <1>5, PartlyInserts DEF FinalSendFails, TypeOK, Single
    <2>2. Single /\ UNCHANGED <<queued, backup, files, slot, left>> /\ batch' = {}
      BY <1>1, <1>5, <2>1 DEF FinalSendFails, EndLoop, Single, processor
    <2> QED
      BY <1>0, <2>1, <2>2, Filed DEF OnePlace, Undelivered
  <1>6. ASSUME NEW c \in Cdrs, BackUpOne(c) PROVE OnceInv'
    <2>1. Single /\ UNCHANGED <<queued, files, slot, left, copies>>
      BY <1>1, <1>6 DEF BackUpOne, Single, processor
    <2> QED
      BY <1>0, <1>6, <2>1, Filed DEF BackUpOne, OnePlace, Undelivered
  <1>7. ASSUME NEW c \in Cdrs, BigQueryTake(c) PROVE OnceInv'
    <2>1. Single /\ UNCHANGED <<backup, files, slot, left, copies>>
      BY <1>1, <1>7 DEF BigQueryTake, Receive, Single, processor
    <2> QED
      BY <1>0, <1>7, <2>1, Filed DEF BigQueryTake, Receive, OnePlace, Undelivered
  <1>8. ASSUME NEW c \in Cdrs, ElasticTake(c) PROVE OnceInv'
    BY <1>1, <1>8 DEF ElasticTake, Receive, Single
  <1>9. ASSUME NEW c \in Cdrs, FileTake(c) PROVE OnceInv'
    <2>1. Single /\ UNCHANGED <<batch, backup, files, slot, left>> /\ queued' = queued \ {c}
          /\ c \in queued
      BY <1>1, <1>9 DEF FileTake, Receive, Single, processor
    <2>2. Delivered' = Delivered \cup {c}
      BY <1>9, Insert DEF FileTake, TypeOK
    <2>3. {c} \cap Delivered = {}
      BY <2>1 DEF Undelivered
    <2>4. \A d \in Cdrs : copies'[d] <= 1
      BY <1>9, <2>1, <2>3, InsertOnce DEF FileTake, TypeOK
    <2>5. \A j \in Slots : c \notin files[j]
      BY <2>1, Filed DEF OnePlace
    <2> QED
      BY <2>1, <2>2, <2>4, <2>5, Filed DEF OnePlace, Undelivered, KeptInv, TypeOK
  <1>10. CASE SendOk
    <2>1. Single /\ UNCHANGED <<queued, slot, left>> /\ batch' = {}
      BY <1>1, <1>10 DEF SendOk, Single, processor
    <2>2. Delivered' = Delivered \cup batch
      BY <1>10, Insert DEF SendOk, TypeOK
    <2>3. \A c \in Cdrs : copies'[c] <= 1
      BY <1>10, <2>1, InsertOnce DEF SendOk, TypeOK, Undelivered
    <2>4. OnePlace' /\ Undelivered'
      BY <1>10, <2>1, <2>2, RenamedOnce DEF SendOk
    <2> QED
      BY <2>3, <2>4
  <1>11. CASE SendFails
    <2>1. faults = 0 /\ UNCHANGED copies
      BY <1>11, PartlyInserts DEF SendFails, TypeOK, Single
    <2>2. Single /\ UNCHANGED <<queued, batch, backup, files, slot, left>>
      BY <1>1, <1>11, <2>1 DEF SendFails, Single, processor
    <2> QED
      BY <1>0, <2>1, <2>2, Filed DEF OnePlace, Undelivered
  <1>12. CASE RemoveFile
    <2>1. Single /\ UNCHANGED <<queued, batch, backup, left, copies>> /\ slot' = 0 /\ slot \in Slots
      BY <1>1, <1>12 DEF RemoveFile, Processor, Single, memory, TypeOK
    <2>2. /\ files'[slot] = {}
          /\ \A j \in Slots : j # slot => files'[j] = files[j]
      BY <1>12, <2>1 DEF RemoveFile, TypeOK
    <2> QED
      BY <1>0, <2>1, <2>2, Filed DEF OnePlace, Undelivered
  <1>13. ASSUME NEW i \in Slots, PickFile(i) PROVE OnceInv'
    <2>1. Single /\ UNCHANGED <<queued, batch, backup, files, copies>>
      BY <1>1, <1>13 DEF PickFile, Processor, Single, memory
    <2> QED
      BY <1>0, <1>13, <2>1, Filed, Constants DEF PickFile, OnePlace, Undelivered
  <1>14. ASSUME NEW S \in SUBSET left, ChunkOk(S) PROVE OnceInv'
    <2>1. Single /\ UNCHANGED <<queued, batch, backup, files, slot>> /\ slot \in Slots
      BY <1>1, <1>14 DEF ChunkOk, Processor, Single, memory, TypeOK
    <2>2. S = left /\ left' = {} /\ left = files[slot]
      BY <1>14, <2>1 DEF ChunkOk, Chunk, Single, Undelivered
    <2>3. Delivered' = Delivered \cup left
      BY <1>14, <2>2, Insert DEF ChunkOk, TypeOK
    <2>4. \A c \in Cdrs : copies'[c] <= 1
      BY <1>14, <2>1, <2>2, InsertOnce, Constants DEF ChunkOk, TypeOK, Undelivered
    <2>5. left \subseteq InFiles
      BY <2>1, <2>2, Filed
    <2>6. OnePlace'
      BY <2>1, Filed DEF OnePlace
    <2>7. Undelivered'
      BY <2>1, <2>2, <2>3, <2>5 DEF OnePlace, Undelivered
    <2> QED
      BY <2>4, <2>6, <2>7
  <1>15. ASSUME NEW S \in SUBSET left, ChunkFails(S) PROVE OnceInv'
    <2>1. faults = 0 /\ UNCHANGED copies
      BY <1>15, PartlyInserts DEF ChunkFails, TypeOK, Single
    <2>2. Single /\ UNCHANGED <<queued, batch, backup, files>> /\ slot \in Slots
      BY <1>1, <1>15, <2>1 DEF ChunkFails, Processor, Single, memory, TypeOK
    <2>3. slot' = 0 /\ left' = {} /\ left = files[slot] /\ left \cap Delivered = {}
      BY <1>15, <2>2, Constants DEF ChunkFails, Chunk, Undelivered
    <2> QED
      BY <1>0, <2>1, <2>2, <2>3, Filed DEF OnePlace, Undelivered
  <1>16. CASE Stop
    BY <1>16 DEF Stop, Single, TypeOK
  <1>17. ASSUME NEW c \in Cdrs, WriteRadiusCDR(c) PROVE OnceInv'
    <2>1. /\ Single /\ UNCHANGED <<batch, backup, files, slot, left, copies>>
          /\ queued' = queued \cup {c} /\ c \notin accepted
      BY <1>1, <1>17 DEF WriteRadiusCDR, Single, processor
    <2>2. c \notin Held /\ c \notin Delivered
      BY <2>1 DEF KeptInv
    <2> QED
      BY <1>0, <2>1, <2>2, Filed DEF Held, OnePlace, Undelivered
  <1> QED
    BY <1>2, <1>3, <1>4, <1>5, <1>6, <1>7, <1>8, <1>9, <1>10, <1>11, <1>12, <1>13,
       <1>14, <1>15, <1>16, <1>17 DEF Next, LoopSteps, Takes, Sends, FileSteps, Chunks

\* As long as nothing stops the process or a batch half way, no CDR is inserted twice: failed
\* batches and files are sent again, and none of their CDRs is also anywhere else.
THEOREM NothingTwice == Spec => []NoDuplicates
  <1>1. Init => OnceInv
    <2> SUFFICES ASSUME Init PROVE OnceInv
      OBVIOUS
    <2>1. InFiles = {} /\ Delivered = {}
      BY Filed DEF Init, Delivered
    <2> QED
      BY <2>1 DEF Init, OnceInv, OnePlace, Undelivered
  <1>2. OnceInv => NoDuplicates
    BY DEF OnceInv, NoDuplicates, Single
  <1> QED
    BY <1>1, <1>2, DeliveryInit, KeptStep, OnceStep, TypeCorrect, PTL DEF Spec
=============================================================================
