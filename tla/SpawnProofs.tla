----------------------------- MODULE SpawnProofs -----------------------------
(***************************************************************************)
(* Theorems about the spawn transport: BinaryResolver, for any number of   *)
(* processes and deaths, and SpawnedEngine, for any number of callers of   *)
(* close().                                                                *)
(***************************************************************************)
EXTENDS BinaryResolver, SpawnedEngine, TLAPS

-----------------------------------------------------------------------------
(* BinaryResolver.                                                         *)

Stages == Ended \cup LookingUp \cup Fetching \cup Downloading

\* Who has data to verify or to write has some; who makes the binary
\* executable has seen it or put it there, and nobody removes it.
InHand ==
  \A p \in Procs :
    /\ pc[p] \in {"verify", "open", "writing"} => data[p] \in Data
    /\ pc[p] = "chmod" => binary # NoFile

TypeInv == TypeOK /\ InHand

\* A step of p that goes to a stage.
LEMMA GotoTyped ==
  ASSUME TypeOK, NEW p \in Procs, NEW next \in Stages, Goto(p, next)
  PROVE  /\ pc' \in [Procs -> Stages]
         /\ pc'[p] = next
         /\ \A q \in Procs : q # p => pc'[q] = pc[q]
BY DEF TypeOK, Goto, Stages

\* Closing a file keeps it a file, and keeps what is in it.
LEMMA ClosedFile ==
  ASSUME NEW f \in Files, NEW p \in Procs, NEW whole \in BOOLEAN
  PROVE  /\ Closed(f, p, whole) \in Files
         /\ Closed(f, p, whole).data = f.data
         /\ f # NoFile => Closed(f, p, whole) # NoFile
<1>1. CASE f = NoFile
  BY <1>1, NobodyAssumption DEF Closed, NoFile, Files
<1>2. CASE f # NoFile
  BY <1>2 DEF Closed, NoFile, Files, Data
<1> QED
  BY <1>1, <1>2

\* A file tar starts to write holds what is in the archive.
LEMMA ExtractedFile ==
  ASSUME archive \in Archives, archive # NoArchive, keepsMode \in BOOLEAN,
         NEW p \in Procs \cup {Nobody}
  PROVE  /\ Extracted(p) \in Files
         /\ Extracted(p).data = archive.data
BY DEF Extracted, Files, Archives, NoArchive

-----------------------------------------------------------------------------
(* Type correctness.                                                       *)

LEMMA TypeInit == Init => TypeInv
BY DEF Init, TypeInv, TypeOK, InHand, Archives, Files, Ended

LEMMA TypeStep == TypeInv /\ [Next]_vars => TypeInv'
<1> SUFFICES ASSUME TypeInv, [Next]_vars PROVE TypeInv'
  OBVIOUS
<1> USE DEF TypeInv, TypeOK, InHand, Goto, Ended, LookingUp, Fetching, Downloading, OnDisk, dir, history
<1>1. ASSUME NEW p \in Procs, Resolve(p) \/ LookUpPath(p) \/ LookUpCache(p) \/ Gate(p)
      PROVE TypeInv'
  BY <1>1 DEF Resolve, LookUpPath, LookUpCache, Gate
<1>2. ASSUME NEW p \in Procs, Fetch(p) PROVE TypeInv'
  BY <1>2 DEF Fetch
<1>3. ASSUME NEW p \in Procs, Verify(p) PROVE TypeInv'
  BY <1>3 DEF Verify, Check, Refuse
<1>4. ASSUME NEW p \in Procs, OpenArchive(p) PROVE TypeInv'
  <2>1. archive' \in Archives
    BY <1>4 DEF OpenArchive, Archives, Holding
  <2> QED
    BY <1>4, <2>1 DEF OpenArchive, Others
<1>5. ASSUME NEW p \in Procs, WriteArchive(p) PROVE TypeInv'
  <2>1. pc[p] = "writing" /\ data[p] \in Data
    BY <1>5 DEF WriteArchive
  <2>2. Holding(p, TRUE) \in Archives /\ Holding(p, FALSE) \in Archives
    BY <2>1 DEF Archives, Holding
  <2>3. archive' \in {archive, Holding(p, TRUE), Holding(p, FALSE)}
    BY <1>5 DEF WriteArchive
  <2> QED
    BY <1>5, <2>2, <2>3 DEF WriteArchive
<1>6. ASSUME NEW p \in Procs, Extract(p) PROVE TypeInv'
  <2>1. archive.whole => archive # NoArchive
    BY DEF NoArchive
  <2>2. extracted' \in Files
    BY <1>6, <2>1, ExtractedFile DEF Extract
  <2> QED
    BY <1>6, <2>2 DEF Extract
<1>7. ASSUME NEW p \in Procs, ExtractEnds(p) PROVE TypeInv'
  <2>1. PICK whole \in BOOLEAN : /\ extracted' = Closed(extracted, p, whole)
                                 /\ binary' = Closed(binary, p, whole)
    BY <1>7 DEF ExtractEnds
  <2>2. /\ extracted' \in Files /\ extracted'.data = extracted.data
        /\ binary' \in Files /\ binary'.data = binary.data
        /\ binary # NoFile => binary' # NoFile
    BY <2>1, ClosedFile
  <2> QED
    BY <1>7, <2>2 DEF ExtractEnds
<1>8. ASSUME NEW p \in Procs, RemoveArchive(p) PROVE TypeInv'
  BY <1>8 DEF RemoveArchive, Archives
<1>9. ASSUME NEW p \in Procs, LookForBinary(p) PROVE TypeInv'
  BY <1>9 DEF LookForBinary
<1>10. ASSUME NEW p \in Procs, MoveBinary(p) PROVE TypeInv'
  BY <1>10 DEF MoveBinary, Files
<1>11. ASSUME NEW p \in Procs, MakeExecutable(p) PROVE TypeInv'
  <2>1. binary \in Files /\ binary # NoFile
    BY <1>11 DEF MakeExecutable
  <2>2. [binary EXCEPT !.exec = TRUE] \in Files /\ [binary EXCEPT !.exec = TRUE] # NoFile
    BY <2>1 DEF Files, NoFile, Data
  <2> QED
    BY <1>11, <2>2 DEF MakeExecutable
<1>12. ASSUME NEW p \in Procs, Dies(p) PROVE TypeInv'
  BY <1>12, ClosedFile DEF Dies
<1>13. CASE UNCHANGED vars
  BY <1>13 DEF vars
<1> QED
  BY <1>1, <1>2, <1>3, <1>4, <1>5, <1>6, <1>7, <1>8, <1>9, <1>10, <1>11, <1>12, <1>13 DEF Next

\* Every variable keeps its type, and nobody writes or finishes what it does
\* not have.
THEOREM TypeCorrect == Spec => []TypeInv
BY TypeInit, TypeStep, PTL DEF Spec

-----------------------------------------------------------------------------
(* Bytes are verified before the first of them is written.                 *)

\* Data on its way to the disk has passed the checksum, like what is there.
VerifiedBefore ==
  ~skipped => /\ NothingUnverified
              /\ \A p \in Procs : pc[p] \in {"open", "writing"} => data[p] # "bad"

LEMMA VerifiedInit == Init => VerifiedBefore
BY DEF Init, VerifiedBefore, NothingUnverified, NoArchive, NoFile

LEMMA VerifiedStep == TypeInv /\ VerifiedBefore /\ [Next]_vars => VerifiedBefore'
<1> SUFFICES ASSUME TypeInv, VerifiedBefore, [Next]_vars, ~skipped' PROVE VerifiedBefore'
  BY DEF VerifiedBefore
<1> USE DEF TypeInv, TypeOK, VerifiedBefore, NothingUnverified, Goto, Stages, dir, history
<1>1. ASSUME NEW p \in Procs, Resolve(p) \/ LookUpPath(p) \/ LookUpCache(p) \/ Gate(p)
      PROVE VerifiedBefore'
  BY <1>1 DEF Resolve, LookUpPath, LookUpCache, Gate
<1>2. ASSUME NEW p \in Procs, Fetch(p) PROVE VerifiedBefore'
  BY <1>2 DEF Fetch
<1>3. ASSUME NEW p \in Procs, Verify(p) PROVE VerifiedBefore'
  BY <1>3 DEF Verify, Check, Refuse
<1>4. ASSUME NEW p \in Procs, OpenArchive(p) PROVE VerifiedBefore'
  BY <1>4 DEF OpenArchive, Holding
<1>5. ASSUME NEW p \in Procs, WriteArchive(p) PROVE VerifiedBefore'
  <2>1. archive'.data \in {archive.data, data[p]}
    BY <1>5 DEF WriteArchive, Holding
  <2> QED
    BY <1>5, <2>1 DEF WriteArchive
<1>6. ASSUME NEW p \in Procs, Extract(p) PROVE VerifiedBefore'
  <2>1. archive.whole => archive # NoArchive
    BY DEF NoArchive
  <2>2. extracted'.data \in {extracted.data, archive.data}
    BY <1>6, <2>1, ExtractedFile DEF Extract
  <2> QED
    BY <1>6, <2>2 DEF Extract
<1>7. ASSUME NEW p \in Procs, ExtractEnds(p) PROVE VerifiedBefore'
  <2>1. PICK whole \in BOOLEAN : /\ extracted' = Closed(extracted, p, whole)
                                 /\ binary' = Closed(binary, p, whole)
    BY <1>7 DEF ExtractEnds
  <2>2. /\ extracted' \in Files /\ extracted'.data = extracted.data
        /\ binary' \in Files /\ binary'.data = binary.data
        /\ binary # NoFile => binary' # NoFile
    BY <2>1, ClosedFile
  <2> QED
    BY <1>7, <2>2 DEF ExtractEnds
<1>8. ASSUME NEW p \in Procs, RemoveArchive(p) PROVE VerifiedBefore'
  BY <1>8 DEF RemoveArchive, NoArchive
<1>9. ASSUME NEW p \in Procs, LookForBinary(p) PROVE VerifiedBefore'
  BY <1>9 DEF LookForBinary
<1>10. ASSUME NEW p \in Procs, MoveBinary(p) PROVE VerifiedBefore'
  BY <1>10 DEF MoveBinary, NoFile
<1>11. ASSUME NEW p \in Procs, MakeExecutable(p) PROVE VerifiedBefore'
  <2>1. binary'.data = binary.data
    BY <1>11 DEF MakeExecutable, Files, NoFile
  <2> QED
    BY <1>11, <2>1 DEF MakeExecutable
<1>12. ASSUME NEW p \in Procs, Dies(p) PROVE VerifiedBefore'
  BY <1>12, ClosedFile DEF Dies
<1>13. CASE UNCHANGED vars
  BY <1>13 DEF vars
<1> QED
  BY <1>1, <1>2, <1>3, <1>4, <1>5, <1>6, <1>7, <1>8, <1>9, <1>10, <1>11, <1>12, <1>13 DEF Next

\* Unless somebody opted out of the checksum, nothing that is ever in the
\* cache directory comes from an archive that is not the published one,
\* however many processes download into it and whenever they die.
THEOREM NothingUnverifiedHolds == Spec => []NothingUnverified
<1>1. VerifiedBefore => NothingUnverified
  BY DEF VerifiedBefore, NothingUnverified
<1> QED
  BY <1>1, VerifiedInit, VerifiedStep, TypeCorrect, PTL DEF Spec

-----------------------------------------------------------------------------
(* One download at a time: what is there when a process comes to a step is *)
(* what the step needs, whatever the ones before it left behind.           *)

\* A file that may be put in the binary's place.
Complete(f) == f.whole /\ f.writer = Nobody /\ (keepsMode => f.exec)

OneOnDisk == \A p, q \in Procs : pc[p] \in OnDisk /\ pc[q] \in OnDisk => p = q

\* The binary that is there was put there by somebody who had extracted all of
\* it.
BinaryComplete == binary # NoFile => Complete(binary)

\* What p has got ready for its next step.
ReadyFor(p) ==
  /\ pc[p] = "writing" => archive # NoArchive /\ p \notin shared
  /\ pc[p] \in {"extract", "extracting", "unlink"} => archive.whole
  /\ pc[p] = "extracting" => extracted.writer = p /\ (keepsMode => extracted.exec)
  /\ pc[p] \in {"unlink", "install", "rename"} => Complete(extracted)
  /\ pc[p] # "spoilt"

OneAtATime == ~raced => OneOnDisk /\ BinaryComplete /\ \A p \in Procs : ReadyFor(p)

LEMMA OneAtATimeInit == Init => OneAtATime
BY DEF Init, OneAtATime, OneOnDisk, BinaryComplete, ReadyFor, OnDisk

\* A file that another process has open, or nobody, is not p's to close.
LEMMA NotClosed ==
  ASSUME NEW f, NEW p \in Procs, NEW whole, f.writer # p
  PROVE  Closed(f, p, whole) = f
BY DEF Closed

\* A file is complete once the process that extracted it is done with it.
LEMMA ClosedComplete ==
  ASSUME NEW f \in Files, NEW p \in Procs, f.writer = p, keepsMode => f.exec
  PROVE  Complete(Closed(f, p, TRUE))
BY NobodyAssumption DEF Closed, Complete, Files, NoFile

LEMMA NoFileIncomplete == ~Complete(NoFile)
BY DEF Complete, NoFile

\* What a step of p leaves alone for the others: all of it, when they are not
\* on the disk.
LEMMA OneAtATimeStep == TypeInv /\ OneAtATime /\ [Next]_vars => OneAtATime'
<1> SUFFICES ASSUME TypeInv, OneAtATime, [Next]_vars, ~raced' PROVE OneAtATime'
  BY DEF OneAtATime
<1> USE DEF TypeInv, TypeOK, OneAtATime, OneOnDisk, BinaryComplete, ReadyFor, Goto, OnDisk, dir, history
<1>0. ~raced
  BY DEF Next, Resolve, LookUpPath, LookUpCache, Gate, Fetch, Verify, OpenArchive, WriteArchive,
         Extract, ExtractEnds, RemoveArchive, LookForBinary, MoveBinary, MakeExecutable, Dies, vars
<1>1. ASSUME NEW p \in Procs, Resolve(p) \/ LookUpPath(p) \/ LookUpCache(p) \/ Gate(p)
      PROVE OneAtATime'
  BY <1>0, <1>1 DEF Resolve, LookUpPath, LookUpCache, Gate, Complete
<1>2. ASSUME NEW p \in Procs, Fetch(p) PROVE OneAtATime'
  BY <1>0, <1>2 DEF Fetch, Complete
<1>3. ASSUME NEW p \in Procs, Verify(p) PROVE OneAtATime'
  BY <1>0, <1>3 DEF Verify, Check, Refuse, Complete
<1>4. ASSUME NEW p \in Procs, OpenArchive(p) PROVE OneAtATime'
  <2>1. \A q \in Procs : q # p => pc[q] \notin OnDisk
    BY <1>4 DEF OpenArchive, Others
  <2>2. p \notin shared' /\ archive' # NoArchive
    BY <1>4, <2>1 DEF OpenArchive, Others, Holding, NoArchive, InHand, Data
  <2>3. /\ pc' = [pc EXCEPT ![p] = "writing"]
        /\ UNCHANGED <<extracted, binary, keepsMode>>
    BY <1>4 DEF OpenArchive
  <2>4. ASSUME NEW q \in Procs PROVE ReadyFor(q)'
    BY <1>0, <2>1, <2>2, <2>3, <2>4 DEF Complete
  <2>5. OneOnDisk' /\ BinaryComplete'
    BY <1>0, <2>1, <2>3 DEF Complete
  <2> QED
    BY <2>4, <2>5
<1>5. ASSUME NEW p \in Procs, WriteArchive(p) PROVE OneAtATime'
  <2>1. archive'.whole
    BY <1>0, <1>5 DEF WriteArchive, Holding
  <2> QED
    BY <1>0, <1>5, <2>1 DEF WriteArchive, Complete
<1>6. ASSUME NEW p \in Procs, Extract(p) PROVE OneAtATime'
  <2>1. extracted' = Extracted(p) /\ pc' = [pc EXCEPT ![p] = "extracting"]
    BY <1>0, <1>6 DEF Extract
  <2> QED
    BY <1>0, <1>6, <2>1 DEF Extract, Extracted, Complete
<1>7. ASSUME NEW p \in Procs, ExtractEnds(p) PROVE OneAtATime'
  <2>1. pc[p] = "extracting" /\ archive.whole
    BY <1>0, <1>7 DEF ExtractEnds
  <2>2. extracted' = Closed(extracted, p, TRUE) /\ pc' = [pc EXCEPT ![p] = "unlink"]
        /\ binary' = Closed(binary, p, TRUE)
    BY <1>7, <2>1 DEF ExtractEnds
  <2>3. Complete(extracted')
    BY <1>0, <2>1, <2>2, ClosedComplete
  <2>4. binary.writer # p
    BY <1>0, NobodyAssumption DEF Complete, NoFile
  <2>5. binary' = binary
    BY <2>2, <2>4, NotClosed
  <2> QED
    BY <1>0, <1>7, <2>1, <2>2, <2>3, <2>5 DEF ExtractEnds, Complete
<1>8. ASSUME NEW p \in Procs, RemoveArchive(p) PROVE OneAtATime'
  <2>1. archive # NoArchive
    BY <1>0, <1>8 DEF RemoveArchive, NoArchive
  <2> QED
    BY <1>0, <1>8, <2>1 DEF RemoveArchive, Complete
<1>9. ASSUME NEW p \in Procs, LookForBinary(p) PROVE OneAtATime'
  <2>1. extracted # NoFile
    BY <1>0, <1>9, NoFileIncomplete DEF LookForBinary
  <2> QED
    BY <1>0, <1>9, <2>1 DEF LookForBinary, Complete
<1>10. ASSUME NEW p \in Procs, MoveBinary(p) PROVE OneAtATime'
  <2>1. extracted # NoFile
    BY <1>0, <1>10, NoFileIncomplete DEF MoveBinary
  <2> QED
    BY <1>0, <1>10, <2>1 DEF MoveBinary, Complete
<1>11. ASSUME NEW p \in Procs, MakeExecutable(p) PROVE OneAtATime'
  <2>1. binary \in Files /\ binary # NoFile
    BY <1>11 DEF MakeExecutable, InHand
  <2>2. Complete(binary)'
    BY <1>0, <1>11, <2>1 DEF MakeExecutable, Files, Complete
  <2> QED
    BY <1>0, <1>11, <2>1, <2>2 DEF MakeExecutable, Complete
<1>12. ASSUME NEW p \in Procs, Dies(p) PROVE OneAtATime'
  <2>1. binary.writer # p
    BY <1>0, NobodyAssumption DEF Complete, NoFile
  <2>2. binary' = binary
    BY <1>12, <2>1, NotClosed DEF Dies
  <2>3. ASSUME NEW q \in Procs, q # p, pc[q] \in {"extracting", "unlink", "install", "rename"}
        PROVE  extracted' = extracted
    <3>1. extracted.writer # p
      BY <1>0, <2>3, NobodyAssumption DEF Complete
    <3> QED
      BY <1>12, <3>1, NotClosed DEF Dies
  <2>4. pc' = [pc EXCEPT ![p] = "ended"] /\ UNCHANGED <<archive, keepsMode>> /\ shared' = shared \ {p}
    BY <1>12 DEF Dies
  <2>5. ASSUME NEW q \in Procs PROVE ReadyFor(q)'
    BY <1>0, <2>3, <2>4, <2>5 DEF Complete
  <2> QED
    BY <1>0, <2>2, <2>4, <2>5 DEF Complete
<1>13. CASE UNCHANGED vars
  BY <1>0, <1>13 DEF vars, Complete
<1> QED
  BY <1>1, <1>2, <1>3, <1>4, <1>5, <1>6, <1>7, <1>8, <1>9, <1>10, <1>11, <1>12, <1>13 DEF Next

LEMMA OneAtATimeInv == Spec => []OneAtATime
BY OneAtATimeInit, OneAtATimeStep, TypeCorrect, PTL DEF Spec

\* A download that nobody else's comes between never fails on what an earlier
\* one left behind, wherever that one died.
THEOREM LeftoversDoNoHarmHolds == Spec => []LeftoversDoNoHarm
<1>1. OneAtATime => LeftoversDoNoHarm
  BY DEF OneAtATime, ReadyFor, LeftoversDoNoHarm
<1> QED
  BY <1>1, OneAtATimeInv, PTL

\* As long as no two downloads overlap, a path that is returned leads to a whole
\* binary, and to an executable one unless the release does not keep the mode.
THEOREM ReturnedRunsHolds == Spec => ReturnedRuns
<1> DEFINE A == \A p \in Procs : ~raced /\ pc'[p] = "returned" /\ pc[p] # "returned" =>
                  /\ binary'.whole
                  /\ (pc[p] = "cache" /\ ~keepsMode) \/ binary'.exec
<1>1. TypeInv /\ OneAtATime /\ [Next]_vars => [A]_vars
  <2> SUFFICES ASSUME TypeInv, OneAtATime, Next,
                      NEW p \in Procs, ~raced, pc'[p] = "returned", pc[p] # "returned"
               PROVE  binary'.whole /\ ((pc[p] = "cache" /\ ~keepsMode) \/ binary'.exec)
    OBVIOUS
  <2>1. PICK q \in Procs :
          \/ Resolve(q) \/ LookUpPath(q) \/ LookUpCache(q) \/ Gate(q)
          \/ Fetch(q) \/ Verify(q) \/ OpenArchive(q) \/ WriteArchive(q)
          \/ Extract(q) \/ ExtractEnds(q) \/ RemoveArchive(q)
          \/ LookForBinary(q) \/ MoveBinary(q) \/ MakeExecutable(q) \/ Dies(q)
    BY DEF Next
  <2>2. pc \in [Procs -> Stages]
    BY DEF TypeInv, TypeOK, Stages
  <2>3. p = q /\ (LookUpCache(q) \/ MakeExecutable(q))
    BY <2>1, <2>2 DEF Goto, Resolve, LookUpPath, LookUpCache, Gate, Fetch, Verify, Check, Refuse,
         OpenArchive, WriteArchive, Extract, ExtractEnds, RemoveArchive, LookForBinary, MoveBinary,
         MakeExecutable, Dies
  <2>4. BinaryComplete
    BY DEF OneAtATime
  <2>5. CASE LookUpCache(p)
    BY <2>2, <2>4, <2>5 DEF LookUpCache, Goto, BinaryComplete, Complete, dir
  <2>6. CASE MakeExecutable(p)
    <3>1. binary \in Files /\ binary # NoFile
      BY <2>6 DEF MakeExecutable, TypeInv, TypeOK, InHand
    <3> QED
      BY <2>4, <2>6, <3>1 DEF MakeExecutable, BinaryComplete, Complete, Files
  <2> QED
    BY <2>3, <2>5, <2>6
<1> QED
  BY <1>1, OneAtATimeInv, TypeCorrect, PTL DEF Spec, ReturnedRuns

-----------------------------------------------------------------------------
(* SpawnedEngine.                                                          *)

\* Before the fork there is no child, and a child that is not there has not
\* exited.
NoChildYet == stage = "gates" => child = "none" /\ ~exitSeen

\* A close() that waits does so on an open engine, for an exit still to come:
\* its timer and the exit event each end the wait.
WaitsForExit == \A c \in Closers : closer[c] = "waiting" => stage = "open" /\ ~exitSeen

\* The inductive invariant.
SpawnInv == /\ SpawnTypeOK
            /\ NoChildYet
            /\ WaitsForExit
            /\ NoOrphanAfterThrow
            /\ StoppedMeansStopped

LEMMA SpawnInvInit == SpawnInit => SpawnInv
BY DEF SpawnInit, SpawnInv, SpawnTypeOK, NoChildYet, WaitsForExit, NoOrphanAfterThrow, StoppedMeansStopped

LEMMA SpawnInvStep == SpawnInv /\ [SpawnNext]_spawnVars => SpawnInv'
<1> SUFFICES ASSUME SpawnInv, [SpawnNext]_spawnVars PROVE SpawnInv'
  OBVIOUS
<1> USE DEF SpawnInv, SpawnTypeOK, NoChildYet, WaitsForExit, NoOrphanAfterThrow, StoppedMeansStopped,
            Alive, hostVars, childVars
<1>1. CASE RefuseSpawn
  BY <1>1 DEF RefuseSpawn
<1>2. CASE Fork
  BY <1>2 DEF Fork
<1>3. CASE AdminAnswers
  BY <1>3 DEF AdminAnswers
<1>4. CASE StartupFails
  BY <1>4 DEF StartupFails
<1>5. ASSUME NEW c \in Closers, CloseReturns(c) PROVE SpawnInv'
  BY <1>5 DEF CloseReturns
<1>6. ASSUME NEW c \in Closers, CloseSignals(c) PROVE SpawnInv'
  BY <1>6 DEF CloseSignals
<1>7. ASSUME NEW c \in Closers, ShutdownTimesOut(c) PROVE SpawnInv'
  BY <1>7 DEF ShutdownTimesOut
<1>8. CASE ExitEvent
  BY <1>8 DEF ExitEvent
<1>9. CASE ChildListens
  BY <1>9 DEF ChildListens
<1>10. CASE ChildExits
  BY <1>10 DEF ChildExits
<1>11. CASE ChildKilled
  BY <1>11 DEF ChildKilled
<1>12. CASE UNCHANGED spawnVars
  BY <1>12 DEF spawnVars
<1> QED
  BY <1>1, <1>2, <1>3, <1>4, <1>5, <1>6, <1>7, <1>8, <1>9, <1>10, <1>11, <1>12
     DEF SpawnNext, Startup, Close, Over

LEMMA SpawnInductive == SpawnSpec => []SpawnInv
BY SpawnInvInit, SpawnInvStep, PTL DEF SpawnSpec

\* Every variable keeps its type.
THEOREM SpawnTypeCorrect == SpawnSpec => []SpawnTypeOK
<1>1. SpawnInv => SpawnTypeOK
  BY DEF SpawnInv
<1> QED
  BY <1>1, SpawnInductive, PTL

\* When spawn() throws, its child has exited or is being killed.
THEOREM NoOrphan == SpawnSpec => []NoOrphanAfterThrow
<1>1. SpawnInv => NoOrphanAfterThrow
  BY DEF SpawnInv
<1> QED
  BY <1>1, SpawnInductive, PTL

\* A close() that waited is over once the child has exited or has been sent
\* SIGKILL.
THEOREM CloseStops == SpawnSpec => []StoppedMeansStopped
<1>1. SpawnInv => StoppedMeansStopped
  BY DEF SpawnInv
<1> QED
  BY <1>1, SpawnInductive, PTL

\* close() signals no process that is known to have exited.
THEOREM TheDeadRest == SpawnSpec => NoSignalToTheDead
<1>1. SpawnInv /\ [SpawnNext]_spawnVars => [stage = "open" /\ (term' # term \/ kill' # kill) => ~exitSeen]_spawnVars
  <2> SUFFICES ASSUME SpawnInv, [SpawnNext]_spawnVars, stage = "open", term' # term \/ kill' # kill
               PROVE  ~exitSeen
    OBVIOUS
  <2> USE DEF SpawnInv, WaitsForExit
  <2>1. ASSUME NEW c \in Closers, Close(c) \/ ShutdownTimesOut(c) PROVE ~exitSeen
    BY <2>1 DEF Close, CloseReturns, CloseSignals, ShutdownTimesOut, childVars
  <2>2. CASE Startup
    BY <2>2 DEF Startup, RefuseSpawn, Fork, AdminAnswers, StartupFails
  <2>3. CASE ExitEvent
    BY <2>3 DEF ExitEvent
  <2>4. ~(ChildListens \/ ChildExits \/ ChildKilled \/ Over \/ UNCHANGED spawnVars)
    BY DEF ChildListens, ChildExits, ChildKilled, Over, spawnVars, childVars
  <2> QED
    BY <2>1, <2>2, <2>3, <2>4 DEF SpawnNext
<1> QED
  BY <1>1, SpawnInductive, PTL DEF SpawnSpec, NoSignalToTheDead
=============================================================================
