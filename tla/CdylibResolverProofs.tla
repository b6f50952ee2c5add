------------------------ MODULE CdylibResolverProofs ------------------------
(***************************************************************************)
(* Theorems about CdylibResolver, for any number of processes, published   *)
(* contents and crashes.                                                   *)
(***************************************************************************)
EXTENDS CdylibResolver, TLAPS

Stages == LookupStages \cup {"lock"} \cup PollStages \cup Holding \cup Ended

LEMMA ContentsFacts == /\ Releases \subseteq Contents
                       /\ Corrupt \in Contents /\ Corrupt \notin Releases
                       /\ None \in Contents /\ None \notin Releases
                       /\ None # Corrupt
                       /\ \A x \in Contents : x \notin {None, Corrupt} => x \in Releases
BY ContentsAssumption DEF Contents

\* A step of r that goes to a stage.
LEMMA GotoTyped ==
  ASSUME TypeOK, NEW r \in Resolvers, NEW stage \in Stages, Goto(r, stage)
  PROVE  /\ pc' \in [Resolvers -> Stages]
         /\ pc'[r] = stage
         /\ \A s \in Resolvers : s # r => pc'[s] = pc[s]
BY DEF TypeOK, Goto, Stages

-----------------------------------------------------------------------------
(* Type correctness.                                                       *)

LEMMA TypeInit == Init => TypeOK
BY ContentsFacts DEF Init, TypeOK, LookupStages

LEMMA TypeStep == TypeOK /\ [Next]_vars => TypeOK'
<1> SUFFICES ASSUME TypeOK, [Next]_vars PROVE TypeOK'
  OBVIOUS
<1> USE ContentsFacts DEF TypeOK, Goto, LookupStages, PollStages, Holding, Ended, files
<1>1. ASSUME NEW r \in Resolvers, ReadSidecar(r) PROVE TypeOK'
  BY <1>1 DEF ReadSidecar, Miss
<1>2. ASSUME NEW r \in Resolvers, ReadData(r) PROVE TypeOK'
  BY <1>2 DEF ReadData, Hit, Miss
<1>3. ASSUME NEW r \in Resolvers, TryLock(r) PROVE TypeOK'
  BY <1>3 DEF TryLock
<1>4. ASSUME NEW r \in Resolvers, FetchManifest(r) PROVE TypeOK'
  BY <1>4 DEF FetchManifest
<1>5. ASSUME NEW r \in Resolvers, FetchArtifact(r) PROVE TypeOK'
  BY <1>5 DEF FetchArtifact
<1>6. ASSUME NEW r \in Resolvers, Verify(r) PROVE TypeOK'
  BY <1>6 DEF Verify
<1>7. ASSUME NEW r \in Resolvers, Rename(r) PROVE TypeOK'
  BY <1>7 DEF Rename
<1>8. ASSUME NEW r \in Resolvers, SidecarOpen(r) \/ SidecarWrite(r) PROVE TypeOK'
  BY <1>8 DEF SidecarOpen, SidecarWrite
<1>9. ASSUME NEW r \in Resolvers, WriteThrows(r) PROVE TypeOK'
  BY <1>9 DEF WriteThrows
<1>10. ASSUME NEW r \in Resolvers, Unlock(r) PROVE TypeOK'
  BY <1>10 DEF Unlock
<1>11. ASSUME NEW r \in Resolvers, Crash(r) \/ Restart(r) PROVE TypeOK'
  BY <1>11 DEF Crash, Restart
<1>12. CASE RemoveStrayLock
  BY <1>12 DEF RemoveStrayLock
<1>13. CASE UNCHANGED vars
  BY <1>13 DEF vars
<1> QED
  BY <1>1, <1>2, <1>3, <1>4, <1>5, <1>6, <1>7, <1>8, <1>9, <1>10, <1>11, <1>12, <1>13
     DEF Next, Step

\* Every variable keeps its type.
THEOREM TypeCorrect == Spec => []TypeOK
BY TypeInit, TypeStep, PTL DEF Spec

-----------------------------------------------------------------------------
(* The lock, and what is in the cache.                                     *)

\* A digest read from the sidecar, or from the manifest, is a release's.
ShaKnown ==
  \A r \in Resolvers :
    pc[r] \in {"lookupData", "pollData", "recheckData", "artifact", "verify",
               "rename", "sidecarOpen", "sidecarWrite"} => sha[r] \in Releases

\* Only a verified download is renamed into place.
TmpVerified == \A r \in Resolvers : pc[r] = "rename" => tmp[r] = sha[r]

DestVerified == dest \in Releases \cup {None}

\* Whoever has returned, or is about to, has seen the library in place.
Present == \A r \in Resolvers :
             pc[r] \in {"returned", "unlockReturn", "sidecarOpen", "sidecarWrite"}
               => dest # None

\* A sidecar that parses is that of the library: a process that dies half-way
\* leaves the sidecar of nothing, never that of another library.
SidecarTells == sidecar \in Releases => dest = sidecar

\* What the holder of the lock has seen of the cache is still so.
Holds ==
  \A r \in Resolvers :
    /\ pc[r] \in {"manifest", "artifact", "verify", "rename", "sidecarOpen", "sidecarWrite"}
         => sidecar \notin Releases
    /\ pc[r] = "recheckData" => sha[r] = sidecar
    /\ pc[r] \in {"sidecarOpen", "sidecarWrite"} => dest = sha[r]

\* The inductive invariant: exclusion keeps what the holder has seen, which
\* keeps the library and its sidecar together.
IInv == /\ TypeOK
        /\ LockIsExclusive
        /\ ShaKnown
        /\ TmpVerified
        /\ DestVerified
        /\ Present
        /\ SidecarTells
        /\ Holds

LEMMA IInvInit == Init => IInv
<1> SUFFICES ASSUME Init PROVE IInv
  OBVIOUS
<1>1. TypeOK
  BY TypeInit
<1>2. LockIsExclusive
  BY DEF Init, LockIsExclusive, Holders, Holding
<1> QED
  BY <1>1, <1>2, ContentsFacts
     DEF Init, IInv, ShaKnown, TmpVerified, DestVerified, Present, SidecarTells, Holds

\* The lock stays exclusive when a step lets nobody in, or one process in when
\* the lock is free.
LEMMA ExclusionKept ==
  ASSUME TypeOK, LockIsExclusive, NEW r \in Resolvers, NEW stage \in Stages, Goto(r, stage),
         \/ stage \notin Holding /\ (lock' = lock \/ r \in Holders)
         \/ stage \in Holding /\ lock' /\ (r \in Holders \/ ~lock)
  PROVE  LockIsExclusive'
<1>1. \A s \in Resolvers : s # r => pc'[s] = pc[s]
  BY GotoTyped
<1>2. pc'[r] = stage
  BY GotoTyped
<1>3. Holders' \subseteq Holders \cup {r}
  BY <1>1 DEF Holders
<1>4. CASE stage \notin Holding
  <2>1. Holders' \subseteq Holders \ {r}
    BY <1>1, <1>2, <1>4 DEF Holders
  <2> QED
    BY <2>1, <1>4 DEF LockIsExclusive
<1>5. CASE stage \in Holding
  <2>1. Holders' \subseteq {r}
    BY <1>3, <1>5 DEF LockIsExclusive
  <2> QED
    BY <2>1, <1>5 DEF LockIsExclusive
<1> QED
  BY <1>4, <1>5

LEMMA LockStep == TypeOK /\ LockIsExclusive /\ [Next]_vars => LockIsExclusive'
<1> SUFFICES ASSUME TypeOK, LockIsExclusive, [Next]_vars PROVE LockIsExclusive'
  OBVIOUS
<1> USE DEF Stages, LookupStages, PollStages, Holding, Ended, files
<1>0. \A s \in Resolvers : s \in Holders <=> pc[s] \in Holding
  BY DEF Holders
<1>1. ASSUME NEW r \in Resolvers, ReadSidecar(r) PROVE LockIsExclusive'
  <2>1. lock' = lock
    BY <1>1 DEF ReadSidecar
  <2>2. PICK stage \in Stages : Goto(r, stage) /\ (stage \in Holding => r \in Holders)
    BY <1>0, <1>1 DEF ReadSidecar, Miss
  <2> QED
    BY <2>1, <2>2, ExclusionKept DEF LockIsExclusive
<1>2. ASSUME NEW r \in Resolvers, ReadData(r) PROVE LockIsExclusive'
  <2>1. lock' = lock
    BY <1>2 DEF ReadData
  <2>2. PICK stage \in Stages : Goto(r, stage) /\ (stage \in Holding => r \in Holders)
    BY <1>0, <1>2 DEF ReadData, Hit, Miss
  <2> QED
    BY <2>1, <2>2, ExclusionKept DEF LockIsExclusive
<1>3. ASSUME NEW r \in Resolvers, TryLock(r) PROVE LockIsExclusive'
  BY <1>3, ExclusionKept DEF TryLock, TypeOK
<1>4. ASSUME NEW r \in Resolvers,
             \/ FetchManifest(r) \/ FetchArtifact(r) \/ Verify(r) \/ Rename(r)
             \/ SidecarOpen(r) \/ SidecarWrite(r) \/ WriteThrows(r)
      PROVE LockIsExclusive'
  <2>1. lock' = lock /\ r \in Holders
    BY <1>0, <1>4 DEF FetchManifest, FetchArtifact, Verify, Rename, SidecarOpen,
                      SidecarWrite, WriteThrows
  <2>2. PICK stage \in Stages : Goto(r, stage)
    BY <1>4 DEF FetchManifest, FetchArtifact, Verify, Rename, SidecarOpen,
                SidecarWrite, WriteThrows
  <2> QED
    BY <2>1, <2>2, ExclusionKept DEF LockIsExclusive
<1>5. ASSUME NEW r \in Resolvers, Unlock(r) PROVE LockIsExclusive'
  BY <1>0, <1>5, ExclusionKept DEF Unlock
<1>6. ASSUME NEW r \in Resolvers, Crash(r) \/ Restart(r) PROVE LockIsExclusive'
  BY <1>6, ExclusionKept DEF Crash, Restart
<1>7. CASE RemoveStrayLock
  BY <1>7 DEF RemoveStrayLock, Stray, LockIsExclusive, Holders
<1>8. CASE UNCHANGED vars
  BY <1>8 DEF vars, LockIsExclusive, Holders
<1> QED
  BY <1>1, <1>2, <1>3, <1>4, <1>5, <1>6, <1>7, <1>8 DEF Next, Step

Cache == ShaKnown /\ TmpVerified /\ DestVerified /\ Present /\ SidecarTells /\ Holds

LEMMA CacheStep == IInv /\ [Next]_vars => Cache'
<1> SUFFICES ASSUME IInv, [Next]_vars PROVE Cache'
  OBVIOUS
<1> USE ContentsFacts DEF Cache, ShaKnown, TmpVerified, DestVerified, Present, SidecarTells,
                          Holds, TypeOK, Goto, files
<1>0. TypeOK /\ Cache
  BY DEF IInv
\* Nobody but r is between the lookup under the lock and the end of it.
<1>a. ASSUME NEW r \in Resolvers, NEW s \in Resolvers, s # r, pc[r] \in Holding
      PROVE  pc[s] \notin Holding
  BY <1>a DEF IInv, LockIsExclusive, Holders
<1>1. ASSUME NEW r \in Resolvers, ReadSidecar(r) PROVE Cache'
  BY <1>0, <1>1 DEF ReadSidecar, Miss, LookupStages, PollStages
<1>2. ASSUME NEW r \in Resolvers, ReadData(r) PROVE Cache'
  BY <1>0, <1>2 DEF ReadData, Hit, Miss, LookupStages, PollStages
<1>3. ASSUME NEW r \in Resolvers, TryLock(r) PROVE Cache'
  BY <1>0, <1>3 DEF TryLock
<1>4. ASSUME NEW r \in Resolvers, FetchManifest(r) PROVE Cache'
  BY <1>0, <1>4 DEF FetchManifest
<1>5. ASSUME NEW r \in Resolvers, FetchArtifact(r) PROVE Cache'
  BY <1>0, <1>5 DEF FetchArtifact
<1>6. ASSUME NEW r \in Resolvers, Verify(r) PROVE Cache'
  BY <1>0, <1>6 DEF Verify
<1>7. ASSUME NEW r \in Resolvers, Rename(r) PROVE Cache'
  BY <1>0, <1>a, <1>7 DEF Rename, Holding
<1>8. ASSUME NEW r \in Resolvers, SidecarOpen(r) PROVE Cache'
  BY <1>0, <1>a, <1>8 DEF SidecarOpen, Holding
<1>9. ASSUME NEW r \in Resolvers, SidecarWrite(r) PROVE Cache'
  BY <1>0, <1>a, <1>9 DEF SidecarWrite, Holding
<1>10. ASSUME NEW r \in Resolvers, WriteThrows(r) PROVE Cache'
  BY <1>0, <1>10 DEF WriteThrows
<1>11. ASSUME NEW r \in Resolvers, Unlock(r) PROVE Cache'
  BY <1>0, <1>11 DEF Unlock
<1>12. ASSUME NEW r \in Resolvers, Crash(r) \/ Restart(r) PROVE Cache'
  BY <1>0, <1>12 DEF Crash, Restart, Ended
<1>13. CASE RemoveStrayLock
  BY <1>0, <1>13 DEF RemoveStrayLock
<1>14. CASE UNCHANGED vars
  BY <1>0, <1>14 DEF vars
<1> QED
  BY <1>1, <1>2, <1>3, <1>4, <1>5, <1>6, <1>7, <1>8, <1>9, <1>10, <1>11, <1>12,
     <1>13, <1>14 DEF Next, Step

LEMMA Inductive == Spec => []IInv
<1>1. IInv /\ [Next]_vars => IInv'
  BY TypeStep, LockStep, CacheStep DEF IInv, Cache
<1> QED
  BY <1>1, IInvInit, PTL DEF Spec

\* At most one process downloads, and the lock is there while it does.
THEOREM ExclusiveDownload == Spec => []LockIsExclusive
<1>1. IInv => LockIsExclusive
  BY DEF IInv
<1> QED
  BY <1>1, Inductive, PTL

\* The path a resolver returned holds a library that was verified.
THEOREM OnlyVerified == Spec => []ReturnedIsVerified
<1>1. IInv => ReturnedIsVerified
  BY DEF IInv, ReturnedIsVerified, Present, DestVerified
<1> QED
  BY <1>1, Inductive, PTL

\* A valid cache stays valid.
THEOREM ValidStays == Spec => ValidForGood
<1>1. IInv /\ [Next]_vars => [Valid => Valid']_vars
  <2> SUFFICES ASSUME IInv, [Next]_vars, Valid PROVE Valid'
    OBVIOUS
  <2>0. sidecar \in Releases
    BY ContentsFacts DEF IInv, Valid, DestVerified
  <2>1. ASSUME NEW r \in Resolvers PROVE ~Rename(r) /\ ~SidecarOpen(r) /\ ~SidecarWrite(r)
    BY <2>0, <2>1 DEF IInv, Holds, Rename, SidecarOpen, SidecarWrite
  <2>2. UNCHANGED <<dest, sidecar>>
    BY <2>1 DEF Next, Step, ReadSidecar, ReadData, TryLock, FetchManifest, FetchArtifact, Verify,
                WriteThrows, Unlock, Crash, Restart, RemoveStrayLock, vars, files
  <2> QED
    BY <2>2 DEF Valid
<1> QED
  BY <1>1, Inductive, PTL DEF Spec, ValidForGood
=============================================================================
