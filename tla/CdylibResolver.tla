--------------------------- MODULE CdylibResolver ---------------------------
(***************************************************************************)
(* resolveCdylib (rift-core/src/natives/resolve.ts): processes that share  *)
(* one cache directory resolve the engine's native library.  Each looks it *)
(* up, and downloads it under a lock directory when it is not there; any   *)
(* of them may die between two file operations.                            *)
(*                                                                         *)
(* A file's content is the release it belongs to, or Corrupt; its SHA-256  *)
(* is represented by that content, so verifying is comparing.  The wait    *)
(* for another holder's download (lockPollAttempts) is given up at any     *)
(* poll.  An explicit libPath is used verbatim and never gets here.        *)
(***************************************************************************)
EXTENDS Naturals, FiniteSets

CONSTANTS
  Resolvers,   \* the processes
  Releases,    \* contents published, each with its manifest entry
  Corrupt,     \* a download that is not what its manifest entry says
  None         \* no such file

ASSUME ContentsAssumption == /\ Corrupt \notin Releases
                             /\ None \notin Releases
                             /\ None # Corrupt

VARIABLES
  \* --- the cache directory
  dest,      \* the library
  sidecar,   \* its .sha256 (Corrupt: one that does not parse)
  lock,      \* the lock directory exists
  \* --- the processes
  pc,
  tmp,       \* tmp[r]: the download of r
  sha        \* sha[r]: the digest r is to compare with

files == <<dest, sidecar, lock>>
vars  == <<files, pc, tmp, sha>>

Contents == Releases \cup {Corrupt, None}

\* From the lock taken to the lock given back.
Holding == {"recheck", "recheckData", "manifest", "artifact", "verify", "rename",
            "sidecarOpen", "sidecarWrite", "unlockReturn", "unlockThrow"}
\* The stages of a lookup: the sidecar is read, then the library.
LookupStages == {"lookup", "lookupData"}
PollStages   == {"poll", "pollData"}
Ended        == {"returned", "threw", "timedOut", "crashed"}

TypeOK ==
  /\ dest \in Contents
  /\ sidecar \in Contents
  /\ lock \in BOOLEAN
  /\ pc \in [Resolvers -> LookupStages \cup {"lock"} \cup PollStages \cup Holding \cup Ended]
  /\ tmp \in [Resolvers -> Contents]
  /\ sha \in [Resolvers -> Contents]

Init ==
  /\ dest = None
  /\ sidecar = None
  /\ lock = FALSE
  /\ pc = [r \in Resolvers |-> "lookup"]
  /\ tmp = [r \in Resolvers |-> None]
  /\ sha = [r \in Resolvers |-> None]

Holders == {r \in Resolvers : pc[r] \in Holding}
Goto(r, stage) == pc' = [pc EXCEPT ![r] = stage]

-----------------------------------------------------------------------------
(* validateCache: both files, the sidecar's digest, then the library's.    *)

\* In the first lookup, while polling, and in the recheck under the lock: what
\* a hit and a miss at this stage lead to.
Hit(stage)  == IF stage = "recheckData" THEN "unlockReturn" ELSE "returned"
Miss(stage) == CASE stage \in LookupStages -> {"lock", "threw"}   \* threw: air-gapped
                 [] stage \in PollStages   -> {"poll", "timedOut"}
                 [] OTHER                  -> {"manifest"}

ReadSidecar(r) ==
  /\ pc[r] \in {"lookup", "poll", "recheck"}
  /\ IF dest = None \/ sidecar \in {None, Corrupt}
     THEN /\ \E stage \in Miss(pc[r]) : Goto(r, stage)
          /\ UNCHANGED sha
     ELSE /\ Goto(r, CASE pc[r] = "lookup" -> "lookupData"
                       [] pc[r] = "poll"   -> "pollData"
                       [] OTHER            -> "recheckData")
          /\ sha' = [sha EXCEPT ![r] = sidecar]
  /\ UNCHANGED <<files, tmp>>

\* Bug: the digests are compared as they are written, upper and lower case.
BugReadDataAsWritten(r) ==
  /\ pc[r] \in {"lookupData", "pollData", "recheckData"}
  /\ \E stage \in Miss(pc[r]) : Goto(r, stage)
  /\ sha' = [sha EXCEPT ![r] = None]
  /\ UNCHANGED <<files, tmp>>

ReadData(r) ==
  /\ pc[r] \in {"lookupData", "pollData", "recheckData"}
  /\ IF dest = sha[r]
     THEN Goto(r, Hit(pc[r]))
     ELSE \E stage \in Miss(pc[r]) : Goto(r, stage)
  /\ sha' = [sha EXCEPT ![r] = None]
  /\ UNCHANGED <<files, tmp>>

-----------------------------------------------------------------------------
(* The lock, and the download under it.                                    *)

\* Bug: the cache is not looked at again under the lock.
BugTryLockNoRecheck(r) ==
  /\ pc[r] = "lock"
  /\ Goto(r, IF lock THEN "poll" ELSE "manifest")
  /\ lock' = TRUE
  /\ UNCHANGED <<dest, sidecar, tmp, sha>>

TryLock(r) ==
  /\ pc[r] = "lock"
  /\ Goto(r, IF lock THEN "poll" ELSE "recheck")
  /\ lock' = TRUE
  /\ UNCHANGED <<dest, sidecar, tmp, sha>>

\* The manifest has an entry for this platform, or the resolver throws.
FetchManifest(r) ==
  /\ pc[r] = "manifest"
  /\ \/ Goto(r, "artifact") /\ \E entry \in Releases : sha' = [sha EXCEPT ![r] = entry]
     \/ Goto(r, "unlockThrow") /\ UNCHANGED sha
  /\ UNCHANGED <<files, tmp>>

FetchArtifact(r) ==
  /\ pc[r] = "artifact"
  /\ \/ Goto(r, "verify") /\ \E data \in {sha[r], Corrupt} : tmp' = [tmp EXCEPT ![r] = data]
     \/ Goto(r, "unlockThrow") /\ UNCHANGED tmp
  /\ UNCHANGED <<files, sha>>

\* Bug: a download is installed without being verified.
BugVerifySkipped(r) ==
  /\ pc[r] = "verify"
  /\ Goto(r, "rename")
  /\ UNCHANGED <<files, tmp, sha>>

\* A download that does not verify is removed, as far as that is possible.
Verify(r) ==
  /\ pc[r] = "verify"
  /\ IF tmp[r] = sha[r]
     THEN Goto(r, "rename") /\ UNCHANGED tmp
     ELSE Goto(r, "unlockThrow") /\ tmp' = [tmp EXCEPT ![r] = None]
  /\ UNCHANGED <<files, sha>>

Rename(r) ==
  /\ pc[r] = "rename"
  /\ dest' = tmp[r]
  /\ tmp' = [tmp EXCEPT ![r] = None]
  /\ Goto(r, "sidecarOpen")
  /\ UNCHANGED <<sidecar, lock, sha>>

\* Writing the sidecar truncates it first.
SidecarOpen(r) ==
  /\ pc[r] = "sidecarOpen"
  /\ sidecar' = Corrupt
  /\ Goto(r, "sidecarWrite")
  /\ UNCHANGED <<dest, lock, tmp, sha>>

SidecarWrite(r) ==
  /\ pc[r] = "sidecarWrite"
  /\ sidecar' = sha[r]
  /\ sha' = [sha EXCEPT ![r] = None]
  /\ Goto(r, "unlockReturn")
  /\ UNCHANGED <<dest, lock, tmp>>

\* A file operation of the holder that throws.
WriteThrows(r) ==
  /\ pc[r] \in {"verify", "rename", "sidecarOpen", "sidecarWrite"}
  /\ Goto(r, "unlockThrow")
  /\ UNCHANGED <<files, tmp, sha>>

\* The finally block; a directory that cannot be removed is only logged.
Unlock(r) ==
  /\ \/ pc[r] = "unlockReturn" /\ Goto(r, "returned")
     \/ pc[r] = "unlockThrow" /\ Goto(r, "threw")
  /\ \/ lock' = FALSE
     \/ UNCHANGED lock
  /\ sha' = [sha EXCEPT ![r] = None]
  /\ UNCHANGED <<dest, sidecar, tmp>>

-----------------------------------------------------------------------------
(* What happens to the processes.                                          *)

Crash(r) ==
  /\ pc[r] \notin Ended
  /\ Goto(r, "crashed")
  /\ sha' = [sha EXCEPT ![r] = None]
  /\ UNCHANGED <<files, tmp>>

\* A new resolver; its temporary file has a name of its own.
Restart(r) ==
  /\ pc[r] \in Ended
  /\ Goto(r, "lookup")
  /\ tmp' = [tmp EXCEPT ![r] = None]
  /\ UNCHANGED <<files, sha>>

\* A lock that is there without a process to give it back.
Stray == lock /\ Holders = {}

\* The user does what the time-out message says.
RemoveStrayLock ==
  /\ Stray
  /\ lock' = FALSE
  /\ UNCHANGED <<dest, sidecar, pc, tmp, sha>>

-----------------------------------------------------------------------------

Step(r) == \/ ReadSidecar(r) \/ ReadData(r) \/ TryLock(r)
           \/ FetchManifest(r) \/ FetchArtifact(r) \/ Verify(r)
           \/ Rename(r) \/ SidecarOpen(r) \/ SidecarWrite(r)
           \/ WriteThrows(r) \/ Unlock(r)

Next == \/ \E r \in Resolvers : Step(r) \/ Crash(r) \/ Restart(r)
        \/ RemoveStrayLock

Spec == Init /\ [][Next]_vars

\* A process that is not killed goes on.
FairSpec == Spec /\ \A r \in Resolvers : WF_vars(Step(r))

-----------------------------------------------------------------------------
(* Safety                                                                  *)

\* The library and its sidecar agree.
Valid == dest # None /\ dest = sidecar

\* At most one process downloads, and the lock is there while it does.
LockIsExclusive == /\ \A r, s \in Holders : r = s
                   /\ Holders # {} => lock

\* The path a resolver returned holds a library that was verified against its
\* manifest entry, whoever downloaded it and whenever it died.
ReturnedIsVerified == \A r \in Resolvers : pc[r] = "returned" => dest \in Releases

\* A valid cache stays valid: nobody downloads over it, and no process dying
\* half-way tears it.
ValidForGood == [][Valid => Valid']_vars

(* Liveness                                                                *)

\* A resolver that finds a valid cache is served from it, whatever the lock.
ValidCacheServes ==
  \A r \in Resolvers : pc[r] = "lookup" /\ Valid ~> pc[r] \in {"returned", "crashed"}
=============================================================================
