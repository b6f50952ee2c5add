--------------------------- MODULE BinaryResolver ---------------------------
(***************************************************************************)
(* resolveBinary (rift-core/src/spawn/resolve.ts) and its wrappers         *)
(* findBinary and downloadBinary (rift-core/src/binary.ts): processes that *)
(* share one cache directory look for the engine's binary, and download it *)
(* into that directory, without a lock, when they do not find it.  Any of  *)
(* them may die between two file operations and start again.               *)
(*                                                                         *)
(* One version, whose release keeps the binary in a directory of its own   *)
(* (the layout since v0.12.0).  Data is what the published checksum says   *)
(* ("good") or not ("bad"); a file is whole or not.  An open file follows  *)
(* its inode: a binary that is renamed while it is extracted goes on being *)
(* written at its new place.  The disk has room.                           *)
(***************************************************************************)
EXTENDS Naturals

CONSTANTS
  Procs,    \* the processes
  Nobody    \* no process

ASSUME NobodyAssumption == Nobody \notin Procs

VARIABLES
  \* --- the cache directory
  archive,    \* archive.tar.gz or archive.zip
  extracted,  \* the binary where the archive puts it
  binary,     \* the binary at its place in the cache
  keepsMode,  \* extracting keeps the mode the binary has in the archive
  \* --- the processes
  pc,
  data,       \* data[p]: what p has downloaded
  shared,     \* those whose archive was opened by another while they wrote it
  \* --- history
  raced,      \* two processes were downloading at a time
  skipped     \* something was used although there was no checksum for it

dir     == <<archive, extracted, binary, keepsMode>>
history == <<raced, skipped>>
vars    == <<dir, pc, data, shared, history>>

Data      == {"good", "bad"}
NoArchive == [data |-> "none", whole |-> FALSE]
Archives  == [data : Data, whole : BOOLEAN] \cup {NoArchive}
NoFile    == [data |-> "none", whole |-> FALSE, exec |-> FALSE, writer |-> Nobody]
Files     == [data : Data, whole : BOOLEAN, exec : BOOLEAN, writer : Procs \cup {Nobody}] \cup {NoFile}

Ended        == {"ended", "returned", "spoilt"}
LookingUp    == {"path", "cache", "gate"}
Fetching     == {"fetch", "verify"}
OnDisk       == {"writing", "extract", "extracting", "unlink", "install", "rename", "chmod"}
Downloading  == {"open"} \cup OnDisk

TypeOK ==
  /\ archive \in Archives
  /\ extracted \in Files
  /\ binary \in Files
  /\ keepsMode \in BOOLEAN
  /\ pc \in [Procs -> Ended \cup LookingUp \cup Fetching \cup Downloading]
  /\ data \in [Procs -> Data \cup {"none"}]
  /\ shared \subseteq Procs
  /\ raced \in BOOLEAN
  /\ skipped \in BOOLEAN

Init ==
  /\ archive = NoArchive
  /\ extracted = NoFile
  /\ binary = NoFile
  /\ keepsMode \in BOOLEAN
  /\ pc = [p \in Procs |-> "ended"]
  /\ data = [p \in Procs |-> "none"]
  /\ shared = {}
  /\ raced = FALSE
  /\ skipped = FALSE

Goto(p, stage) == pc' = [pc EXCEPT ![p] = stage]

-----------------------------------------------------------------------------
(* Looking for a binary that is there.                                     *)

\* What may be called; downloadBinary passes a PATH and a cache without anything.
Functions == {"resolveBinary", "findBinary", "downloadBinary"}

\* A call starts, in a process of its own or in one that has called before;
\* binaryPath or RIFT_BINARY_PATH is taken when it is there.
Resolve(p) ==
  /\ pc[p] \in Ended
  /\ \E function \in Functions, there \in BOOLEAN :
       Goto(p, IF there THEN "ended"
               ELSE IF function = "downloadBinary" THEN "gate" ELSE "path")
  /\ UNCHANGED <<dir, data, shared, history>>

\* What is on PATH under the engine's names, by what it says of its version.
OnPath == {"nothing", "rift", "mountebank", "broken"}

LookUpPath(p) ==
  /\ pc[p] = "path"
  /\ \E hit \in OnPath : Goto(p, IF hit = "rift" THEN "ended" ELSE "cache")
  /\ UNCHANGED <<dir, data, shared, history>>

\* Only whether the binary is there is looked at, not what it is.
LookUpCache(p) ==
  /\ pc[p] = "cache"
  /\ Goto(p, IF binary # NoFile THEN "returned" ELSE "gate")
  /\ UNCHANGED <<dir, data, shared, history>>

\* An air-gapped environment, a platform without a release, and findBinary,
\* whose download throws, end here.
Gate(p) ==
  /\ pc[p] = "gate"
  /\ \/ Goto(p, "fetch")
     \/ Goto(p, "ended")
  /\ UNCHANGED <<dir, data, shared, history>>

-----------------------------------------------------------------------------
(* Downloading.                                                            *)

Fetch(p) ==
  /\ pc[p] = "fetch"
  /\ \/ \E d \in Data : Goto(p, "verify") /\ data' = [data EXCEPT ![p] = d]
     \/ Goto(p, "ended") /\ UNCHANGED data      \* no answer, or not a 2xx one
  /\ UNCHANGED <<dir, shared, history>>

Refuse(p) == Goto(p, "ended") /\ data' = [data EXCEPT ![p] = "none"] /\ UNCHANGED skipped
Check(p)  == IF data[p] = "good" THEN Goto(p, "open") /\ UNCHANGED <<data, skipped>>
             ELSE Refuse(p)

\* Bug: data without a checksum is taken as it is.
BugVerifyOptional(p) ==
  /\ pc[p] = "verify"
  /\ \/ Check(p)
     \/ Goto(p, "open") /\ UNCHANGED <<data, skipped>>
  /\ UNCHANGED <<dir, shared, raced>>

\* fetchAndVerifyChecksum: with the sidecar; without it, RIFT_SKIP_CHECKSUM
\* decides.
Verify(p) ==
  /\ pc[p] = "verify"
  /\ \/ Check(p)
     \/ \E optOut \in BOOLEAN :
          IF optOut THEN Goto(p, "open") /\ skipped' = TRUE /\ UNCHANGED data
          ELSE Refuse(p)
  /\ UNCHANGED <<dir, shared, raced>>

Holding(p, whole) == [data |-> data[p], whole |-> whole]

Others(p, stages) == {q \in Procs \ {p} : pc[q] \in stages}

\* Bug: the archive is created, and must not be there.
BugOpenArchiveExclusive(p) ==
  /\ pc[p] = "open"
  /\ IF archive = NoArchive
     THEN /\ archive' = Holding(p, FALSE)
          /\ Goto(p, "writing")
     ELSE Goto(p, "spoilt") /\ UNCHANGED archive
  /\ shared' = shared \ {p}
  /\ raced' = (raced \/ Others(p, OnDisk) # {})
  /\ UNCHANGED <<extracted, binary, keepsMode, data, skipped>>

\* The directory is made unless it is there, the archive opened and emptied.
OpenArchive(p) ==
  /\ pc[p] = "open"
  /\ archive' = Holding(p, FALSE)
  /\ Goto(p, "writing")
  /\ shared' = (shared \ {p}) \cup Others(p, {"writing"})
                 \cup (IF Others(p, {"writing"}) # {} THEN {p} ELSE {})
  /\ raced' = (raced \/ Others(p, OnDisk) # {})
  /\ UNCHANGED <<extracted, binary, keepsMode, data, skipped>>

\* An archive that has been removed under its writer stays removed; of one that
\* another process opened meanwhile anything may have come.
WriteArchive(p) ==
  /\ pc[p] = "writing"
  /\ archive' \in IF archive = NoArchive THEN {archive}
                 ELSE IF p \in shared THEN {archive, Holding(p, TRUE), Holding(p, FALSE)}
                 ELSE {Holding(p, TRUE)}
  /\ Goto(p, "extract")
  /\ data' = [data EXCEPT ![p] = "none"]
  /\ shared' = shared \ {p}
  /\ UNCHANGED <<extracted, binary, keepsMode, history>>

Extracted(p) == [data |-> archive.data, whole |-> FALSE, exec |-> keepsMode, writer |-> p]

\* Bug: the archive is extracted onto the binary's place in the cache.
BugExtractInPlace(p) ==
  /\ pc[p] = "extract"
  /\ archive.whole
  /\ binary' = Extracted(p)
  /\ Goto(p, "extracting")
  /\ UNCHANGED <<archive, extracted, keepsMode, data, shared, history>>

\* tar starts the binary as a new file; an archive that is gone or not whole
\* makes it fail, and what it extracted before it failed stays.
Extract(p) ==
  /\ pc[p] = "extract"
  /\ IF archive.whole
     THEN extracted' = Extracted(p) /\ Goto(p, "extracting")
     ELSE /\ extracted' \in {extracted} \cup (IF archive = NoArchive THEN {} ELSE {Extracted(Nobody)})
          /\ Goto(p, "spoilt")
  /\ UNCHANGED <<archive, binary, keepsMode, data, shared, history>>

\* What becomes of the file that p has open when p is done with it.
Closed(f, p, whole) == IF f.writer = p THEN [f EXCEPT !.whole = whole, !.writer = Nobody] ELSE f

\* tar ends; it may fail when the archive has been written to under it.
ExtractEnds(p) ==
  /\ pc[p] = "extracting"
  /\ \/ /\ extracted' = Closed(extracted, p, TRUE)
        /\ binary' = Closed(binary, p, TRUE)
        /\ Goto(p, "unlink")
     \/ /\ archive # NoArchive /\ ~archive.whole
        /\ extracted' = Closed(extracted, p, FALSE)
        /\ binary' = Closed(binary, p, FALSE)
        /\ Goto(p, "spoilt")
  /\ UNCHANGED <<archive, keepsMode, data, shared, history>>

RemoveArchive(p) ==
  /\ pc[p] = "unlink"
  /\ archive' = NoArchive
  /\ Goto(p, IF archive = NoArchive THEN "spoilt" ELSE "install")
  /\ UNCHANGED <<extracted, binary, keepsMode, data, shared, history>>

\* A binary that is in its place already is left there.
LookForBinary(p) ==
  /\ pc[p] = "install"
  /\ Goto(p, IF binary # NoFile THEN "chmod" ELSE IF extracted # NoFile THEN "rename" ELSE "spoilt")
  /\ UNCHANGED <<dir, data, shared, history>>

MoveBinary(p) ==
  /\ pc[p] = "rename"
  /\ IF extracted = NoFile
     THEN Goto(p, "spoilt") /\ UNCHANGED <<extracted, binary>>
     ELSE /\ binary' = extracted
          /\ extracted' = NoFile
          /\ Goto(p, "chmod")
  /\ UNCHANGED <<archive, keepsMode, data, shared, history>>

MakeExecutable(p) ==
  /\ pc[p] = "chmod"
  /\ binary' = [binary EXCEPT !.exec = TRUE]
  /\ Goto(p, "returned")
  /\ UNCHANGED <<archive, extracted, keepsMode, data, shared, history>>

\* A file its writer had open stays as far as it was written.
Dies(p) ==
  /\ pc[p] \notin Ended
  /\ Goto(p, "ended")
  /\ data' = [data EXCEPT ![p] = "none"]
  /\ extracted' = Closed(extracted, p, FALSE)
  /\ binary' = Closed(binary, p, FALSE)
  /\ shared' = shared \ {p}
  /\ UNCHANGED <<archive, keepsMode, history>>

Next == \E p \in Procs :
  \/ Resolve(p) \/ LookUpPath(p) \/ LookUpCache(p) \/ Gate(p)
  \/ Fetch(p) \/ Verify(p) \/ OpenArchive(p) \/ WriteArchive(p)
  \/ Extract(p) \/ ExtractEnds(p) \/ RemoveArchive(p)
  \/ LookForBinary(p) \/ MoveBinary(p) \/ MakeExecutable(p) \/ Dies(p)

Spec == Init /\ [][Next]_vars

-----------------------------------------------------------------------------
(* Properties.                                                             *)

\* Unless somebody opted out of the checksum, nothing in the cache directory,
\* whole or not, comes from an archive that is not the published one: bytes are
\* verified before the first of them is written (spawn/resolve.ts:285).
NothingUnverified ==
  ~skipped => "bad" \notin {archive.data, extracted.data, binary.data}

\* As long as no two processes were downloading at a time, a path that is
\* returned leads to a whole binary, wherever processes died before, and to one
\* that can be executed; only a release that does not keep the mode may be
\* returned from the cache before it is (spawn/resolve.ts:303-315).
ReturnedRuns == [][
  \A p \in Procs : ~raced /\ pc'[p] = "returned" /\ pc[p] # "returned" =>
    /\ binary'.whole
    /\ (pc[p] = "cache" /\ ~keepsMode) \/ binary'.exec]_vars

\* What a process leaves behind when it dies never makes a later download fail
\* once its data is verified: only two downloads at a time can
\* (spawn/resolve.ts:295-312).
LeftoversDoNoHarm == ~raced => \A p \in Procs : pc[p] # "spoilt"
=============================================================================
