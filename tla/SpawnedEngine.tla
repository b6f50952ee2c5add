--------------------------- MODULE SpawnedEngine ---------------------------
(***************************************************************************)
(* The spawn transport: spawn() (rift-core/src/spawn/spawn.ts) starts the  *)
(* engine as a child process and waits for its admin plane; Engine.close() *)
(* (rift-core/src/engine.ts) stops it, whoever calls it and however often. *)
(*                                                                         *)
(* The child is a process of its own: it may crash at any time, ignore     *)
(* SIGTERM, or find that somebody took the port findFreePort had chosen.   *)
(***************************************************************************)
EXTENDS FiniteSets

CONSTANT Closers   \* concurrent callers of Engine.close()

VARIABLES
  \* --- spawn() and the Engine, in the host process
  stage,        \* how far spawn() has come
  closed,       \* Engine.#closed
  spawnClosed,  \* the flag of SpawnedEngine.close
  closer,       \* closer[c]: where its call of close() is
  exitSeen,     \* the child's 'exit' event was emitted: exitCode or signalCode is set
  \* --- the child
  child,
  exit,         \* how it exited
  term,         \* it was sent SIGTERM
  kill,         \* it was sent SIGKILL
  squatted      \* another process listens on its port

hostVars  == <<stage, closed, spawnClosed, closer, exitSeen>>
childVars == <<child, exit, term, kill, squatted>>
spawnVars == <<hostVars, childVars>>

SpawnTypeOK ==
  /\ stage \in {"gates", "starting", "threw", "open"}
  /\ closed \in BOOLEAN
  /\ spawnClosed \in BOOLEAN
  /\ closer \in [Closers -> {"idle", "waiting", "stopped", "returned"}]
  /\ exitSeen \in BOOLEAN
  /\ child \in {"none", "booting", "listening", "exited"}
  /\ exit \in {"none", "zero", "nonzero", "signal"}
  /\ term \in BOOLEAN
  /\ kill \in BOOLEAN
  /\ squatted \in BOOLEAN

SpawnInit ==
  /\ stage = "gates"
  /\ closed = FALSE
  /\ spawnClosed = FALSE
  /\ closer = [c \in Closers |-> "idle"]
  /\ exitSeen = FALSE
  /\ child = "none"
  /\ exit = "none"
  /\ term = FALSE
  /\ kill = FALSE
  /\ squatted = FALSE

-----------------------------------------------------------------------------
(* spawn()                                                                 *)

\* The option guards, the binary, the version gates, the check that MB_APIKEY
\* has not moved: spawn() throws before there is a child.
RefuseSpawn ==
  /\ stage = "gates"
  /\ stage' = "threw"
  /\ UNCHANGED <<closed, spawnClosed, closer, exitSeen, childVars>>

\* The port was free when findFreePort looked.
Fork ==
  /\ stage = "gates"
  /\ stage' = "starting"
  /\ child' \in {"booting", "none"}         \* none: the 'error' event is coming
  /\ squatted' \in BOOLEAN
  /\ UNCHANGED <<closed, spawnClosed, closer, exitSeen, exit, term, kill>>

\* waitForAdmin: any answer on the port counts, but a child that could not be
\* started is reported before any answer comes.
AdminAnswers ==
  /\ stage = "starting"
  /\ child = "listening" \/ squatted
  /\ child # "none"
  /\ stage' = "open"
  /\ UNCHANGED <<closed, spawnClosed, closer, exitSeen, childVars>>

\* Bug: a start-up that times out leaves the child alone.
BugStartupFailsQuietly ==
  /\ stage = "starting"
  /\ stage' = "threw"
  /\ UNCHANGED <<closed, spawnClosed, closer, exitSeen, childVars>>

\* The start-up timed out, or the child could not be started at all.
StartupFails ==
  /\ stage = "starting"
  /\ stage' = "threw"
  /\ kill' = TRUE
  /\ UNCHANGED <<closed, spawnClosed, closer, exitSeen, child, exit, term, squatted>>

-----------------------------------------------------------------------------
(* Engine.close(), which calls SpawnedEngine.close() and then closes the   *)
(* admin client.                                                           *)

\* The engine is closed already, or its process is being stopped by another
\* call, or has exited: nothing to wait for.
CloseReturns(c) ==
  /\ stage = "open"
  /\ closer[c] = "idle"
  /\ closed \/ spawnClosed \/ exitSeen
  /\ closer' = [closer EXCEPT ![c] = "returned"]
  /\ closed' = TRUE
  /\ spawnClosed' = TRUE
  /\ UNCHANGED <<stage, exitSeen, childVars>>

CloseSignals(c) ==
  /\ stage = "open"
  /\ closer[c] = "idle"
  /\ ~closed /\ ~spawnClosed /\ ~exitSeen
  /\ closer' = [closer EXCEPT ![c] = "waiting"]
  /\ spawnClosed' = TRUE
  /\ term' = TRUE
  /\ UNCHANGED <<stage, closed, exitSeen, child, exit, kill, squatted>>

\* Bug: the exit does not clear the timer.
BugShutdownTimerKept(c) ==
  /\ closer[c] \in {"waiting", "stopped"}
  /\ ~kill
  /\ closer' = [closer EXCEPT ![c] = "stopped"]
  /\ closed' = TRUE
  /\ kill' = TRUE
  /\ UNCHANGED <<stage, spawnClosed, exitSeen, child, exit, term, squatted>>

\* Bug: the timer gives up on the child without SIGKILL.
BugShutdownTimesOutQuietly(c) ==
  /\ closer[c] = "waiting"
  /\ closer' = [closer EXCEPT ![c] = "stopped"]
  /\ closed' = TRUE
  /\ UNCHANGED <<stage, spawnClosed, exitSeen, childVars>>

\* Bug: close() waits for the exit of a child that ignores SIGTERM.
BugShutdownNeverTimesOut(c) == FALSE

ShutdownTimesOut(c) ==
  /\ closer[c] = "waiting"
  /\ closer' = [closer EXCEPT ![c] = "stopped"]
  /\ closed' = TRUE
  /\ kill' = TRUE
  /\ UNCHANGED <<stage, spawnClosed, exitSeen, child, exit, term, squatted>>

\* The 'exit' event: the start-up watcher throws unless the code was 0, and
\* the close() that waits for it goes on.
ExitEvent ==
  /\ child = "exited"
  /\ ~exitSeen
  /\ exitSeen' = TRUE
  /\ IF stage = "starting" /\ exit # "zero"
     THEN stage' = "threw" /\ kill' = TRUE
     ELSE UNCHANGED <<stage, kill>>
  /\ closer' = [c \in Closers |-> IF closer[c] = "waiting" THEN "stopped" ELSE closer[c]]
  /\ closed' = (closed \/ \E c \in Closers : closer[c] = "waiting")
  /\ UNCHANGED <<spawnClosed, child, exit, term, squatted>>

-----------------------------------------------------------------------------
(* The child.                                                              *)

Alive == child \in {"booting", "listening"}

ChildListens ==
  /\ child = "booting"
  /\ ~squatted
  /\ child' = "listening"
  /\ UNCHANGED <<hostVars, exit, term, kill, squatted>>

\* It crashes, gives up because it cannot bind its port, or obeys SIGTERM.
ChildExits ==
  /\ Alive
  /\ child' = "exited"
  /\ exit' \in {"zero", "nonzero", "signal"}
  /\ UNCHANGED <<hostVars, term, kill, squatted>>

ChildKilled ==
  /\ Alive
  /\ kill
  /\ child' = "exited"
  /\ exit' = "signal"
  /\ UNCHANGED <<hostVars, term, kill, squatted>>

-----------------------------------------------------------------------------

\* spawn() threw or everybody has closed, and no child is left.
Over == /\ \/ stage = "threw"
           \/ stage = "open" /\ \A c \in Closers : closer[c] \notin {"idle", "waiting"}
        /\ ~Alive
        /\ UNCHANGED spawnVars

Startup == RefuseSpawn \/ Fork \/ AdminAnswers \/ StartupFails
Close(c) == CloseReturns(c) \/ CloseSignals(c)

SpawnNext == \/ Startup
             \/ \E c \in Closers : Close(c) \/ ShutdownTimesOut(c)
             \/ ExitEvent
             \/ ChildListens \/ ChildExits \/ ChildKilled
             \/ Over

SpawnSpec == SpawnInit /\ [][SpawnNext]_spawnVars

\* Timers fire, exits are reported and SIGKILL kills; the child may do nothing.
FairSpawnSpec == /\ SpawnSpec
                 /\ WF_spawnVars(Startup)
                 /\ \A c \in Closers : WF_spawnVars(ShutdownTimesOut(c))
                 /\ WF_spawnVars(ExitEvent)
                 /\ WF_spawnVars(ChildKilled)

-----------------------------------------------------------------------------
(* Safety                                                                  *)

\* When spawn() throws, the child it started has exited or is being killed.
NoOrphanAfterThrow == stage = "threw" => ~Alive \/ kill

\* The close() that waited for the child resolves once it has exited or has
\* been sent SIGKILL.
StoppedMeansStopped == \A c \in Closers : closer[c] = "stopped" => exitSeen \/ kill

\* close() signals no process that is known to have exited: its timer does not
\* outlive the exit.
NoSignalToTheDead ==
  [][stage = "open" /\ (term' # term \/ kill' # kill) => ~exitSeen]_spawnVars

(* Liveness                                                                *)

\* close() settles although the child ignores SIGTERM, and spawn() settles
\* although it never answers.
EverythingSettles ==
  /\ \A c \in Closers : closer[c] = "waiting" ~> closer[c] = "stopped"
  /\ stage \in {"gates", "starting"} ~> stage \in {"threw", "open"}

=============================================================================
