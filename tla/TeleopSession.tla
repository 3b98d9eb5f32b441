--------------------------- MODULE TeleopSession ---------------------------
(***************************************************************************)
(* A TeleopSession in pipelined mode (teleop_session.py) and its           *)
(* AsyncRetargetRunner (async_retarget_runner.py): the application thread  *)
(* enters the session, steps and leaves; one worker thread executes the    *)
(* latest unstarted request.  The steps between two acquisitions of the    *)
(* runner's condition are one action.  A request is its frame id.          *)
(***************************************************************************)
EXTENDS Integers

CONSTANTS
  MaxFrames,    \* bound: steps of a session
  MaxSessions,  \* bound: sessions entered with one TeleopSession
  Paced         \* the pacing may delay a request (DeadlinePacingConfig)

ASSUME SessionAssumption ==
  /\ MaxFrames \in Nat
  /\ MaxSessions \in Nat
  /\ Paced \in BOOLEAN

NoFrame == -1

VARIABLES
  app,          \* where the application thread is
  frame_count,  \* self.frame_count
  has_runner,   \* self._async_runner is not None
  resources,    \* the exit stack holds the DeviceIO and OpenXR sessions
  pending,      \* runner: _pending
  published,    \* runner: _published
  stop,         \* runner: _stop, and _closed with it
  exception,    \* runner: _exception is not None
  exception_reported,
  worker,       \* where the worker thread is
  request,      \* worker: the request it waits for or executes
  submitted,    \* history: newest frame submitted in the session
  returned,     \* history: newest frame returned in the session
  sessions      \* history: sessions entered

appVars == <<app, frame_count, has_runner, resources, sessions>>
runnerVars == <<pending, published, stop, exception, exception_reported>>
workerVars == <<worker, request>>
historyVars == <<submitted, returned>>
vars == <<appVars, runnerVars, workerVars, historyVars>>

Frames == {NoFrame} \cup Nat

TypeOK ==
  /\ app \in {"outside", "idle", "seed", "publish", "seeded", "submit", "latest",
              "stop", "join", "surface", "release"}
  /\ frame_count \in Nat
  /\ has_runner \in BOOLEAN
  /\ resources \in BOOLEAN
  /\ pending \in Frames
  /\ published \in Frames
  /\ stop \in BOOLEAN
  /\ exception \in BOOLEAN
  /\ exception_reported \in BOOLEAN
  /\ worker \in {"none", "wait", "paced", "execute", "publish", "fail", "dead"}
  /\ request \in Frames
  /\ submitted \in Frames
  /\ returned \in Frames
  /\ sessions \in Nat

Init ==
  /\ app = "outside"
  /\ frame_count = 0
  /\ has_runner = FALSE
  /\ resources = FALSE
  /\ pending = NoFrame
  /\ published = NoFrame
  /\ stop = FALSE
  /\ exception = FALSE
  /\ exception_reported = FALSE
  /\ worker = "none"
  /\ request = NoFrame
  /\ submitted = NoFrame
  /\ returned = NoFrame
  /\ sessions = 0

-----------------------------------------------------------------------------
(* The application thread. *)

\* mutant: frame_count is not reset
EnterCounting ==
  /\ app = "outside"
  /\ sessions < MaxSessions
  /\ app' = "idle"
  /\ has_runner' = FALSE
  /\ resources' = TRUE
  /\ sessions' = sessions + 1
  /\ UNCHANGED <<frame_count, runnerVars, workerVars, historyVars>>

(* __enter__: the resources are acquired, the counters start again.         *)
Enter ==
  /\ app = "outside"
  /\ sessions < MaxSessions
  /\ app' = "idle"
  /\ frame_count' = 0
  /\ has_runner' = FALSE
  /\ resources' = TRUE
  /\ sessions' = sessions + 1
  /\ UNCHANGED <<runnerVars, workerVars, historyVars>>

(* The first step of a session runs on the application thread.              *)
BeginSeed ==
  /\ app = "idle"
  /\ ~has_runner
  /\ frame_count < MaxFrames
  /\ app' = "seed"
  /\ submitted' = frame_count
  /\ UNCHANGED <<frame_count, has_runner, resources, sessions, runnerVars, workerVars, returned>>

(* It raises: there is still no runner, and the next step is a first one.   *)
SeedFails ==
  /\ app = "seed"
  /\ app' = "idle"
  /\ UNCHANGED <<frame_count, has_runner, resources, sessions, runnerVars, workerVars,
                 historyVars>>

(* _ensure_async_runner: a new runner and its worker.                       *)
StartRunner ==
  /\ app = "seed"
  /\ app' = "publish"
  /\ has_runner' = TRUE
  /\ pending' = NoFrame
  /\ published' = NoFrame
  /\ stop' = FALSE
  /\ exception' = FALSE
  /\ exception_reported' = FALSE
  /\ worker' = "wait"
  /\ request' = NoFrame
  /\ UNCHANGED <<frame_count, resources, sessions, historyVars>>

PublishSeed ==
  /\ app = "publish"
  /\ app' = "seeded"
  /\ published' = frame_count
  /\ UNCHANGED <<frame_count, has_runner, resources, sessions, pending, stop, exception,
                 exception_reported, workerVars, historyVars>>

(* The step ends with the published frame.                                  *)
ReturnFrame ==
  /\ app' = "idle"
  /\ returned' = published
  /\ frame_count' = frame_count + 1
  /\ UNCHANGED <<has_runner, resources, sessions, runnerVars, workerVars, submitted>>

ReturnSeed == app = "seeded" /\ ReturnFrame

(* _raise_if_failed_locked: the step ends with the worker's exception.      *)
RaiseFailure ==
  /\ exception
  /\ exception_reported' = TRUE
  /\ app' = "idle"
  /\ UNCHANGED <<frame_count, has_runner, resources, sessions, pending, published, stop,
                 exception, workerVars, historyVars>>

BeginStep ==
  /\ app = "idle"
  /\ has_runner
  /\ frame_count < MaxFrames
  /\ \/ RaiseFailure
     \/ /\ ~exception
        /\ app' = "submit"
        /\ UNCHANGED <<frame_count, has_runner, resources, sessions, runnerVars, workerVars,
                       historyVars>>

(* _build_step_request raises on the inputs or the events of the step.      *)
RequestRefused ==
  /\ app = "submit"
  /\ app' = "idle"
  /\ UNCHANGED <<frame_count, has_runner, resources, sessions, runnerVars, workerVars,
                 historyVars>>

\* mutant: the unstarted request is kept
EnqueueIfEmpty ==
  /\ pending' = IF pending = NoFrame THEN frame_count ELSE pending
  /\ UNCHANGED <<published, stop, exception, exception_reported>>

(* A newer request replaces the one not yet started.                        *)
Enqueue ==
  /\ pending' = frame_count
  /\ UNCHANGED <<published, stop, exception, exception_reported>>

Submit ==
  /\ app = "submit"
  /\ \/ RaiseFailure
     \/ /\ ~exception
        /\ app' = "latest"
        /\ submitted' = frame_count
        /\ Enqueue
        /\ UNCHANGED <<frame_count, has_runner, resources, sessions, workerVars, returned>>

(* latest: the newest published frame, unless the worker has failed.        *)
Latest ==
  /\ app = "latest"
  /\ \/ RaiseFailure
     \/ ~exception /\ ReturnFrame

(* __exit__ between two steps: with a runner it is stopped first.           *)
BeginExit ==
  /\ app = "idle"
  /\ app' = IF has_runner THEN "stop" ELSE "release"
  /\ UNCHANGED <<frame_count, has_runner, resources, sessions, runnerVars, workerVars,
                 historyVars>>

StopRunner ==
  /\ app = "stop"
  /\ app' = "join"
  /\ stop' = TRUE
  /\ pending' = NoFrame
  /\ UNCHANGED <<frame_count, has_runner, resources, sessions, published, exception,
                 exception_reported, workerVars, historyVars>>

\* mutant: stop with a timeout, taken for a stopped worker
JoinTimesOut ==
  /\ app = "join"
  /\ app' = "surface"
  /\ UNCHANGED <<frame_count, has_runner, resources, sessions, runnerVars, workerVars,
                 historyVars>>

Join ==
  /\ app = "join"
  /\ worker = "dead"
  /\ app' = "surface"
  /\ UNCHANGED <<frame_count, has_runner, resources, sessions, runnerVars, workerVars,
                 historyVars>>

\* mutant: only a failure already seen is looked at
SurfaceSeenFailure ==
  /\ app = "surface"
  /\ app' = "release"
  /\ has_runner' = FALSE
  /\ UNCHANGED <<frame_count, resources, sessions, runnerVars, workerVars, historyVars>>

(* A failure nobody has seen is raised, or logged under another exception.  *)
SurfaceFailure ==
  /\ app = "surface"
  /\ app' = "release"
  /\ has_runner' = FALSE
  /\ exception_reported' = (exception_reported \/ exception)
  /\ UNCHANGED <<frame_count, resources, sessions, pending, published, stop, exception,
                 workerVars, historyVars>>

(* The exit stack releases the resources; nothing of the session is left.   *)
Release ==
  /\ app = "release"
  /\ app' = "outside"
  /\ resources' = FALSE
  /\ published' = NoFrame
  /\ submitted' = NoFrame
  /\ returned' = NoFrame
  /\ UNCHANGED <<frame_count, has_runner, sessions, pending, stop, exception,
                 exception_reported, workerVars>>

-----------------------------------------------------------------------------
(* The worker thread. *)

Take ==
  /\ worker' = "execute"
  /\ request' = pending
  /\ pending' = NoFrame
  /\ UNCHANGED <<appVars, published, stop, exception, exception_reported, historyVars>>

(* A request that is due at once.                                           *)
TakeReady ==
  /\ worker = "wait"
  /\ ~stop
  /\ pending # NoFrame
  /\ Take

(* Its start lies ahead: it stays pending while the worker waits.           *)
BeginPacing ==
  /\ worker = "wait"
  /\ ~stop
  /\ pending # NoFrame
  /\ Paced
  /\ worker' = "paced"
  /\ request' = pending
  /\ UNCHANGED <<appVars, runnerVars, historyVars>>

(* Its delay has elapsed and nothing has replaced it.                       *)
TakePaced ==
  /\ worker = "paced"
  /\ ~stop
  /\ pending = request
  /\ Take

(* It was replaced, or the runner was stopped: the worker looks again.      *)
PacingInterrupted ==
  /\ worker = "paced"
  /\ stop \/ pending # request
  /\ worker' = "wait"
  /\ request' = NoFrame
  /\ UNCHANGED <<appVars, runnerVars, historyVars>>

\* mutant: the stop is only seen when there is a request
WorkerStopsLate ==
  /\ worker = "wait"
  /\ stop /\ pending # NoFrame
  /\ worker' = "dead"
  /\ UNCHANGED <<appVars, runnerVars, request, historyVars>>

WorkerStops ==
  /\ worker = "wait"
  /\ stop
  /\ worker' = "dead"
  /\ UNCHANGED <<appVars, runnerVars, request, historyVars>>

(* _step_fn: the session's step, which may raise.                           *)
ExecuteRequest ==
  /\ worker = "execute"
  /\ worker' \in {"publish", "fail"}
  /\ UNCHANGED <<appVars, runnerVars, request, historyVars>>

PublishFrame ==
  /\ worker = "publish"
  /\ worker' = "wait"
  /\ published' = request
  /\ request' = NoFrame
  /\ UNCHANGED <<appVars, pending, stop, exception, exception_reported, historyVars>>

\* mutant: the failure is not kept for the application
CaptureFailureQuiet ==
  /\ worker = "fail"
  /\ worker' = "dead"
  /\ UNCHANGED <<appVars, pending, published, stop, exception, exception_reported, request,
                 historyVars>>

CaptureFailure ==
  /\ worker = "fail"
  /\ worker' = "dead"
  /\ exception' = TRUE
  /\ exception_reported' = FALSE
  /\ UNCHANGED <<appVars, pending, published, stop, request, historyVars>>

-----------------------------------------------------------------------------

Application ==
  \/ Enter \/ BeginSeed \/ SeedFails \/ StartRunner \/ PublishSeed \/ ReturnSeed
  \/ BeginStep \/ RequestRefused \/ Submit \/ Latest
  \/ BeginExit \/ StopRunner \/ Join \/ SurfaceFailure \/ Release

Worker ==
  \/ TakeReady \/ BeginPacing \/ TakePaced \/ PacingInterrupted \/ WorkerStops
  \/ ExecuteRequest \/ PublishFrame \/ CaptureFailure

Next == Application \/ Worker

(* A step and __exit__, once begun, are executed to their end, and the      *)
(* worker thread runs; the application need not step, leave or come back.   *)
Fairness ==
  /\ WF_vars(Application /\ app \notin {"outside", "idle"})
  /\ WF_vars(Worker)

Spec == Init /\ [][Next]_vars /\ Fairness

-----------------------------------------------------------------------------

Executing == app = "seed" \/ worker = "execute"

(* Stateful retargeters and DeviceIO are used by one thread at a time and   *)
(* never after the session's resources were released: the seed step ends    *)
(* before the worker starts, and __exit__ waits for the running step.       *)
ExecutionSerialized ==
  /\ Executing => resources
  /\ ~(app = "seed" /\ worker \in {"execute", "publish", "wait", "paced"})

(* No failure of the worker is lost: once the session is left, a step or    *)
(* __exit__ has reported it.                                                *)
FailureSurfaces == app \in {"release", "outside"} /\ exception => exception_reported

(* Replacing unstarted work never loses the newest request: it is pending,  *)
(* being executed or published, until the worker fails or is stopped.       *)
LatestKept ==
  has_runner /\ app # "publish" /\ ~stop /\ ~exception =>
    submitted \in {pending, request, published}

(* A pending request is taken or replaced, whatever the pacing, unless the  *)
(* worker has failed.                                                       *)
RequestNotStuck ==
  \A n \in 0 .. MaxFrames : pending = n ~> pending # n \/ exception

(* Leaving the session ends: the worker finishes its step and is joined.    *)
ExitEnds == app = "stop" ~> app = "outside"

(* The session implements the mailbox: frames are completed and returned in *)
(* order, at most as many as were submitted, over failures and new sessions.*)
Mailbox == INSTANCE FrameMailbox WITH completed <- published
MailboxSpec == Mailbox!Spec

-----------------------------------------------------------------------------
(* The inductive invariant. *)

(* Where the application is says whether there is a runner and a session.   *)
Phases ==
  /\ resources = (app # "outside")
  /\ app \in {"publish", "seeded", "submit", "latest", "stop", "join", "surface"} => has_runner
  /\ app \in {"outside", "seed", "release"} => ~has_runner

(* The worker lives as long as its runner, unless it has failed.            *)
WorkerLives ==
  /\ ~has_runner => worker \in {"none", "dead"}
  /\ has_runner => /\ worker # "none"
                   /\ stop <=> app \in {"join", "surface"}
                   /\ worker = "dead" => exception \/ stop
                   /\ exception => worker = "dead"
  /\ app = "surface" => worker = "dead"

(* Frames in the order of their ids along the runner.                       *)
FrameOrder ==
  /\ published <= submitted
  /\ returned <= published
  /\ has_runner /\ pending # NoFrame => published < pending /\ pending <= submitted
  /\ worker \in {"paced", "execute", "publish"} => published < request /\ request <= submitted
  /\ worker \in {"execute", "publish"} /\ pending # NoFrame => request < pending
  /\ worker = "wait" => request = NoFrame
  /\ worker = "paced" /\ ~stop => pending # NoFrame /\ request <= pending
  /\ stop /\ has_runner => pending = NoFrame

(* The counter is the newest frame or the one after it.                     *)
Counted ==
  /\ ~has_runner /\ app \in {"outside", "idle", "seed"} => published = NoFrame /\ returned = NoFrame
  /\ ~has_runner /\ app = "idle" => frame_count = 0 /\ submitted \in {NoFrame, 0}
  /\ app = "outside" => submitted = NoFrame
  /\ app \in {"seed", "publish"} => frame_count = 0 /\ submitted = 0
  /\ app = "publish" => pending = NoFrame /\ published = NoFrame /\ worker = "wait" /\ ~exception
  /\ app = "seeded" => /\ submitted = frame_count /\ published = frame_count
                       /\ pending = NoFrame /\ worker = "wait" /\ ~exception
  /\ app = "latest" => submitted = frame_count
  /\ has_runner /\ app \in {"idle", "submit"} /\ ~exception => submitted = frame_count - 1
  /\ has_runner /\ app \in {"idle", "submit", "latest"} => published >= 0

Reported == ~has_runner /\ exception => exception_reported

(* Application, runner and worker agree on what is submitted, running and   *)
(* published.                                                               *)
IInv ==
  /\ TypeOK
  /\ Phases
  /\ WorkerLives
  /\ FrameOrder
  /\ Counted
  /\ Reported
  /\ LatestKept
=============================================================================
