----------------------- MODULE TeleopSessionProofs -----------------------
(* Proofs about TeleopSession, for every number of frames and sessions.     *)
EXTENDS TeleopSession, TLAPS

(* The initial state satisfies the invariant.                               *)
LEMMA InitInv == Init => IInv
<1> SUFFICES ASSUME Init PROVE IInv
  OBVIOUS
<1> USE DEF Init, NoFrame
<1>1. TypeOK
  BY DEF TypeOK, Frames
<1>2. Phases /\ WorkerLives /\ Reported
  BY DEF Phases, WorkerLives, Reported
<1>3. FrameOrder
  BY DEF FrameOrder
<1>4. Counted /\ LatestKept
  BY DEF Counted, LatestKept
<1> QED
  BY <1>1, <1>2, <1>3, <1>4 DEF IInv

(* What every step of the application thread keeps.                         *)
LEMMA ApplicationInv == IInv /\ Application => IInv'
<1> SUFFICES ASSUME IInv, Application PROVE IInv'
  OBVIOUS
<1> USE DEF IInv, TypeOK, Frames, NoFrame, Phases, WorkerLives, FrameOrder, Counted, Reported,
            LatestKept, appVars, runnerVars, workerVars, historyVars
<1>1. CASE Enter
  <2>1. TypeOK'
    <3>1. frame_count' \in Nat /\ sessions' \in Nat
      BY <1>1 DEF Enter
    <3> QED
      BY <1>1, <3>1 DEF Enter
  <2>2. Phases'
    BY <1>1 DEF Enter
  <2>3. WorkerLives'
    BY <1>1 DEF Enter
  <2>4. FrameOrder'
    BY <1>1 DEF Enter
  <2>5. Counted'
    BY <1>1 DEF Enter
  <2>6. Reported'
    BY <1>1 DEF Enter
  <2>7. LatestKept'
    BY <1>1 DEF Enter
  <2> QED
    BY <2>1, <2>2, <2>3, <2>4, <2>5, <2>6, <2>7
<1>2. CASE BeginSeed
  BY <1>2 DEF BeginSeed
<1>3. CASE SeedFails
  BY <1>3 DEF SeedFails
<1>4. CASE StartRunner
  BY <1>4 DEF StartRunner
<1>5. CASE PublishSeed
  BY <1>5 DEF PublishSeed
<1>6. CASE ReturnSeed
  BY <1>6 DEF ReturnSeed, ReturnFrame
<1>7. CASE BeginStep
  <2>1. CASE RaiseFailure
    <3>1. TypeOK'
      BY <1>7, <2>1 DEF BeginStep, RaiseFailure
    <3>2. Phases'
      BY <1>7, <2>1 DEF BeginStep, RaiseFailure
    <3>3. WorkerLives'
      BY <1>7, <2>1 DEF BeginStep, RaiseFailure
    <3>4. FrameOrder'
      BY <1>7, <2>1 DEF BeginStep, RaiseFailure
    <3>5. Counted'
      BY <1>7, <2>1 DEF BeginStep, RaiseFailure
    <3>6. Reported'
      BY <1>7, <2>1 DEF BeginStep, RaiseFailure
    <3>7. LatestKept'
      BY <1>7, <2>1 DEF BeginStep, RaiseFailure
    <3> QED
      BY <3>1, <3>2, <3>3, <3>4, <3>5, <3>6, <3>7
  <2>2. CASE /\ ~exception /\ app' = "submit"
             /\ UNCHANGED <<frame_count, has_runner, resources, sessions, runnerVars, workerVars,
                            historyVars>>
    BY <1>7, <2>2 DEF BeginStep
  <2> QED
    BY <1>7, <2>1, <2>2 DEF BeginStep
<1>8. CASE Submit
  <2>1. CASE RaiseFailure
    <3>1. TypeOK'
      BY <1>8, <2>1 DEF Submit, RaiseFailure
    <3>2. Phases'
      BY <1>8, <2>1 DEF Submit, RaiseFailure
    <3>3. WorkerLives'
      BY <1>8, <2>1 DEF Submit, RaiseFailure
    <3>4. FrameOrder'
      BY <1>8, <2>1 DEF Submit, RaiseFailure
    <3>5. Counted'
      BY <1>8, <2>1 DEF Submit, RaiseFailure
    <3>6. Reported'
      BY <1>8, <2>1 DEF Submit, RaiseFailure
    <3>7. LatestKept'
      BY <1>8, <2>1 DEF Submit, RaiseFailure
    <3> QED
      BY <3>1, <3>2, <3>3, <3>4, <3>5, <3>6, <3>7
  <2>2. CASE /\ ~exception /\ app' = "latest" /\ submitted' = frame_count /\ Enqueue
             /\ UNCHANGED <<frame_count, has_runner, resources, sessions, workerVars, returned>>
    BY <1>8, <2>2 DEF Submit, Enqueue
  <2> QED
    BY <1>8, <2>1, <2>2 DEF Submit
<1>9. CASE Latest
  <2>1. CASE RaiseFailure
    <3>1. TypeOK'
      BY <1>9, <2>1 DEF Latest, RaiseFailure
    <3>2. Phases'
      BY <1>9, <2>1 DEF Latest, RaiseFailure
    <3>3. WorkerLives'
      BY <1>9, <2>1 DEF Latest, RaiseFailure
    <3>4. FrameOrder'
      BY <1>9, <2>1 DEF Latest, RaiseFailure
    <3>5. Counted'
      BY <1>9, <2>1 DEF Latest, RaiseFailure
    <3>6. Reported'
      BY <1>9, <2>1 DEF Latest, RaiseFailure
    <3>7. LatestKept'
      BY <1>9, <2>1 DEF Latest, RaiseFailure
    <3> QED
      BY <3>1, <3>2, <3>3, <3>4, <3>5, <3>6, <3>7
  <2>2. CASE ~exception /\ ReturnFrame
    BY <1>9, <2>2 DEF Latest, ReturnFrame
  <2> QED
    BY <1>9, <2>1, <2>2 DEF Latest
<1>10. CASE BeginExit
  BY <1>10 DEF BeginExit
<1>11. CASE StopRunner
  BY <1>11 DEF StopRunner
<1>12. CASE Join
  BY <1>12 DEF Join
<1>13. CASE SurfaceFailure
  BY <1>13 DEF SurfaceFailure
<1>14. CASE Release
  <2>1. TypeOK'
    BY <1>14 DEF Release
  <2>2. Phases'
    BY <1>14 DEF Release
  <2>3. WorkerLives'
    BY <1>14 DEF Release
  <2>4. FrameOrder'
    BY <1>14 DEF Release
  <2>5. Counted'
    BY <1>14 DEF Release
  <2>6. Reported'
    BY <1>14 DEF Release
  <2>7. LatestKept'
    BY <1>14 DEF Release
  <2> QED
    BY <2>1, <2>2, <2>3, <2>4, <2>5, <2>6, <2>7
<1>15. CASE RequestRefused
  BY <1>15 DEF RequestRefused
<1> QED
  BY <1>1, <1>2, <1>3, <1>4, <1>5, <1>6, <1>7, <1>8, <1>9, <1>10, <1>11, <1>12, <1>13, <1>14,
     <1>15 DEF Application

(* What every step of the worker thread keeps.                              *)
LEMMA WorkerInv == IInv /\ Worker => IInv'
<1> SUFFICES ASSUME IInv, Worker PROVE IInv'
  OBVIOUS
<1> USE DEF IInv, TypeOK, Frames, NoFrame, Phases, WorkerLives, FrameOrder, Counted, Reported,
            LatestKept, appVars, runnerVars, workerVars, historyVars
<1>1. CASE TakeReady
  BY <1>1 DEF TakeReady, Take
<1>2. CASE BeginPacing
  BY <1>2 DEF BeginPacing
<1>3. CASE TakePaced
  BY <1>3 DEF TakePaced, Take
<1>4. CASE PacingInterrupted
  BY <1>4 DEF PacingInterrupted
<1>5. CASE WorkerStops
  BY <1>5 DEF WorkerStops
<1>6. CASE ExecuteRequest
  BY <1>6 DEF ExecuteRequest
<1>7. CASE PublishFrame
  BY <1>7 DEF PublishFrame
<1>8. CASE CaptureFailure
  BY <1>8 DEF CaptureFailure
<1> QED
  BY <1>1, <1>2, <1>3, <1>4, <1>5, <1>6, <1>7, <1>8 DEF Worker

(* Application, runner and worker agree in every reachable state.           *)
THEOREM Invariance == Spec => []IInv
<1>1. IInv /\ [Next]_vars => IInv'
  <2> SUFFICES ASSUME IInv, [Next]_vars PROVE IInv'
    OBVIOUS
  <2>1. CASE UNCHANGED vars
    BY <2>1 DEF IInv, TypeOK, Phases, WorkerLives, FrameOrder, Counted, Reported,
                LatestKept, vars, appVars, runnerVars, workerVars, historyVars
  <2> QED
    BY <2>1, ApplicationInv, WorkerInv DEF Next
<1> QED
  BY <1>1, InitInv, PTL DEF Spec

(* One thread at a time executes steps, never outside the session.          *)
THEOREM Serialized == Spec => []ExecutionSerialized
<1>1. IInv => ExecutionSerialized
  BY DEF IInv, TypeOK, Phases, WorkerLives, ExecutionSerialized, Executing
<1> QED
  BY <1>1, Invariance, PTL

(* No failure of the worker is lost when the session is left.               *)
THEOREM FailuresSurface == Spec => []FailureSurfaces
<1>1. IInv => FailureSurfaces
  BY DEF IInv, TypeOK, Phases, Reported, FailureSurfaces
<1> QED
  BY <1>1, Invariance, PTL

(* The newest request is never lost to a replacement.                       *)
THEOREM LatestAlwaysKept == Spec => []LatestKept
<1>1. IInv => LatestKept
  BY DEF IInv
<1> QED
  BY <1>1, Invariance, PTL

(* A step of the application is a step of the mailbox, or none.             *)
LEMMA ApplicationRefines == IInv /\ Application => [Mailbox!Next]_Mailbox!frameVars
<1> SUFFICES ASSUME IInv, Application
             PROVE  Mailbox!Next \/ UNCHANGED <<submitted, published, returned>>
  BY DEF Mailbox!frameVars
<1> USE DEF NoFrame, appVars, runnerVars, workerVars, historyVars
<1>1. CASE Enter
  BY <1>1 DEF Enter
<1>2. CASE BeginSeed
  <2>1. frame_count = 0 /\ submitted \in {-1, 0} /\ submitted' = frame_count
    BY <1>2 DEF BeginSeed, IInv, Counted
  <2>2. UNCHANGED <<published, returned>>
    BY <1>2 DEF BeginSeed
  <2>3. submitted' = submitted + 1 \/ submitted' = submitted
    BY <2>1
  <2> QED
    BY <2>2, <2>3 DEF Mailbox!Next, Mailbox!Submit
<1>3. CASE SeedFails
  BY <1>3 DEF SeedFails
<1>4. CASE StartRunner
  BY <1>4 DEF StartRunner, IInv, Phases, Counted
<1>5. CASE PublishSeed
  <2>1. published = -1 /\ published' = 0 /\ submitted = 0 /\ UNCHANGED <<submitted, returned>>
    BY <1>5 DEF PublishSeed, IInv, Counted
  <2> QED
    BY <2>1 DEF Mailbox!Next, Mailbox!Complete
<1>6. CASE ReturnSeed
  <2>1. published >= 0 /\ returned' = published /\ UNCHANGED <<submitted, published>>
    BY <1>6 DEF ReturnSeed, ReturnFrame, IInv, Counted, TypeOK
  <2> QED
    BY <2>1 DEF Mailbox!Next, Mailbox!Return
<1>7. CASE RaiseFailure
  BY <1>7 DEF RaiseFailure
<1>8. CASE BeginStep
  BY <1>7, <1>8 DEF BeginStep
<1>9. CASE Submit /\ ~RaiseFailure
  <2>1. app = "submit" /\ ~exception /\ submitted' = frame_count
    BY <1>9 DEF Submit
  <2>2. UNCHANGED <<published, returned>>
    BY <1>9 DEF Submit, Enqueue
  <2>3. submitted = frame_count - 1 /\ frame_count \in Nat
    BY <2>1 DEF IInv, Phases, Counted, TypeOK
  <2>4. submitted' = submitted + 1
    BY <2>1, <2>3
  <2> QED
    BY <2>2, <2>4 DEF Mailbox!Next, Mailbox!Submit
<1>10. CASE Latest /\ ~RaiseFailure
  <2>1. published >= 0
    BY <1>10 DEF Latest, IInv, Phases, Counted
  <2>2. returned' = published /\ UNCHANGED <<submitted, published>>
    BY <1>10 DEF Latest, ReturnFrame
  <2> QED
    BY <2>1, <2>2 DEF Mailbox!Next, Mailbox!Return
<1>11. CASE BeginExit
  BY <1>11 DEF BeginExit
<1>12. CASE StopRunner
  BY <1>12 DEF StopRunner
<1>13. CASE Join
  BY <1>13 DEF Join
<1>14. CASE SurfaceFailure
  BY <1>14 DEF SurfaceFailure
<1>15. CASE Release
  BY <1>15 DEF Release, Mailbox!Next, Mailbox!Leave
<1>16. CASE RequestRefused
  BY <1>16 DEF RequestRefused
<1> QED
  BY <1>1, <1>2, <1>3, <1>4, <1>5, <1>6, <1>7, <1>8, <1>9, <1>10, <1>11, <1>12, <1>13, <1>14,
     <1>15, <1>16 DEF Application

(* So is a step of the worker: it completes frames in order.                *)
LEMMA WorkerRefines == IInv /\ Worker => [Mailbox!Next]_Mailbox!frameVars
<1> SUFFICES ASSUME IInv, Worker
             PROVE  Mailbox!Next \/ UNCHANGED <<submitted, published, returned>>
  BY DEF Mailbox!frameVars
<1> USE DEF appVars, runnerVars, workerVars, historyVars
<1>1. CASE PublishFrame
  <2>1. /\ published' = request /\ UNCHANGED <<submitted, returned>>
        /\ published < request /\ request <= submitted
    BY <1>1 DEF PublishFrame, IInv, FrameOrder
  <2>2. published \in Int /\ request \in Int /\ submitted \in Int
    BY DEF IInv, TypeOK, Frames, NoFrame
  <2>3. published' \in (published + 1) .. submitted
    BY <2>1, <2>2
  <2> QED
    BY <2>1, <2>3 DEF Mailbox!Next, Mailbox!Complete
<1>2. CASE ~PublishFrame
  BY <1>2 DEF Worker, TakeReady, Take, BeginPacing, TakePaced, PacingInterrupted, WorkerStops,
              ExecuteRequest, CaptureFailure
<1> QED
  BY <1>1, <1>2

(* The session implements the mailbox: whatever is replaced, fails or is    *)
(* left behind, frames are completed and returned in order.                 *)
THEOREM ImplementsMailbox == Spec => MailboxSpec
<1>1. Init => Mailbox!Init
  BY DEF Init, Mailbox!Init, NoFrame
<1>2. IInv /\ [Next]_vars => [Mailbox!Next]_Mailbox!frameVars
  <2>1. UNCHANGED vars => UNCHANGED Mailbox!frameVars
    BY DEF vars, runnerVars, historyVars, Mailbox!frameVars
  <2> QED
    BY <2>1, ApplicationRefines, WorkerRefines DEF Next
<1> QED
  BY <1>1, <1>2, Invariance, PTL DEF Spec, MailboxSpec, Mailbox!Spec
=============================================================================
