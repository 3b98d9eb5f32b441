--------------------------- MODULE TeleopControl ---------------------------
(***************************************************************************)
(* The teleoperation control of Isaac Teleop: debounced button selectors   *)
(* (input_selector.py) drive the run state machine                         *)
(* (teleop_state_manager_retargeter.py), whose state and reset pulse drive *)
(* the SO-101 clutch (clutch_retargeter.py) in the same frame.             *)
(* One action is one frame of TeleopSession: both pipelines run in it, one *)
(* frame after the other, whichever thread executes them.  Positions are   *)
(* points of a line and the orientation is left out.                       *)
(***************************************************************************)
EXTENDS Integers

CONSTANTS
  ActivateFrames, DeactivateFrames,  \* of create_bool_selector, for each signal
  HomePose,        \* home_base_T_ee
  Hands,           \* positions of the controller
  NoHand,          \* the controller's frame is dropped; _origin or _home is None
  MaxPose          \* bound: distance of a commanded pose from zero

ASSUME TeleopAssumption ==
  /\ ActivateFrames \in Nat \ {0}
  /\ DeactivateFrames \in Nat \ {0}
  /\ HomePose \in Int
  /\ Hands \subseteq Int
  /\ NoHand \notin Int
  /\ MaxPose \in Nat

Signals == {"kill", "run_toggle", "reset"}
States == {"stopped", "paused", "running"}

(* A selected value: none, below release_threshold, between the thresholds, *)
(* or at or above threshold.                                                *)
Raw == {"absent", "low", "between", "high"}

VARIABLES
  selector,      \* per signal: _debounced_state, _activate_count, _deactivate_count
  state,         \* _state: ExecutionState of the frame
  reset_event,   \* ExecutionEvents.reset of the frame
  prev_run_toggle, prev_reset,
  required_inputs_lost_prev,
  origin,        \* clutch: _origin
  home,          \* clutch: _home
  last_pose,     \* clutch: _last_pose, the pose commanded by the frame
  kill_frames,   \* history: frames in a row the kill button is pressed, up to ActivateFrames
  loss,          \* history: no required input is lost, or whether its loss came with a reset
  released,      \* history: the toggle was seen released since inputs were last lost
  grip           \* history: position of the hand the commanded pose follows

controlVars == <<selector, state, reset_event, prev_run_toggle, prev_reset,
                 required_inputs_lost_prev>>
clutchVars == <<origin, home, last_pose>>
historyVars == <<kill_frames, loss, released, grip>>
vars == <<controlVars, clutchVars, historyVars>>

Selector == [debounced : BOOLEAN, activate : Nat, deactivate : Nat]

Cleared == [debounced |-> FALSE, activate |-> 0, deactivate |-> 0]

TypeOK ==
  /\ selector \in [Signals -> Selector]
  /\ \A s \in Signals : /\ selector[s].activate < ActivateFrames
                        /\ selector[s].deactivate < DeactivateFrames
  /\ state \in States
  /\ reset_event \in BOOLEAN
  /\ prev_run_toggle \in BOOLEAN
  /\ prev_reset \in BOOLEAN
  /\ required_inputs_lost_prev \in BOOLEAN
  /\ origin \in Int \cup {NoHand}
  /\ home \in Int \cup {NoHand}
  /\ last_pose \in Int
  /\ kill_frames \in 0 .. ActivateFrames
  /\ loss \in {"none", "told", "silent"}
  /\ released \in BOOLEAN
  /\ grip \in Int \cup {NoHand}

SelectorInit == selector = [s \in Signals |-> Cleared]

ManagerInit ==
  /\ state = "stopped"
  /\ reset_event = FALSE
  /\ prev_run_toggle = FALSE
  /\ prev_reset = FALSE
  /\ required_inputs_lost_prev = FALSE

ClutchInit ==
  /\ origin = NoHand
  /\ home = NoHand
  /\ last_pose = HomePose

Init ==
  /\ SelectorInit /\ ManagerInit /\ ClutchInit
  /\ kill_frames = 0
  /\ loss = "none"
  /\ released = TRUE
  /\ grip = NoHand

-----------------------------------------------------------------------------
(* The selectors. *)

(* _normalize_raw_value: hysteresis around the debounced state.             *)
Normalize(sel, v) == v = "high" \/ (v = "between" /\ sel.debounced)

(* _update_debounced_state: a change counts after enough frames in a row.   *)
Debounce(sel, pressed) ==
  CASE pressed = sel.debounced -> [Cleared EXCEPT !.debounced = pressed]
    [] pressed /\ ~sel.debounced /\ sel.activate + 1 < ActivateFrames ->
         [Cleared EXCEPT !.activate = sel.activate + 1]
    [] pressed /\ ~sel.debounced /\ sel.activate + 1 >= ActivateFrames ->
         [Cleared EXCEPT !.debounced = TRUE]
    [] ~pressed /\ sel.debounced /\ sel.deactivate + 1 < DeactivateFrames ->
         [Cleared EXCEPT !.debounced = TRUE, !.deactivate = sel.deactivate + 1]
    [] OTHER -> Cleared

(* _compute_fn of a selector: an absent input clears it (initial_state).    *)
Select(sel, v) == IF v = "absent" THEN Cleared ELSE Debounce(sel, Normalize(sel, v))

-----------------------------------------------------------------------------
(* The state manager: selector' holds this frame's signals. *)

Signal(s) == selector'[s].debounced

RequiredAbsent(raw) == raw["kill"] = "absent" \/ raw["run_toggle"] = "absent"

\* mutant: a lost toggle reads as a released one
OnlyKillAbsent(raw) == raw["kill"] = "absent"

RequiredLost(raw) == RequiredAbsent(raw)

Toggled == [stopped |-> "paused", paused |-> "running", running |-> "paused"]

(* Loss of a required input stops at once; the button must be released      *)
(* before it counts again.                                                  *)
StopOnLoss(raw) ==
  /\ RequiredLost(raw)
  /\ state' = "stopped"
  /\ reset_event' = (raw["reset"] # "absent" /\ ~required_inputs_lost_prev)
  /\ required_inputs_lost_prev' = TRUE
  /\ prev_run_toggle' = TRUE
  /\ prev_reset' = TRUE

RunToggleEdge == Signal("run_toggle") /\ ~prev_run_toggle

ResetEdge(raw) == raw["reset"] # "absent" /\ Signal("reset") /\ ~prev_reset

\* mutant: the kill button stops the session and sends no reset
FollowButtonsNoReset(raw) ==
  /\ ~RequiredLost(raw)
  /\ state' = (CASE Signal("kill") -> "stopped"
                 [] ~Signal("kill") /\ RunToggleEdge -> Toggled[state]
                 [] OTHER -> state)
  /\ reset_event' = ResetEdge(raw)
  /\ required_inputs_lost_prev' = FALSE
  /\ prev_run_toggle' = Signal("run_toggle")
  /\ prev_reset' = IF raw["reset"] = "absent" THEN prev_reset ELSE Signal("reset")

(* The required inputs are there: kill first, then the toggle's edge.       *)
FollowButtons(raw) ==
  /\ ~RequiredLost(raw)
  /\ state' = (CASE Signal("kill") -> "stopped"
                 [] ~Signal("kill") /\ RunToggleEdge -> Toggled[state]
                 [] OTHER -> state)
  /\ reset_event' = (Signal("kill") \/ ResetEdge(raw))
  /\ required_inputs_lost_prev' = FALSE
  /\ prev_run_toggle' = Signal("run_toggle")
  /\ prev_reset' = IF raw["reset"] = "absent" THEN prev_reset ELSE Signal("reset")

-----------------------------------------------------------------------------
(* The clutch, under this frame's events. *)

Running == state' = "running"

(* A reset forgets the home and returns the pose; so long as it does not    *)
(* run the origin is re-armed.                                              *)
ArmedOrigin == IF reset_event' \/ ~Running THEN NoHand ELSE origin
ArmedHome == IF reset_event' THEN NoHand ELSE home
ArmedPose == IF reset_event' THEN HomePose ELSE last_pose

(* A dropped frame, or not playing yet.                                     *)
Hold(hand) ==
  /\ hand = NoHand \/ (ArmedOrigin = NoHand /\ ~Running)
  /\ origin' = ArmedOrigin
  /\ home' = ArmedHome
  /\ last_pose' = ArmedPose
  /\ grip' = grip

\* mutant: the old home is used again
LatchOldHome(hand) ==
  /\ hand # NoHand /\ ArmedOrigin = NoHand /\ Running
  /\ origin' = hand
  /\ home' = IF ArmedHome = NoHand THEN HomePose ELSE ArmedHome
  /\ last_pose' = home'
  /\ grip' = hand

(* The first running frame: the motion starts from where the arm is.        *)
Latch(hand) ==
  /\ hand # NoHand /\ ArmedOrigin = NoHand /\ Running
  /\ origin' = hand
  /\ home' = IF ArmedHome = NoHand THEN HomePose ELSE ArmedPose
  /\ last_pose' = home'
  /\ grip' = hand

(* _rebased_position, with _CLUTCH_POSITION_SCALE = 1.                      *)
Rebased(hand) == ArmedHome + (hand - ArmedOrigin)

(* The pose follows the hand from the latched origin.                       *)
Track(hand) ==
  /\ hand # NoHand /\ ArmedOrigin # NoHand
  /\ Rebased(hand) \in -MaxPose .. MaxPose
  /\ origin' = ArmedOrigin
  /\ home' = ArmedHome
  /\ last_pose' = Rebased(hand)
  /\ grip' = hand

Clutch(hand) == Hold(hand) \/ Latch(hand) \/ Track(hand)

-----------------------------------------------------------------------------

(* A loss is silent when neither its first frame carries a reset input nor  *)
(* the kill button had reset before it.                                     *)
Loss(raw) ==
  CASE ~RequiredAbsent(raw) -> "none"
    [] RequiredAbsent(raw) /\ loss # "none" -> loss
    [] OTHER -> IF raw["reset"] = "absent" /\ kill_frames < ActivateFrames THEN "silent"
                                                                          ELSE "told"

Observe(raw) ==
  /\ kill_frames' = CASE raw["kill"] # "high" -> 0
                      [] raw["kill"] = "high" /\ kill_frames < ActivateFrames -> kill_frames + 1
                      [] OTHER -> kill_frames
  /\ loss' = Loss(raw)
  /\ released' = (~RequiredAbsent(raw) /\ (released \/ raw["run_toggle"] = "low"))

Frame(raw, hand) ==
  /\ selector' = [s \in Signals |-> Select(selector[s], raw[s])]
  /\ StopOnLoss(raw) \/ FollowButtons(raw)
  /\ Clutch(hand)
  /\ Observe(raw)

Next == \E raw \in [Signals -> Raw], hand \in Hands \cup {NoHand} : Frame(raw, hand)

Spec == Init /\ [][Next]_vars

-----------------------------------------------------------------------------

(* The clutch has forgotten the engagement and commands the home pose.      *)
SentHome == home = NoHand /\ last_pose = HomePose

(* The kill button, pressed for ActivateFrames frames in a row, stops the   *)
(* session and disarms the clutch whatever else is pressed or lost.  With   *)
(* the required inputs there, every such frame carries the reset, and the   *)
(* arm is sent home; in a loss of inputs, when the loss was not silent.     *)
KillStops ==
  kill_frames = ActivateFrames =>
    /\ state = "stopped" /\ origin = NoHand
    /\ loss = "none" => reset_event
    /\ loss # "silent" => SentHome

(* A lost required input stops the session and disarms the clutch at once,  *)
(* and so long as the loss lasts the arm is at home, unless the reset input *)
(* was lost too in the first frame of the loss: then the code sends no      *)
(* reset, then or later, and the arm stays where it was.                    *)
LossStops ==
  loss # "none" => /\ state = "stopped" /\ origin = NoHand
                   /\ loss = "told" => SentHome

(* Both ways to stop the robot in an emergency do, and say so to the clutch *)
(* (selector debounce, kill and loss branches and clutch reset together).   *)
StopsSendHome == KillStops /\ LossStops

(* Motion never resumes from a button held through a loss of inputs: to run *)
(* again the operator must have let go of the toggle.                       *)
RunningNeedsRelease == state = "running" => released

(* Does not hold: what the comment at teleop_state_manager_retargeter.py:111 says: a       *)
(* button still held after inputs recover is no rising edge, so the session *)
(* leaves STOPPED only after a release.                                     *)
ReleaseAfterLoss == state # "stopped" => released

(* The commanded pose never jumps: it changes by a reset, to the home pose, *)
(* or, while one engagement goes on, by exactly the motion of the hand      *)
(* since the last frame that commanded a pose.                              *)
NoJump ==
  [][last_pose' # last_pose =>
       \/ reset_event' /\ last_pose' = HomePose
       \/ /\ state = "running" /\ state' = "running"
          /\ origin' = origin /\ grip \in Int /\ grip' \in Int
          /\ last_pose' - last_pose = grip' - grip]_vars

-----------------------------------------------------------------------------
(* The inductive invariant. *)

(* The debounce counts every pressed frame.                                 *)
KillCounted == selector["kill"].debounced \/ kill_frames <= selector["kill"].activate

(* A debounced kill stops, and resets in every frame without a loss.        *)
KillForces ==
  selector["kill"].debounced =>
    state = "stopped" /\ (loss = "none" => reset_event /\ SentHome)

(* The state machine knows of the loss, and the arm it was told to send     *)
(* home stays there.                                                        *)
LossForces ==
  /\ required_inputs_lost_prev <=> loss # "none"
  /\ loss # "none" => state = "stopped"
  /\ loss = "told" => SentHome

(* Until the toggle is released, it can have counted as one edge at most.   *)
HeldSinceLoss ==
  ~released => \/ state = "stopped"
               \/ state = "paused" /\ selector["run_toggle"].debounced /\ prev_run_toggle

(* An engaged clutch commands its home plus the motion since the latch.     *)
Engaged ==
  origin # NoHand => /\ state = "running"
                     /\ home # NoHand /\ grip # NoHand
                     /\ last_pose = home + (grip - origin)

FreshHome == home = NoHand => last_pose = HomePose

(* Buttons, state machine and clutch agree: a pressed kill button is never  *)
(* lost between selector and state, a held toggle counts once, and the      *)
(* clutch moves the arm only from a pose it commanded.                      *)
IInv ==
  /\ TypeOK
  /\ KillCounted
  /\ KillForces
  /\ LossForces
  /\ HeldSinceLoss
  /\ Engaged
  /\ FreshHome
=============================================================================
