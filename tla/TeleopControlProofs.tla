----------------------- MODULE TeleopControlProofs -----------------------
(* Proofs about TeleopControl, for every debounce length and every set of   *)
(* hand positions.                                                          *)
EXTENDS TeleopControl, TLAPS

USE TeleopAssumption DEF TeleopAssumption

(* A selector counts towards either state.                                  *)
LEMMA CountingType ==
  ASSUME NEW n \in Nat
  PROVE  /\ [Cleared EXCEPT !.activate = n] \in Selector
         /\ [Cleared EXCEPT !.activate = n].activate = n
         /\ [Cleared EXCEPT !.activate = n].deactivate = 0
         /\ [Cleared EXCEPT !.debounced = TRUE, !.deactivate = n] \in Selector
         /\ [Cleared EXCEPT !.debounced = TRUE, !.deactivate = n].activate = 0
         /\ [Cleared EXCEPT !.debounced = TRUE, !.deactivate = n].deactivate = n
BY DEF Selector, Cleared

(* One debounced frame of a selector keeps its counts below their limits.   *)
LEMMA DebounceType ==
  ASSUME NEW sel \in Selector, NEW pressed \in BOOLEAN,
         sel.activate < ActivateFrames, sel.deactivate < DeactivateFrames
  PROVE  /\ Debounce(sel, pressed) \in Selector
         /\ Debounce(sel, pressed).activate < ActivateFrames
         /\ Debounce(sel, pressed).deactivate < DeactivateFrames
<1> DEFINE kept == [Cleared EXCEPT !.debounced = pressed]
           up == [Cleared EXCEPT !.activate = sel.activate + 1]
           on == [Cleared EXCEPT !.debounced = TRUE]
           down == [Cleared EXCEPT !.debounced = TRUE, !.deactivate = sel.deactivate + 1]
<1>1. /\ sel.activate \in Nat /\ sel.deactivate \in Nat /\ sel.debounced \in BOOLEAN
      /\ ActivateFrames \in Nat /\ DeactivateFrames \in Nat
      /\ 0 < ActivateFrames /\ 0 < DeactivateFrames
  BY DEF Selector
<1>2. \/ Debounce(sel, pressed) = kept
      \/ Debounce(sel, pressed) = up /\ sel.activate + 1 < ActivateFrames
      \/ Debounce(sel, pressed) = on
      \/ Debounce(sel, pressed) = down /\ sel.deactivate + 1 < DeactivateFrames
      \/ Debounce(sel, pressed) = Cleared
  BY <1>1 DEF Debounce
<1>3. kept \in Selector /\ kept.activate = 0 /\ kept.deactivate = 0
  BY DEF Selector, Cleared
<1>4. up \in Selector /\ up.activate = sel.activate + 1 /\ up.deactivate = 0
  <2>1. sel.activate + 1 \in Nat
    BY <1>1
  <2> QED
    BY <2>1, CountingType
<1>5. on \in Selector /\ on.activate = 0 /\ on.deactivate = 0
  BY DEF Selector, Cleared
<1>6. down \in Selector /\ down.activate = 0 /\ down.deactivate = sel.deactivate + 1
  <2>1. sel.deactivate + 1 \in Nat
    BY <1>1
  <2> QED
    BY <2>1, CountingType
<1>7. Cleared \in Selector /\ Cleared.activate = 0 /\ Cleared.deactivate = 0
  BY DEF Selector, Cleared
<1> HIDE DEF kept, up, on, down
<1> QED
  BY <1>1, <1>2, <1>3, <1>4, <1>5, <1>6, <1>7

(* So does a frame of input, absent or not.                                 *)
LEMMA SelectType ==
  ASSUME NEW sel \in Selector, NEW v \in Raw,
         sel.activate < ActivateFrames, sel.deactivate < DeactivateFrames
  PROVE  /\ Select(sel, v) \in Selector
         /\ Select(sel, v).activate < ActivateFrames
         /\ Select(sel, v).deactivate < DeactivateFrames
<1>1. Cleared \in Selector /\ Cleared.activate = 0 /\ Cleared.deactivate = 0
  BY DEF Cleared, Selector
<1>2. Normalize(sel, v) \in BOOLEAN
  BY DEF Normalize
<1> QED
  BY <1>1, <1>2, DebounceType DEF Select

(* A pressed frame is counted, or the selector is active already.           *)
LEMMA PressCounts ==
  ASSUME NEW sel \in Selector
  PROVE  \/ Select(sel, "high").debounced
         \/ ~sel.debounced /\ Select(sel, "high").activate = sel.activate + 1
BY DEF Select, Normalize, Debounce, Selector, Cleared

(* An active selector stays active while its input is not released.         *)
LEMMA StaysActive ==
  ASSUME NEW sel \in Selector, NEW v \in {"between", "high"}, sel.debounced
  PROVE  Select(sel, v).debounced
BY DEF Select, Normalize, Debounce, Selector, Cleared

(* The initial state satisfies the invariant.                               *)
LEMMA InitInv == Init => IInv
<1> SUFFICES ASSUME Init PROVE IInv
  OBVIOUS
<1> USE DEF Init, SelectorInit, ManagerInit, ClutchInit
<1>1. Cleared \in Selector
  BY DEF Cleared, Selector
<1>2. \A s \in Signals : selector[s] = Cleared
  BY DEF Init
<1>3. TypeOK
  <2>1. \A s \in Signals : /\ selector[s].activate < ActivateFrames
                          /\ selector[s].deactivate < DeactivateFrames
    BY <1>2 DEF Cleared
  <2>2. selector \in [Signals -> Selector]
    BY <1>1 DEF Init
  <2>3. /\ kill_frames \in 0 .. ActivateFrames /\ state \in States
        /\ loss \in {"none", "told", "silent"}
    BY DEF Init, States
  <2> QED
    BY <2>1, <2>2, <2>3 DEF Init, TypeOK
<1>4. KillCounted /\ KillForces /\ LossForces
  BY <1>2 DEF Init, KillCounted, KillForces, LossForces, SentHome, Signals, Cleared
<1>5. HeldSinceLoss /\ Engaged /\ FreshHome
  BY DEF Init, HeldSinceLoss, Engaged, FreshHome
<1> QED
  BY <1>3, <1>4, <1>5 DEF IInv

(* The selectors of the next frame.                                         *)
LEMMA SelectorsType ==
  ASSUME TypeOK, NEW raw \in [Signals -> Raw],
         selector' = [s \in Signals |-> Select(selector[s], raw[s])]
  PROVE  /\ selector' \in [Signals -> Selector]
         /\ \A s \in Signals : /\ selector'[s] = Select(selector[s], raw[s])
                               /\ selector'[s].debounced \in BOOLEAN
                               /\ selector'[s].activate < ActivateFrames
                               /\ selector'[s].deactivate < DeactivateFrames
<1>1. \A s \in Signals : /\ selector[s] \in Selector
                         /\ selector[s].activate < ActivateFrames
                         /\ selector[s].deactivate < DeactivateFrames
                         /\ raw[s] \in Raw
  BY DEF TypeOK
<1>2. \A s \in Signals : /\ Select(selector[s], raw[s]) \in Selector
                         /\ Select(selector[s], raw[s]).activate < ActivateFrames
                         /\ Select(selector[s], raw[s]).deactivate < DeactivateFrames
  BY <1>1, SelectType
<1>3. \A s \in Signals : selector'[s] = Select(selector[s], raw[s])
  OBVIOUS
<1> QED
  BY <1>2, <1>3 DEF Selector

(* A frame keeps the type of the state machine.                             *)
LEMMA ManagerType ==
  ASSUME TypeOK, NEW raw \in [Signals -> Raw],
         \A s \in Signals : selector'[s].debounced \in BOOLEAN,
         StopOnLoss(raw) \/ FollowButtons(raw)
  PROVE  /\ state' \in States
         /\ reset_event' \in BOOLEAN
         /\ prev_run_toggle' \in BOOLEAN
         /\ prev_reset' \in BOOLEAN
         /\ required_inputs_lost_prev' \in BOOLEAN
<1>1. Signal("kill") \in BOOLEAN /\ Signal("run_toggle") \in BOOLEAN /\ Signal("reset") \in BOOLEAN
  BY DEF Signal, Signals
<1>2. CASE StopOnLoss(raw)
  BY <1>2 DEF StopOnLoss, States, TypeOK
<1>3. CASE FollowButtons(raw)
  <2>1. Toggled[state] \in States
    BY DEF TypeOK, Toggled, States
  <2>2. state' \in States
    BY <1>1, <1>3, <2>1 DEF FollowButtons, TypeOK, States
  <2> QED
    BY <1>1, <1>3, <2>2 DEF FollowButtons, ResetEdge, TypeOK
<1> QED
  BY <1>2, <1>3

(* The clutch keeps its type, what an engaged clutch commands and where a   *)
(* fresh home is.                                                           *)
LEMMA ClutchInv ==
  ASSUME TypeOK, Engaged, FreshHome, NEW hand \in Hands \cup {NoHand},
         state' \in States, reset_event' \in BOOLEAN, Clutch(hand)
  PROVE  /\ origin' \in Int \cup {NoHand}
         /\ home' \in Int \cup {NoHand}
         /\ last_pose' \in Int
         /\ grip' \in Int \cup {NoHand}
         /\ Engaged'
         /\ FreshHome'
<1> DEFINE o == ArmedOrigin
           h == ArmedHome
           p == ArmedPose
<1>1. /\ o \in Int \cup {NoHand} /\ h \in Int \cup {NoHand} /\ p \in Int
      /\ grip \in Int \cup {NoHand}
  BY DEF TypeOK, ArmedOrigin, ArmedHome, ArmedPose
<1>2. h = NoHand => p = HomePose
  BY DEF FreshHome, ArmedHome, ArmedPose
<1>3. o # NoHand => state' = "running" /\ h # NoHand /\ grip # NoHand /\ p = h + (grip - o)
  BY DEF Engaged, ArmedOrigin, ArmedHome, ArmedPose, Running
<1>4. CASE Hold(hand)
  <2>1. origin' = o /\ home' = h /\ last_pose' = p /\ grip' = grip
    BY <1>4 DEF Hold
  <2> HIDE DEF o, h, p
  <2> QED
    BY <1>1, <1>2, <1>3, <2>1 DEF Engaged, FreshHome
<1>5. CASE Latch(hand)
  <2>1. /\ hand \in Int /\ origin' = hand /\ grip' = hand /\ last_pose' = home'
        /\ home' = (IF h = NoHand THEN HomePose ELSE p) /\ state' = "running"
    BY <1>5 DEF Latch, Running
  <2> HIDE DEF o, h, p
  <2>2. home' \in Int
    BY <1>1, <2>1
  <2> QED
    BY <2>1, <2>2 DEF Engaged, FreshHome
<1>6. CASE Track(hand)
  <2>1. /\ hand \in Int /\ o # NoHand /\ origin' = o /\ home' = h
        /\ last_pose' = h + (hand - o) /\ grip' = hand
    BY <1>6 DEF Track, Rebased
  <2> HIDE DEF o, h, p
  <2>2. o \in Int /\ h \in Int /\ state' = "running"
    BY <1>1, <1>3, <2>1
  <2> QED
    BY <2>1, <2>2 DEF Engaged, FreshHome
<1> QED
  BY <1>4, <1>5, <1>6 DEF Clutch

(* The history variables keep their type.                                   *)
LEMMA ObserveType ==
  ASSUME TypeOK, NEW raw \in [Signals -> Raw], Observe(raw)
  PROVE  /\ kill_frames' \in 0 .. ActivateFrames
         /\ loss' \in {"none", "told", "silent"}
         /\ released' \in BOOLEAN
<1>1. kill_frames' \in 0 .. ActivateFrames /\ released' \in BOOLEAN
  BY DEF TypeOK, Observe, RequiredAbsent
<1>2. loss' \in {"none", "told", "silent"}
  BY DEF TypeOK, Observe, Loss
<1> QED
  BY <1>1, <1>2

(* While the session does not run, a reset sends the arm home and nothing   *)
(* moves it away from there.                                                *)
LEMMA HomeStays ==
  ASSUME NEW hand \in Hands \cup {NoHand}, Clutch(hand), state' # "running",
         reset_event' \/ SentHome
  PROVE  SentHome'
<1>1. ArmedOrigin = NoHand /\ ArmedHome = NoHand /\ ArmedPose = HomePose
  BY DEF ArmedOrigin, ArmedHome, ArmedPose, Running, SentHome
<1>2. Hold(hand)
  BY <1>1 DEF Clutch, Latch, Track, Running
<1> QED
  BY <1>1, <1>2 DEF Hold, SentHome

(* A kill button counted in full is active.                                 *)
LEMMA KillActive ==
  ASSUME TypeOK, KillCounted, kill_frames = ActivateFrames
  PROVE  selector["kill"].debounced
<1>1. selector["kill"].activate \in Nat /\ selector["kill"].activate < ActivateFrames
  BY DEF TypeOK, Signals, Selector
<1> QED
  BY <1>1 DEF KillCounted

(* The kill button is counted, and its signal stops the session.            *)
LEMMA KillInv ==
  ASSUME TypeOK, KillCounted, NEW raw \in [Signals -> Raw], TypeOK',
         \A s \in Signals : selector'[s] = Select(selector[s], raw[s]),
         StopOnLoss(raw) \/ FollowButtons(raw), Observe(raw),
         NEW hand \in Hands \cup {NoHand}, Clutch(hand)
  PROVE  KillCounted' /\ KillForces'
<1>1. /\ selector["kill"] \in Selector
      /\ selector'["kill"] = Select(selector["kill"], raw["kill"])
      /\ kill_frames \in Nat
  BY DEF TypeOK, Signals
<1>2. KillCounted'
  <2>1. CASE raw["kill"] # "high"
    <3>1. kill_frames' = 0
      BY <2>1 DEF Observe
    <3>2. selector'["kill"].activate \in Nat
      BY DEF TypeOK, Signals, Selector
    <3> QED
      BY <3>1, <3>2 DEF KillCounted
  <2>2. CASE raw["kill"] = "high"
    <3>1. kill_frames' <= kill_frames + 1
      BY <1>1, <2>2 DEF Observe
    <3>2. \/ selector'["kill"].debounced
          \/ /\ ~selector["kill"].debounced
             /\ selector'["kill"].activate = selector["kill"].activate + 1
      BY <1>1, <2>2, PressCounts
    <3>3. selector["kill"].activate \in Nat /\ kill_frames' \in Nat
      BY <1>1 DEF TypeOK, Selector
    <3> QED
      BY <1>1, <3>1, <3>2, <3>3 DEF KillCounted
  <2> QED
    BY <2>1, <2>2
<1>3. KillForces'
  <2>1. SUFFICES ASSUME selector'["kill"].debounced
                 PROVE  /\ state' = "stopped"
                        /\ loss' = "none" => reset_event' /\ SentHome'
    BY DEF KillForces
  <2>2. CASE StopOnLoss(raw)
    BY <2>2 DEF StopOnLoss, RequiredLost, Observe, Loss, TypeOK
  <2>3. CASE FollowButtons(raw)
    <3>1. state' = "stopped" /\ reset_event'
      BY <2>1, <2>3 DEF FollowButtons, Signal
    <3>2. SentHome'
      BY <3>1, HomeStays
    <3> QED
      BY <3>1, <3>2
  <2> QED
    BY <2>2, <2>3
<1> QED
  BY <1>2, <1>3

(* A loss stops the session, and after a reset the arm is at home.          *)
LEMMA LossInv ==
  ASSUME TypeOK, KillCounted, KillForces, LossForces, NEW raw \in [Signals -> Raw],
         StopOnLoss(raw) \/ FollowButtons(raw), Observe(raw),
         NEW hand \in Hands \cup {NoHand}, Clutch(hand)
  PROVE  LossForces'
<1>1. CASE StopOnLoss(raw)
  <2>1. /\ RequiredAbsent(raw) /\ state' = "stopped" /\ required_inputs_lost_prev' = TRUE
        /\ reset_event' = (raw["reset"] # "absent" /\ ~required_inputs_lost_prev)
        /\ loss' = Loss(raw)
    BY <1>1 DEF StopOnLoss, RequiredLost, Observe
  <2>2. loss' # "none"
    BY <2>1 DEF Loss
  <2>3. ASSUME loss' = "told" PROVE SentHome'
    <3>1. CASE loss # "none"
      <4>1. loss = "told"
        BY <2>1, <2>3, <3>1 DEF Loss
      <4>2. SentHome
        BY <4>1 DEF LossForces
      <4> QED
        BY <2>1, <4>2, HomeStays
    <3>2. CASE loss = "none" /\ raw["reset"] # "absent"
      <4>1. reset_event'
        BY <2>1, <3>2 DEF LossForces, TypeOK
      <4> QED
        BY <2>1, <4>1, HomeStays
    <3>3. CASE loss = "none" /\ raw["reset"] = "absent"
      <4>1. kill_frames = ActivateFrames
        BY <2>1, <2>3, <3>3 DEF Loss, TypeOK
      <4>2. SentHome
        BY <3>3, <4>1, KillActive DEF KillForces
      <4> QED
        BY <2>1, <4>2, HomeStays
    <3> QED
      BY <3>1, <3>2, <3>3
  <2> QED
    BY <2>1, <2>2, <2>3 DEF LossForces
<1>2. CASE FollowButtons(raw)
  BY <1>2 DEF FollowButtons, RequiredLost, Observe, Loss, LossForces
<1> QED
  BY <1>1, <1>2

(* A toggle held since inputs were lost has counted once at most.           *)
LEMMA HeldInv ==
  ASSUME TypeOK, HeldSinceLoss, NEW raw \in [Signals -> Raw], TypeOK',
         \A s \in Signals : selector'[s] = Select(selector[s], raw[s]),
         StopOnLoss(raw) \/ FollowButtons(raw), Observe(raw)
  PROVE  HeldSinceLoss'
<1>1. /\ selector["run_toggle"] \in Selector
      /\ selector'["run_toggle"] = Select(selector["run_toggle"], raw["run_toggle"])
      /\ raw["run_toggle"] \in Raw
  BY DEF TypeOK, Signals
<1>2. CASE StopOnLoss(raw)
  BY <1>2 DEF StopOnLoss, HeldSinceLoss
<1>3. CASE FollowButtons(raw) /\ ~released'
  <2>1. ~released /\ raw["run_toggle"] \in {"between", "high"}
    BY <1>1, <1>3 DEF FollowButtons, RequiredLost, RequiredAbsent, Observe, Raw
  <2>2. CASE state = "stopped"
    <3>1. CASE state' = "stopped"
      BY <3>1 DEF HeldSinceLoss
    <3>2. CASE state' # "stopped"
      <4>1. Signal("run_toggle") /\ state' = "paused" /\ prev_run_toggle' = Signal("run_toggle")
        BY <1>3, <2>2, <3>2 DEF FollowButtons, RunToggleEdge, Toggled
      <4> QED
        BY <4>1 DEF HeldSinceLoss, Signal
    <3> QED
      BY <3>1, <3>2
  <2>3. CASE state = "paused" /\ selector["run_toggle"].debounced /\ prev_run_toggle
    <3>1. selector'["run_toggle"].debounced
      BY <1>1, <2>1, <2>3, StaysActive
    <3>2. state' \in {"stopped", "paused"} /\ prev_run_toggle'
      BY <1>3, <2>3, <3>1 DEF FollowButtons, RunToggleEdge, Signal
    <3> QED
      BY <3>1, <3>2 DEF HeldSinceLoss
  <2> QED
    BY <2>1, <2>2, <2>3 DEF HeldSinceLoss
<1>4. CASE released'
  BY <1>4 DEF HeldSinceLoss
<1> QED
  BY <1>2, <1>3, <1>4

(* Every frame keeps the invariant.                                         *)
LEMMA NextInv == IInv /\ [Next]_vars => IInv'
<1> SUFFICES ASSUME IInv, [Next]_vars PROVE IInv'
  OBVIOUS
<1>1. CASE Next
  <2>1. PICK raw \in [Signals -> Raw], hand \in Hands \cup {NoHand} : Frame(raw, hand)
    BY <1>1 DEF Next
  <2>2. /\ selector' = [s \in Signals |-> Select(selector[s], raw[s])]
        /\ StopOnLoss(raw) \/ FollowButtons(raw)
        /\ Clutch(hand)
        /\ Observe(raw)
    BY <2>1 DEF Frame
  <2>3. TypeOK /\ KillCounted /\ KillForces /\ LossForces /\ HeldSinceLoss /\ Engaged /\ FreshHome
    BY DEF IInv
  <2>4. /\ selector' \in [Signals -> Selector]
        /\ \A s \in Signals : /\ selector'[s] = Select(selector[s], raw[s])
                              /\ selector'[s].debounced \in BOOLEAN
                              /\ selector'[s].activate < ActivateFrames
                              /\ selector'[s].deactivate < DeactivateFrames
    BY <2>2, <2>3, SelectorsType
  <2>5. /\ state' \in States /\ reset_event' \in BOOLEAN /\ prev_run_toggle' \in BOOLEAN
        /\ prev_reset' \in BOOLEAN /\ required_inputs_lost_prev' \in BOOLEAN
    BY <2>2, <2>3, <2>4, ManagerType
  <2>6. /\ origin' \in Int \cup {NoHand} /\ home' \in Int \cup {NoHand} /\ last_pose' \in Int
        /\ grip' \in Int \cup {NoHand} /\ Engaged' /\ FreshHome'
    BY <2>2, <2>3, <2>5, ClutchInv
  <2>7. /\ kill_frames' \in 0 .. ActivateFrames /\ released' \in BOOLEAN
        /\ loss' \in {"none", "told", "silent"}
    BY <2>2, <2>3, ObserveType
  <2>8. TypeOK'
    BY <2>4, <2>5, <2>6, <2>7 DEF TypeOK
  <2>9. KillCounted' /\ KillForces'
    BY <2>2, <2>3, <2>4, <2>8, KillInv
  <2>10. HeldSinceLoss'
    BY <2>2, <2>3, <2>4, <2>8, HeldInv
  <2>11. LossForces'
    BY <2>2, <2>3, LossInv
  <2> QED
    BY <2>6, <2>8, <2>9, <2>10, <2>11 DEF IInv
<1>2. CASE UNCHANGED vars
  BY <1>2 DEF IInv, TypeOK, KillCounted, KillForces, LossForces, SentHome, HeldSinceLoss,
              Engaged, FreshHome, vars, controlVars, clutchVars, historyVars
<1> QED
  BY <1>1, <1>2

(* Buttons, state machine and clutch agree in every reachable state.        *)
THEOREM Invariance == Spec => []IInv
<1> QED
  BY InitInv, NextInv, PTL DEF Spec

(* The kill button and a loss of inputs always stop the session, and send   *)
(* the arm home whenever the reset could be sent.                           *)
THEOREM StopsAlwaysSendHome == Spec => []StopsSendHome
<1>1. IInv => KillStops
  <2> SUFFICES ASSUME IInv, kill_frames = ActivateFrames
               PROVE  /\ state = "stopped" /\ origin = NoHand
                      /\ loss = "none" => reset_event
                      /\ loss # "silent" => SentHome
    BY DEF KillStops
  <2>1. selector["kill"].debounced
    BY KillActive DEF IInv
  <2>2. state = "stopped" /\ (loss = "none" => reset_event /\ SentHome)
    BY <2>1 DEF IInv, KillForces
  <2>3. loss \in {"none", "told", "silent"} /\ (loss = "told" => SentHome)
    BY DEF IInv, TypeOK, LossForces
  <2>4. origin = NoHand
    BY <2>2 DEF IInv, Engaged
  <2> QED
    BY <2>2, <2>3, <2>4
<1>2. IInv => LossStops
  BY DEF IInv, LossForces, Engaged, LossStops
<1>3. IInv => StopsSendHome
  BY <1>1, <1>2 DEF StopsSendHome
<1> QED
  BY <1>3, Invariance, PTL

(* No button held through a loss of inputs makes the robot move again.      *)
THEOREM NoHeldRestart == Spec => []RunningNeedsRelease
<1>1. IInv => RunningNeedsRelease
  BY DEF IInv, HeldSinceLoss, RunningNeedsRelease
<1> QED
  BY <1>1, Invariance, PTL

(* The commanded pose never jumps, however often the operator re-clutches.  *)
THEOREM PoseNeverJumps == Spec => NoJump
<1> DEFINE Smooth ==
      last_pose' # last_pose =>
        \/ reset_event' /\ last_pose' = HomePose
        \/ /\ state = "running" /\ state' = "running"
           /\ origin' = origin /\ grip \in Int /\ grip' \in Int
           /\ last_pose' - last_pose = grip' - grip
<1>1. IInv /\ [Next]_vars => [Smooth]_vars
  <2> SUFFICES ASSUME IInv, Next PROVE Smooth
    BY DEF vars
  <2>1. PICK raw \in [Signals -> Raw], hand \in Hands \cup {NoHand} : Frame(raw, hand)
    BY DEF Next
  <2>2. TypeOK /\ Engaged /\ FreshHome /\ Clutch(hand)
    BY <2>1 DEF IInv, Frame
  <2>3. CASE Hold(hand)
    BY <2>3 DEF Hold, ArmedPose
  <2>4. CASE Latch(hand)
    BY <2>2, <2>4 DEF Latch, ArmedPose, ArmedHome, FreshHome
  <2>5. CASE Track(hand)
    <3>1. ~reset_event' /\ state' = "running" /\ origin # NoHand /\ hand # NoHand
      BY <2>5 DEF Track, ArmedOrigin, Running
    <3>2. /\ origin' = origin /\ grip' = hand
          /\ last_pose' = home + (hand - origin)
      BY <2>5, <3>1 DEF Track, Rebased, ArmedOrigin, ArmedHome
    <3>3. /\ state = "running" /\ last_pose = home + (grip - origin)
          /\ home \in Int /\ origin \in Int /\ grip \in Int
      BY <2>2, <3>1 DEF Engaged, TypeOK
    <3>4. hand \in Int
      BY <3>1
    <3> QED
      BY <3>1, <3>2, <3>3, <3>4
  <2> QED
    BY <2>2, <2>3, <2>4, <2>5 DEF Clutch
<1>2. Spec => [][Smooth]_vars
  BY <1>1, Invariance, PTL DEF Spec
<1> QED
  BY <1>2 DEF NoJump
=============================================================================
