---------------------------- MODULE VideoProofs ----------------------------
(* Theorems about VideoRecording, for every number of cameras, queue size,  *)
(* number of frames and number of sessions.                                 *)
EXTENDS VideoRecording, SequenceTheorems, WellFoundedInduction, TLAPS

(* What the proofs need of the types.                                       *)
Types ==
  /\ alive \in [Camera -> BOOLEAN]
  /\ queue \in [Camera -> Seq(Nat)]
  /\ result \in [Camera -> {"none", "ok", "error"}]
  /\ stop \in [Camera -> BOOLEAN]
  /\ video \in [Camera -> Seq(Frame)]
  /\ accepted \in [Camera -> Seq(Frame)]
  /\ clock \in Nat
  /\ cam \in Camera

(* When the encoder has an episode.                                         *)
Phase ==
  /\ active \in BOOLEAN
  /\ main \in {"feed", "put", "join", "cleanup"} => active
  /\ active \/ main # "ready" => status = "recording"
  /\ main = "ready" /\ status = "recording" /\ episode_buffer.keys # "popped"
     /\ episode_buffer.frames # <<>> => active
  /\ main \in {"put", "join", "cleanup", "move", "metadata"} => episode_buffer.keys = "popped"
  /\ main \in {"move", "metadata"} => ~active

(* What a camera was given is what is encoded and what is queued, with the  *)
(* sentinel behind it or without.                                           *)
Whole(c) == accepted[c] = video[c] \o queue[c]
Sealed(c) == Append(accepted[c], Sentinel) = video[c] \o queue[c]

(* No sentinel has been put.                                                *)
Open(c) == \/ main = "feed"
           \/ main = "ready" /\ episode_buffer.keys # "popped"
           \/ main = "put" /\ c >= cam

(* The thread was given up, or its queue will be emptied only after that.   *)
Joined(c) == \/ ~active
             \/ main = "cleanup"
             \/ main = "join" /\ c < cam

Flow ==
  \A c \in Camera :
    alive[c] =>
      /\ active => Whole(c) \/ Sealed(c)
      /\ active /\ Open(c) => Whole(c)
      /\ Joined(c) => stop[c]

IInv == Types /\ Phase /\ Flow /\ NothingLost

-----------------------------------------------------------------------------
(* A frame moves from the queue to the video.                               *)
LEMMA MoveHead ==
  ASSUME NEW v \in Seq(Nat), NEW q \in Seq(Nat), q # <<>>
  PROVE  Append(v, Head(q)) \o Tail(q) = v \o q
<1> DEFINE l == Append(v, Head(q)) \o Tail(q)
           r == v \o q
<1>1. Len(q) \in Nat \ {0} /\ Len(v) \in Nat /\ Tail(q) \in Seq(Nat) /\ Len(Tail(q)) = Len(q) - 1
  OBVIOUS
<1>2. Append(v, Head(q)) \in Seq(Nat) /\ Len(Append(v, Head(q))) = Len(v) + 1
  BY <1>1
<1>3. l \in Seq(Nat) /\ r \in Seq(Nat) /\ Len(l) = Len(v) + Len(q) /\ Len(r) = Len(v) + Len(q)
  BY <1>1, <1>2
<1>4. ASSUME NEW i \in 1..(Len(v) + Len(q))
      PROVE  l[i] = r[i]
  <2>1. CASE i <= Len(v)
    <3>1. i \in 1..Len(v) /\ i \in 1..Len(Append(v, Head(q)))
      BY <1>1, <1>2, <2>1
    <3>2. l[i] = Append(v, Head(q))[i]
      BY <1>1, <1>2, <3>1
    <3>3. Append(v, Head(q))[i] = v[i]
      BY <3>1, <1>1
    <3>4. r[i] = v[i]
      BY <3>1, <1>1
    <3>5. QED
      BY <3>2, <3>3, <3>4
  <2>2. CASE i = Len(v) + 1
    <3>1. l[i] = Head(q)
      BY <1>1, <1>2, <2>2
    <3>2. r[i] = q[1]
      BY <1>1, <2>2
    <3>3. QED
      BY <3>1, <3>2
  <2>3. CASE i > Len(v) + 1
    <3>1. i - (Len(v) + 1) \in 1..Len(Tail(q)) /\ i - Len(v) \in 1..Len(q)
      BY <1>1, <2>3
    <3>2. l[i] = Tail(q)[i - (Len(v) + 1)]
      BY <1>1, <1>2, <2>3, <3>1
    <3>3. Tail(q)[i - (Len(v) + 1)] = q[i - Len(v)]
      BY <1>1, <3>1
    <3>4. r[i] = q[i - Len(v)]
      BY <1>1, <2>3, <3>1
    <3>5. QED
      BY <3>2, <3>3, <3>4
  <2>4. QED
    BY <1>1, <2>1, <2>2, <2>3
<1>5. QED
  BY <1>3, <1>4

LEMMA AppendConcat ==
  ASSUME NEW v \in Seq(Nat), NEW q \in Seq(Nat), NEW x \in Nat
  PROVE  Append(v \o q, x) = v \o Append(q, x)
<1>1. v \o q \in Seq(Nat) /\ <<x>> \in Seq(Nat)
  OBVIOUS
<1>2. Append(v \o q, x) = (v \o q) \o <<x>> /\ Append(q, x) = q \o <<x>>
  BY <1>1, AppendIsConcat
<1>3. (v \o q) \o <<x>> = v \o (q \o <<x>>)
  BY <1>1, ConcatAssociative
<1>4. QED
  BY <1>2, <1>3

(* The sentinel comes after all frames.                                     *)
LEMMA SentinelIsLast ==
  ASSUME NEW a \in Seq(Frame), NEW v \in Seq(Frame), NEW q \in Seq(Nat), q # <<>>,
         Head(q) = Sentinel,
         a = v \o q \/ Append(a, Sentinel) = v \o q
  PROVE  v = a
<1> DEFINE k == Len(v) + 1
           r == v \o q
<1>1. Len(q) \in Nat \ {0} /\ Len(v) \in Nat /\ Len(a) \in Nat
  OBVIOUS
<1>2. v \in Seq(Nat) /\ a \in Seq(Nat)
  BY DEF Frame
<1>3. Len(r) = Len(v) + Len(q) /\ r[k] = Sentinel
  <2>1. Len(r) = Len(v) + Len(q)
    BY <1>1, <1>2
  <2>2. r[k] = q[1]
    BY <1>1, <1>2
  <2>3. QED
    BY <2>1, <2>2
<1>4. \A i \in 1..Len(a) : a[i] # Sentinel
  BY DEF Frame
<1>5. Append(a, Sentinel) = r
  <2>1. ASSUME a = r
        PROVE  FALSE
    <3>1. k \in 1..Len(a) /\ a[k] = Sentinel
      BY <1>1, <1>3, <2>1
    <3>2. QED
      BY <1>4, <3>1
  <2>2. QED
    BY <2>1
<1>6. Len(a) + 1 = Len(v) + Len(q)
  BY <1>2, <1>3, <1>5
<1>7. Len(v) >= Len(a)
  <2>1. SUFFICES ASSUME Len(v) < Len(a)
                 PROVE  FALSE
    BY <1>1
  <2>2. k \in 1..Len(a)
    BY <1>1, <2>1
  <2>3. a[k] = Append(a, Sentinel)[k]
    BY <1>2, <2>2
  <2>4. QED
    BY <1>3, <1>4, <1>5, <2>2, <2>3
<1>8. Len(v) = Len(a)
  BY <1>1, <1>6, <1>7
<1>9. ASSUME NEW i \in 1..Len(a)
      PROVE  v[i] = a[i]
  <2>1. a[i] = Append(a, Sentinel)[i]
    BY <1>2
  <2>2. r[i] = v[i]
    BY <1>1, <1>2, <1>8
  <2>3. QED
    BY <1>5, <2>1, <2>2
<1>10. QED
  BY <1>8, <1>9, <1>2

-----------------------------------------------------------------------------
LEMMA InitIInv == Init => IInv
<1> SUFFICES ASSUME Init
             PROVE  IInv
  OBVIOUS
<1>1. 1 \in Camera
  BY EncoderAssumption DEF Camera
<1>2. Types
  BY <1>1 DEF Init, WriterInit, EncoderInit, None, Types, Frame
<1>3. Phase /\ Flow /\ NothingLost
  BY DEF Init, WriterInit, EncoderInit, EmptyBuffer, None, Phase, Flow, NothingLost
<1>4. QED
  BY <1>2, <1>3 DEF IInv

(* A step that leaves the encoder alone and puts no new place of the        *)
(* control thread under an obligation.                                      *)
LEMMA Aside ==
  ASSUME IInv, UNCHANGED encoderVars, Phase', cam' \in Camera, clock' \in Nat,
         \A c \in Camera : active /\ alive[c] /\ Open(c)' => Open(c),
         \A c \in Camera : alive[c] /\ Joined(c)' => Joined(c)
  PROVE  IInv'
  BY DEF IInv, Types, Flow, NothingLost, encoderVars, Whole, Sealed

(* What the cameras other than c see of a step of the thread of c.          *)
LEMMA EncodeKeeps ==
  ASSUME IInv, NEW c \in Camera, Encode(c), UNCHANGED <<writerVars, videoVars>>
  PROVE  IInv'
<1> USE DEF IInv, Types
<1>1. queue[c] \in Seq(Nat) /\ video[c] \in Seq(Frame) /\ accepted[c] \in Seq(Frame)
      /\ queue[c] # <<>> /\ Head(queue[c]) # Sentinel /\ alive[c]
  BY DEF Encode
<1>2. Head(queue[c]) \in Frame /\ Tail(queue[c]) \in Seq(Nat)
  BY <1>1 DEF Frame
<1>3. /\ queue' = [queue EXCEPT ![c] = Tail(@)]
      /\ video' = [video EXCEPT ![c] = Append(@, Head(queue[c]))]
      /\ UNCHANGED <<active, alive, result, stop, accepted, main, cam, clock, status,
                     episode_buffer>>
  BY DEF Encode, writerVars, videoVars
<1>4. Types'
  BY <1>1, <1>2, <1>3
<1>5. Phase'
  BY <1>3 DEF Phase
<1>6. video'[c] \o queue'[c] = video[c] \o queue[c]
  <2>1. video[c] \in Seq(Nat)
    BY <1>1 DEF Frame
  <2>2. video'[c] = Append(video[c], Head(queue[c])) /\ queue'[c] = Tail(queue[c])
    BY <1>3
  <2>3. QED
    BY <1>1, <2>1, <2>2, MoveHead
<1>7. \A d \in Camera : video'[d] \o queue'[d] = video[d] \o queue[d]
  BY <1>3, <1>6
<1>8. Flow'
  BY <1>3, <1>7 DEF Flow, Whole, Sealed, Open, Joined
<1>9. NothingLost'
  BY <1>1, <1>3 DEF NothingLost
<1>10. QED
  BY <1>4, <1>5, <1>8, <1>9

LEMMA EndsKeeps ==
  ASSUME IInv, NEW c \in Camera, Ends(c) \/ EncodeFails(c), UNCHANGED <<writerVars, videoVars>>
  PROVE  IInv'
<1> USE DEF IInv, Types
<1>1. queue[c] \in Seq(Nat) /\ video[c] \in Seq(Frame) /\ accepted[c] \in Seq(Frame) /\ alive[c]
  BY DEF Ends, EncodeFails
<1>2. /\ alive' = [alive EXCEPT ![c] = FALSE]
      /\ \/ Ends(c) /\ result' = [result EXCEPT ![c] = "ok"]
         \/ result' = [result EXCEPT ![c] = "error"]
      /\ queue' = [queue EXCEPT ![c] = IF @ = <<>> THEN @ ELSE Tail(@)]
      /\ UNCHANGED <<active, stop, video, accepted, main, cam, clock, status, episode_buffer>>
  BY DEF Ends, EncodeFails, writerVars, videoVars
<1>3. queue'[c] \in Seq(Nat)
  BY <1>1, <1>2
<1>4. Types'
  BY <1>2, <1>3
<1>5. Phase'
  BY <1>2 DEF Phase
<1>6. Flow'
  <2>1. \A d \in Camera : alive'[d] => d # c /\ alive[d] /\ queue'[d] = queue[d]
    BY <1>2
  <2>2. QED
    BY <1>2, <2>1 DEF Flow, Whole, Sealed, Open, Joined
<1>7. NothingLost'
  <2>1. ASSUME result'[c] = "ok", ~stop[c]
        PROVE  video[c] = accepted[c]
    <3>1. Ends(c)
      BY <1>2, <2>1
    <3>2. queue[c] # <<>> /\ Head(queue[c]) = Sentinel
      BY <2>1, <3>1 DEF Ends
    <3>3. active
      BY <1>1, <2>1 DEF Flow, Joined
    <3>4. Whole(c) \/ Sealed(c)
      BY <1>1, <3>3 DEF Flow
    <3>5. QED
      BY <1>1, <3>2, <3>4, SentinelIsLast DEF Whole, Sealed
  <2>2. \A d \in Camera \ {c} : alive'[d] = alive[d] /\ result'[d] = result[d]
    BY <1>2
  <2>3. QED
    BY <1>2, <2>1, <2>2 DEF NothingLost
<1>8. QED
  BY <1>4, <1>5, <1>6, <1>7

-----------------------------------------------------------------------------
(* A new episode, and one that is cancelled.                                *)
LEMMA StartKeeps ==
  ASSUME IInv, StartEpisode, Phase', cam' \in Camera, clock' \in Nat, main' = "feed"
  PROVE  IInv'
<1>1. Types'
  BY DEF IInv, Types, StartEpisode, None
<1>2. \A c \in Camera : Whole(c)'
  BY DEF StartEpisode, None, Whole
<1>3. Flow'
  BY <1>2 DEF Flow, Joined, StartEpisode
<1>4. NothingLost'
  BY DEF StartEpisode, None, NothingLost
<1>5. QED
  BY <1>1, <1>3, <1>4 DEF IInv

LEMMA CancelKeeps ==
  ASSUME IInv, Cancel, Phase', cam' \in Camera, clock' \in Nat
  PROVE  IInv'
<1>1. CASE active
  <2>1. CancelEpisode
    BY <1>1 DEF Cancel
  <2>2. Types'
    BY <2>1 DEF CancelEpisode, IInv, Types, None
  <2>3. Flow' /\ NothingLost'
    BY <2>1 DEF CancelEpisode, None, Flow, NothingLost
  <2>4. QED
    BY <2>2, <2>3 DEF IInv
<1>2. CASE ~active
  BY <1>2, Aside DEF Cancel, Joined
<1>3. QED
  BY <1>1, <1>2

(* What NextCamera does to the place and the camera.                        *)
LEMMA NextIsCamera ==
  ASSUME NEW place, cam \in Camera, NextCamera(place)
  PROVE  /\ cam' \in Camera
         /\ \/ main' = main /\ cam' = cam + 1 /\ cam # NumCameras
            \/ main' = place /\ cam' = 1 /\ cam = NumCameras
         /\ \A c \in Camera : c = cam \/ c < cam \/ c > cam
         /\ \A c \in Camera : c >= cam + 1 => c >= cam /\ c # cam
         /\ \A c \in Camera : c < cam + 1 => c < cam \/ c = cam
         /\ \A c \in Camera : ~(c < 1) /\ (cam = NumCameras => c < cam \/ c = cam)
  BY EncoderAssumption DEF NextCamera, Camera

-----------------------------------------------------------------------------
LEMMA BeginFrameKeeps == IInv /\ BeginFrame => IInv'
<1> SUFFICES ASSUME IInv, BeginFrame
             PROVE  IInv'
  OBVIOUS
<1>1. /\ main = "ready" /\ main' = "feed" /\ episode_buffer.keys # "popped"
      /\ status = "recording"
      /\ UNCHANGED <<cam, clock, status, episode_buffer>>
  BY DEF BeginFrame, Ready, writerVars
<1>2. cam' \in Camera /\ clock' \in Nat
  BY <1>1 DEF IInv, Types
<1>3. CASE episode_buffer.frames = <<>>
  <2>1. StartEpisode
    BY <1>3 DEF BeginFrame
  <2>2. Phase'
    BY <1>1, <2>1 DEF Phase, StartEpisode
  <2>3. QED
    BY <1>1, <1>2, <2>1, <2>2, StartKeeps
<1>4. CASE episode_buffer.frames # <<>>
  <2>1. UNCHANGED encoderVars /\ active
    BY <1>1, <1>4 DEF BeginFrame, IInv, Phase
  <2>2. Phase'
    BY <1>1, <2>1 DEF IInv, Phase, encoderVars
  <2>3. QED
    BY <1>1, <1>2, <2>1, <2>2, Aside DEF Open, Joined, encoderVars
<1>5. QED
  BY <1>3, <1>4

LEMMA FeedCameraKeeps == IInv /\ FeedCamera => IInv'
<1> SUFFICES ASSUME IInv, FeedCamera
             PROVE  IInv'
  OBVIOUS
<1> DEFINE frame == clock + 1
<1>1. main = "feed" /\ cam \in Camera /\ active /\ alive[cam] /\ frame \in Frame /\ clock \in Nat
  BY DEF FeedCamera, Feed, IInv, Types, Frame, Sentinel
<1>2. /\ cam' \in Camera /\ main' \in {"feed", "ready"} /\ UNCHANGED status
      /\ (clock' = clock \/ clock' = clock + 1) /\ UNCHANGED <<active, alive, result, stop, video>>
  BY <1>1, NextIsCamera DEF FeedCamera, AddFrame, Feed, writerVars
<1>3. Phase'
  BY <1>1, <1>2 DEF IInv, Phase
<1>4. \A c \in Camera : alive[c] => Whole(c)
  BY <1>1 DEF IInv, Flow, Open
<1>5. queue[cam] \in Seq(Nat) /\ video[cam] \in Seq(Frame) /\ accepted[cam] \in Seq(Frame)
  BY <1>1 DEF IInv, Types
<1>6. CASE Full(cam)
  <2>1. UNCHANGED encoderVars \/ UNCHANGED <<queue, accepted>>
    BY <1>6 DEF FeedCamera, Feed
  <2>2. UNCHANGED <<queue, accepted>>
    BY <2>1 DEF encoderVars
  <2>3. Types'
    BY <1>1, <1>2, <2>2 DEF IInv, Types
  <2>4. Flow' /\ NothingLost'
    BY <1>1, <1>2, <1>4, <2>2 DEF IInv, Flow, NothingLost, Whole, Joined
  <2>5. QED
    BY <1>3, <2>3, <2>4 DEF IInv
<1>7. CASE ~Full(cam)
  <2>1. /\ queue' = [queue EXCEPT ![cam] = Append(@, frame)]
        /\ accepted' = [accepted EXCEPT ![cam] = Append(@, frame)]
    BY <1>7 DEF FeedCamera, Feed
  <2>2. Append(queue[cam], frame) \in Seq(Nat) /\ Append(accepted[cam], frame) \in Seq(Frame)
    BY <1>1, <1>5
  <2>3. Types'
    BY <1>1, <1>2, <2>1, <2>2 DEF IInv, Types
  <2>4. ASSUME NEW c \in Camera, c = cam
        PROVE  Whole(c)'
    <3>1. accepted[c] = video[c] \o queue[c]
      BY <1>1, <1>4, <2>4 DEF Whole
    <3>2. video[c] \in Seq(Nat) /\ queue[c] \in Seq(Nat) /\ frame \in Nat
      BY <1>1, <1>5, <2>4 DEF Frame
    <3>3. Append(video[c] \o queue[c], frame) = video[c] \o Append(queue[c], frame)
      BY <3>2, AppendConcat
    <3>4. /\ accepted'[c] = Append(accepted[c], frame)
          /\ queue'[c] = Append(queue[c], frame) /\ video'[c] = video[c]
      BY <1>1, <1>2, <2>1, <2>4 DEF IInv, Types
    <3>5. QED
      BY <3>1, <3>3, <3>4 DEF Whole
  <2>5. \A c \in Camera : alive'[c] => Whole(c)'
    <3>1. \A c \in Camera \ {cam} : accepted'[c] = accepted[c] /\ queue'[c] = queue[c]
      BY <2>1 DEF IInv, Types
    <3>2. QED
      BY <1>2, <1>4, <2>4, <3>1 DEF Whole
  <2>6. Flow'
    BY <1>1, <1>2, <2>5 DEF IInv, Flow, Joined
  <2>7. NothingLost'
    BY <1>1, <1>2, <2>1 DEF IInv, Types, NothingLost
  <2>8. QED
    BY <1>3, <2>3, <2>6, <2>7 DEF IInv
<1>8. QED
  BY <1>6, <1>7

LEMMA PutSentinelKeeps == IInv /\ PutNextSentinel => IInv'
<1> SUFFICES ASSUME IInv, PutNextSentinel
             PROVE  IInv'
  OBVIOUS
<1>1. /\ main = "put" /\ cam \in Camera /\ active
      /\ queue' = [queue EXCEPT ![cam] = Append(@, Sentinel)]
      /\ UNCHANGED <<active, alive, result, stop, video, accepted, clock, status, episode_buffer>>
  BY DEF PutNextSentinel, PutSentinel, IInv, Types, writerVars
<1>2. NextCamera("join")
  BY DEF PutNextSentinel
<1>3. queue[cam] \in Seq(Nat) /\ video[cam] \in Seq(Nat) /\ accepted[cam] \in Seq(Nat)
      /\ Append(queue[cam], Sentinel) \in Seq(Nat)
  BY <1>1 DEF IInv, Types, Frame, Sentinel
<1>4. Types'
  BY <1>1, <1>2, <1>3, NextIsCamera DEF IInv, Types
<1>5. Phase'
  BY <1>1, <1>2, NextIsCamera DEF IInv, Phase
<1>6. ASSUME NEW c \in Camera, c = cam, alive[c]
      PROVE  Sealed(c)'
  <2>1. accepted[c] = video[c] \o queue[c]
    <3>1. Open(c)
      BY <1>1, <1>6 DEF Open, Camera
    <3>2. QED
      BY <1>1, <1>6, <3>1 DEF IInv, Flow, Whole
  <2>2. Append(video[c] \o queue[c], Sentinel) = video[c] \o Append(queue[c], Sentinel)
    BY <1>3, <1>6, AppendConcat DEF Sentinel
  <2>3. queue'[c] = Append(queue[c], Sentinel)
    BY <1>1, <1>6 DEF IInv, Types
  <2>4. QED
    BY <1>1, <2>1, <2>2, <2>3 DEF Sealed
<1>7. \A c \in Camera \ {cam} : queue'[c] = queue[c]
  BY <1>1 DEF IInv, Types
<1>8. \A c \in Camera : Open(c)' => Open(c) /\ c # cam
  BY <1>1, <1>2, NextIsCamera DEF Open, IInv, Phase
<1>9. \A c \in Camera : ~Joined(c)'
  BY <1>1, <1>2, NextIsCamera DEF Joined
<1>10. Flow'
  <2>1. ASSUME NEW c \in Camera, alive'[c]
        PROVE  (Whole(c) \/ Sealed(c))' /\ (Open(c)' => Whole(c)')
    <3>1. CASE c = cam
      BY <1>1, <1>6, <1>8, <2>1, <3>1
    <3>2. CASE c # cam
      BY <1>1, <1>7, <1>8, <2>1, <3>2 DEF IInv, Flow, Whole, Sealed
    <3>3. QED
      BY <3>1, <3>2
  <2>2. QED
    BY <1>9, <2>1 DEF Flow
<1>11. NothingLost'
  BY <1>1 DEF IInv, NothingLost
<1>12. QED
  BY <1>4, <1>5, <1>10, <1>11 DEF IInv

LEMMA JoinKeeps == IInv /\ (Join \/ JoinError) => IInv'
<1> SUFFICES ASSUME IInv, Join \/ JoinError
             PROVE  IInv'
  OBVIOUS
<1>1. main = "join" /\ cam \in Camera /\ active /\ episode_buffer.keys = "popped"
  BY DEF Join, JoinError, IInv, Types, Phase
<1>2. CASE JoinError
  <2>1. /\ ~alive[cam] /\ result' = [result EXCEPT ![cam] = "none"]
        /\ main' = "ready" /\ cam' = 1
        /\ UNCHANGED <<active, alive, queue, stop, video, accepted, clock, status, episode_buffer>>
    BY <1>2 DEF JoinError, CollectError, SaveVideosFails
  <2>2. 1 \in Camera
    BY EncoderAssumption DEF Camera
  <2>3. Types' /\ Phase'
    BY <1>1, <2>1, <2>2 DEF IInv, Types, Phase
  <2>4. Flow'
    BY <1>1, <2>1 DEF IInv, Flow, Whole, Sealed, Open, Joined
  <2>5. NothingLost'
    BY <1>1, <2>1 DEF IInv, Types, NothingLost
  <2>6. QED
    BY <2>3, <2>4, <2>5 DEF IInv
<1>3. CASE Join
  <2>1. NextCamera("cleanup") /\ UNCHANGED writerVars
    BY <1>3 DEF Join
  <2>2. /\ (stop' = stop /\ ~alive[cam]) \/ stop' = [stop EXCEPT ![cam] = TRUE]
        /\ UNCHANGED <<active, alive, queue, result, video, accepted, clock, status, episode_buffer>>
    BY <1>3, <2>1 DEF Join, Collect, JoinTimesOut, encoderVars, writerVars
  <2>3. Types'
    BY <1>1, <2>1, <2>2, NextIsCamera DEF IInv, Types
  <2>4. Phase'
    BY <1>1, <2>1, <2>2, NextIsCamera DEF IInv, Phase
  <2>5. \A c \in Camera : ~Open(c)'
    BY <1>1, <2>1, <2>2, NextIsCamera DEF Open
  <2>6. \A c \in Camera : stop[c] => stop'[c]
    BY <1>1, <2>2 DEF IInv, Types
  <2>7. alive[cam] => stop'[cam]
    BY <1>1, <2>2 DEF IInv, Types
  <2>8. \A c \in Camera : Joined(c)' => Joined(c) \/ c = cam
    BY <1>1, <2>1, <2>2, NextIsCamera DEF Joined
  <2>9. Flow'
    BY <2>2, <1>1, <2>5, <2>6, <2>7, <2>8 DEF IInv, Flow, Whole, Sealed
  <2>10. NothingLost'
    BY <2>2, <2>6 DEF IInv, NothingLost
  <2>11. QED
    BY <2>3, <2>4, <2>9, <2>10 DEF IInv
<1>4. QED
  BY <1>2, <1>3

LEMMA MoveKeeps == IInv /\ (Move \/ MoveFails \/ EndSave) => IInv'
<1> SUFFICES ASSUME IInv, Move \/ MoveFails \/ EndSave
             PROVE  IInv'
  OBVIOUS
<1>1. /\ main \in {"move", "metadata"} /\ episode_buffer.keys = "popped"
      /\ UNCHANGED encoderVars /\ UNCHANGED clock /\ UNCHANGED status /\ cam \in Camera
  BY DEF Move, MoveFails, EndSave, IInv, Types, Phase, SaveVideos, SaveVideosFails, SaveMetadata,
         writerVars
<1>2. \/ main' \in {"move", "metadata"} /\ UNCHANGED episode_buffer
      \/ main' = "ready" /\ UNCHANGED episode_buffer
      \/ main' = "ready" /\ episode_buffer'.frames = <<>>
  BY NextIsCamera, <1>1 DEF Move, MoveFails, EndSave, SaveVideos, SaveVideosFails, SaveMetadata,
                            EmptyBuffer, writerVars
<1>3. cam' \in Camera
  BY <1>1, NextIsCamera, EncoderAssumption DEF Move, MoveFails, EndSave, Camera
<1>4. Phase'
  BY <1>1, <1>2 DEF IInv, Phase, encoderVars
<1>5. ~active
  BY <1>1 DEF IInv, Phase
<1>6. QED
  BY <1>1, <1>3, <1>4, <1>5, Aside DEF Joined, IInv, Types

LEMMA EndEpisodeKeeps == IInv /\ EndEpisode => IInv'
<1> SUFFICES ASSUME IInv, EndEpisode
             PROVE  IInv'
  OBVIOUS
<1>1. /\ main = "cleanup" /\ main' = "move" /\ active' = FALSE /\ queue' = None(<<>>)
      /\ UNCHANGED <<alive, result, stop, video, accepted, cam, clock, status, episode_buffer>>
  BY DEF EndEpisode, Cleanup, writerVars
<1>2. Types'
  BY <1>1 DEF IInv, Types, None
<1>3. Phase'
  BY <1>1 DEF IInv, Phase
<1>4. Flow' /\ NothingLost'
  BY <1>1 DEF IInv, Flow, Joined, NothingLost
<1>5. QED
  BY <1>2, <1>3, <1>4 DEF IInv

LEMMA FeedRaisesKeeps == IInv /\ FeedCameraRaises => IInv'
<1> SUFFICES ASSUME IInv, FeedCameraRaises
             PROVE  IInv'
  OBVIOUS
<1>1. /\ main = "feed" /\ main' = "ready" /\ cam \in Camera /\ cam' = 1 /\ active
      /\ result' = [result EXCEPT ![cam] = "none"]
      /\ UNCHANGED <<active, alive, queue, stop, video, accepted, status>>
      /\ clock' = clock + 1
  BY DEF FeedCameraRaises, FeedRaises, AddFrameFails, IInv, Types, Phase
<1>2. 1 \in Camera
  BY EncoderAssumption DEF Camera
<1>3. Types' /\ Phase'
  BY <1>1, <1>2 DEF IInv, Types, Phase
<1>4. Flow'
  BY <1>1 DEF IInv, Flow, Whole, Sealed, Open, Joined
<1>5. NothingLost'
  BY <1>1 DEF IInv, Types, NothingLost
<1>6. QED
  BY <1>3, <1>4, <1>5 DEF IInv

LEMMA BeginSaveKeeps == IInv /\ (BeginSave \/ SaveRefused) => IInv'
<1> SUFFICES ASSUME IInv, BeginSave \/ SaveRefused
             PROVE  IInv'
  OBVIOUS
<1>1. /\ main = "ready" /\ UNCHANGED <<cam, clock, status>> /\ UNCHANGED encoderVars
      /\ cam \in Camera /\ clock \in Nat
  BY DEF BeginSave, SaveRefused, SaveData, SaveRaises, IInv, Types
<1>2. CASE BeginSave
  <2>1. /\ main' = "put" /\ episode_buffer.keys = "all" /\ episode_buffer.frames # <<>>
        /\ episode_buffer'.keys = "popped" /\ status = "recording"
    <3>1. main' = "put" /\ Ready /\ Valid /\ episode_buffer' = [episode_buffer EXCEPT !.keys = "popped"]
      BY <1>2 DEF BeginSave, SaveData
    <3>2. episode_buffer'.keys = "popped"
      BY <3>1, <1>1, <1>2 DEF Valid
    <3>3. QED
      BY <3>1, <3>2 DEF Valid, Ready
  <2>2. active
    BY <1>1, <2>1 DEF IInv, Phase
  <2>3. Phase'
    BY <1>1, <2>1, <2>2 DEF IInv, Phase, encoderVars
  <2>4. QED
    BY <1>1, <2>1, <2>2, <2>3, Aside DEF Open, Joined, encoderVars
<1>3. CASE SaveRefused
  <2>1. main' = "ready"
    BY <1>1, <1>3 DEF SaveRefused
  <2>2. episode_buffer' = episode_buffer \/ episode_buffer'.keys = "popped"
    BY <1>3 DEF SaveRefused, SaveRaises
  <2>3. Phase'
    BY <1>1, <2>1, <2>2 DEF IInv, Phase, encoderVars
  <2>4. QED
    BY <1>1, <2>1, <2>2, <2>3, Aside DEF Open, Joined, encoderVars
<1>4. QED
  BY <1>2, <1>3

(* The end of an episode that is thrown away, and of a session.             *)
LEMMA DiscardKeeps == IInv /\ (Discard \/ Finish \/ ResumeSession) => IInv'
<1> SUFFICES ASSUME IInv, Discard \/ Finish \/ ResumeSession
             PROVE  IInv'
  OBVIOUS
<1>1. UNCHANGED <<main, cam, clock>> /\ cam \in Camera /\ clock \in Nat
  BY DEF Discard, Finish, ResumeSession, ClearEpisodeBuffer, Finalize, Resume, IInv, Types
<1>2. CASE Discard \/ Finish
  <2>1. Cancel /\ main = "ready" /\ active' = FALSE
    BY <1>2 DEF Discard, Finish, Cancel, CancelEpisode, IInv, Phase, encoderVars
  <2>2. episode_buffer'.frames = <<>> \/ UNCHANGED episode_buffer
    BY <1>2 DEF Discard, Finish, ClearEpisodeBuffer, Finalize, EmptyBuffer
  <2>3. status = "recording"
    BY <1>2 DEF Discard, Finish, ClearEpisodeBuffer, Finalize, Ready
  <2>4. status' \in {"recording", "finalized"}
        /\ (UNCHANGED episode_buffer /\ status' = "recording" => episode_buffer'.frames = <<>>)
    BY <1>2, <2>3 DEF Discard, Finish, ClearEpisodeBuffer, Finalize, EmptyBuffer
  <2>5. Phase'
    BY <1>1, <2>1, <2>2, <2>3, <2>4 DEF Phase
  <2>6. QED
    BY <1>1, <2>1, <2>5, CancelKeeps
<1>3. CASE ResumeSession
  <2>1. /\ UNCHANGED encoderVars /\ status # "recording" /\ episode_buffer'.frames = <<>>
        /\ status' = "recording"
    BY <1>3 DEF ResumeSession, Resume, EmptyBuffer
  <2>2. ~active
    BY <2>1 DEF IInv, Phase
  <2>3. Phase'
    BY <1>1, <2>1, <2>2 DEF IInv, Phase, encoderVars
  <2>4. QED
    BY <1>1, <2>1, <2>2, <2>3, Aside DEF Joined
<1>4. QED
  BY <1>2, <1>3

-----------------------------------------------------------------------------
LEMMA StepIInv == IInv /\ [VideoNext]_vars => IInv'
<1>1. ASSUME IInv, Encoding
      PROVE  IInv'
  <2>1. PICK c \in Camera : Thread(c) /\ UNCHANGED <<writerVars, videoVars>>
    BY <1>1 DEF Encoding
  <2>2. QED
    BY <1>1, <2>1, EncodeKeeps, EndsKeeps DEF Thread
<1>2. ASSUME IInv, UNCHANGED vars
      PROVE  IInv'
  BY <1>2 DEF vars, writerVars, encoderVars, videoVars, IInv, Types, Phase, Flow, NothingLost,
              Whole, Sealed, Open, Joined
<1>3. QED
  BY <1>1, <1>2, BeginFrameKeeps, FeedCameraKeeps, FeedRaisesKeeps, BeginSaveKeeps,
     PutSentinelKeeps, JoinKeeps, EndEpisodeKeeps, MoveKeeps, DiscardKeeps
     DEF VideoNext, Feeding, Saving

LEMMA Invariance == VideoSpec => []IInv
  BY InitIInv, StepIInv, PTL DEF VideoSpec

(* Whatever the queue size and the order of the threads, an encoder that    *)
(* ended on the sentinel has encoded every frame it was given, in order.    *)
THEOREM EncodersLoseNothing == VideoSpec => []NothingLost
<1>1. IInv => NothingLost
  BY DEF IInv
<1>2. QED
  BY <1>1, Invariance, PTL

(* The writer uses the encoder only while it has an episode, and closes it. *)
THEOREM EncoderHasEpisode == VideoSpec => []EncoderFollows
<1>1. IInv => EncoderFollows
  BY DEF IInv, Phase, EncoderFollows
<1>2. QED
  BY <1>1, Invariance, PTL

(* Whatever fails, the encoders have the frames of the episode that is being *)
(* recorded, all of them, and none of another (video_utils.py, add_frame).   *)
THEOREM EncodersAreSound == VideoSpec => []EncodersSound
<1>1. QED
  BY EncodersLoseNothing, EncoderHasEpisode, PTL DEF EncodersSound
-----------------------------------------------------------------------------
(* The videos of the saved episodes. *)

(* What the proofs of the videos need of the types.                         *)
Buffer == [index : Nat, frames : Seq(Frame), keys : {"all", "uneven", "popped"}]

FilmTypes ==
  /\ episode_buffer \in Buffer
  /\ info \in [episodes : Nat, frames : Nat]
  /\ log \in Seq(Seq(Frame))
  /\ segments \in Seq([Camera -> Segment])
  /\ fed \in Seq([dropped : SUBSET (Camera \X Frame), late : SUBSET Camera])
  /\ new_segment \in [Camera -> Segment]
  /\ video_files \in [Camera -> Seq(Seq(Frame))]
  /\ dropped \subseteq Camera \X Frame
  /\ late \subseteq Camera
  /\ main \in {"ready", "feed", "put", "join", "cleanup", "move", "metadata"}

(* The episodes of the log, and what was noted of them.                     *)
Together == Len(log) = Len(segments) /\ Len(fed) = Len(segments)

(* The control thread is in an episode whose columns are all alike.         *)
Filming == active /\ episode_buffer.keys = "all"

Closing == main \in {"put", "join", "cleanup", "move", "metadata"}

(* The cameras of which the result is looked at or given up.                *)
Settled(c) == main \in {"cleanup", "move", "metadata"} \/ (main = "join" /\ c < cam)

(* The frames that the camera was offered.                                  *)
FramesOf(c) ==
  IF main = "feed" /\ c < cam THEN Append(episode_buffer.frames, clock + 1)
                              ELSE episode_buffer.frames

(* No frame of the future was buffered or dropped.                          *)
Numbered ==
  /\ main \in {"ready", "cleanup", "metadata"} => cam = 1
  /\ \A i \in 1..Len(episode_buffer.frames) : episode_buffer.frames[i] <= clock
  /\ \A p \in dropped : p[2] <= clock \/ (main = "feed" /\ p[1] < cam /\ p[2] = clock + 1)

(* An encoder has what it was offered and could take, and its result is     *)
(* there until an error of it ends the episode.                             *)
Filmed(c) ==
  /\ accepted[c] = Given(c, FramesOf(c), dropped)
  /\ ~alive[c] => result[c] \in {"ok", "error"}
  /\ Settled(c) /\ c \notin late => ~alive[c] /\ result[c] = "ok"

Begins(s, t) == Len(s) <= Len(t) /\ \A i \in 1..Len(s) : s[i] = t[i]

FilmInv ==
  /\ Filming \/ Closing => \A c \in Camera : Filmed(c)
  /\ \A c \in Camera : stop[c] => c \in late
  /\ \A c \in Camera : Begins(video[c], accepted[c])
  /\ \A c \in Camera : ~active => queue[c] = <<>>

(* Where the videos of the last episode are.                                *)
LastFile(c) == IF segments = <<>> THEN 0 ELSE segments[Len(segments)][c].file
LastTo(c) == IF segments = <<>> THEN 0 ELSE segments[Len(segments)][c].to

(* The video of the camera is where the episode's metadata will say.        *)
Moved(c) == main = "metadata" \/ (main = "move" /\ c < cam)

(* The place of a video that starts a file, and of one that is appended.    *)
Starts(c) == new_segment[c].from = 0 /\ new_segment[c].file = LastFile(c) + 1
Follows(c) == /\ segments # <<>> /\ new_segment[c].from > 0
              /\ new_segment[c].from = LastTo(c) /\ new_segment[c].file = LastFile(c)

(* The files hold the videos of the episodes; one more file at the end may  *)
(* have a video of none.                                                    *)
Filed(c) ==
  /\ Len(video_files[c]) \in {LastFile(c), LastFile(c) + 1}
  /\ segments # <<>> => LastFile(c) >= 1 /\ LastTo(c) >= 1
  /\ Moved(c) => /\ ~alive[c]
                 /\ Starts(c) \/ Follows(c)
                 /\ new_segment[c].file <= Len(video_files[c])
                 /\ new_segment[c].to > new_segment[c].from

(* Every file is as long as the last video in it says.                      *)
Fits(c) ==
  /\ \A e \in 1..Len(segments) :
       /\ segments[e][c].file \in 1..LastFile(c)
       /\ segments[e][c].to <= Len(video_files[c][segments[e][c].file])
  /\ segments # <<>> /\ (Moved(c) => Starts(c)) =>
       Len(video_files[c][LastFile(c)]) = LastTo(c)
  /\ Moved(c) => /\ Len(video_files[c][new_segment[c].file]) = new_segment[c].to
                 /\ FilmAt(video_files[c], new_segment[c]) = video[c]

PlacesInv == \A c \in Camera : Filed(c) /\ (c \notin torn => Fits(c))

-----------------------------------------------------------------------------
(* Induction over the numbers, with a set for the predicate.                *)
NatLess == {p \in Nat \X Nat : p[1] < p[2]}

LEMMA Induct ==
  ASSUME NEW S, 0 \in S, \A n \in Nat : n \in S => n + 1 \in S
  PROVE  Nat \subseteq S
<1> DEFINE T == Nat \ S
<1>1. SUFFICES ASSUME T # {} PROVE FALSE
  OBVIOUS
<1>2. T \subseteq Nat
  OBVIOUS
<1>wf. IsWellFoundedOn(NatLess, Nat)
  BY NatLessThanWellFounded DEF NatLess, OpToRel
<1> HIDE DEF T
<1>3. PICK x \in T : \A y \in T : ~(<<y, x>> \in NatLess)
  BY <1>1, <1>2, <1>wf, WFMin
<1>4. x \in Nat /\ x \notin S
  BY DEF T
<1>5. x # 0
  BY <1>4
<1>6. x - 1 \in Nat /\ x - 1 < x
  BY <1>4, <1>5
<1>7. x - 1 \notin T
  <2>1. <<x - 1, x>> \in NatLess
    BY <1>4, <1>6 DEF NatLess
  <2>2. QED
    BY <1>3, <2>1
<1>8. x - 1 \in S
  BY <1>6, <1>7 DEF T
<1>f. QED
  BY <1>4, <1>6, <1>8

(* What the recursive function of FlattenSeq satisfies.                     *)
Flattens(s, n, g) == g = [i \in 1..n |-> IF i = 1 THEN s[i] ELSE g[i - 1] \o s[i]]

LEMMA FlattensAt ==
  ASSUME NEW s, NEW n, NEW g, Flattens(s, n, g), NEW k \in 1..n
  PROVE  g[k] = IF k = 1 THEN s[k] ELSE g[k - 1] \o s[k]
<1> DEFINE f == [i \in 1..n |-> IF i = 1 THEN s[i] ELSE g[i - 1] \o s[i]]
<1>1. f[k] = IF k = 1 THEN s[k] ELSE g[k - 1] \o s[k]
  OBVIOUS
<1>2. g = f
  BY DEF Flattens
<1> HIDE DEF f
<1>3. g[k] = f[k]
  BY <1>2
<1>4. QED
  BY <1>1, <1>3

LEMMA FlattensExists ==
  ASSUME NEW s, NEW n \in Nat
  PROVE  \E g : Flattens(s, n, g)
<1> DEFINE S == {m \in Nat : \E g : Flattens(s, m, g)}
<1>1. 0 \in S
  <2>1. Flattens(s, 0, [i \in 1..0 |-> s[i]])
    BY DEF Flattens
  <2>2. QED
    BY <2>1
<1>2. ASSUME NEW m \in Nat, m \in S
      PROVE  m + 1 \in S
  <2>1. PICK g : Flattens(s, m, g)
    BY <1>2
  <2> DEFINE h == [i \in 1..(m + 1) |->
                     IF i = 1 THEN s[i] ELSE g[i - 1] \o s[i]]
  <2>2. \A i \in 1..m : g[i] = IF i = 1 THEN s[i] ELSE g[i - 1] \o s[i]
    BY <2>1 DEF Flattens
  <2>3. \A i \in 1..m : h[i] = g[i]
    BY <2>2
  <2>4. \A i \in 1..(m + 1) : i # 1 => i - 1 \in 1..m
    OBVIOUS
  <2>5. h = [i \in 1..(m + 1) |-> IF i = 1 THEN s[i] ELSE h[i - 1] \o s[i]]
    BY <2>3, <2>4
  <2>6. Flattens(s, m + 1, h)
    BY <2>5 DEF Flattens
  <2>7. QED
    BY <2>6
<1>3. Nat \subseteq S
  <2> HIDE DEF S
  <2>1. QED
    BY <1>1, <1>2, Induct
<1>4. QED
  BY <1>3

LEMMA FlattensAgree ==
  ASSUME NEW s, NEW t, NEW n \in Nat, NEW g, NEW h,
         Flattens(s, n, g), Flattens(t, n + 1, h), \A i \in 1..n : s[i] = t[i]
  PROVE  n # 0 => g[n] = h[n]
<1> DEFINE S == {k \in Nat : k \in 1..n => g[k] = h[k]}
<1>1. 0 \in S
  OBVIOUS
<1>2. ASSUME NEW k \in Nat, k \in S
      PROVE  k + 1 \in S
  <2>1. SUFFICES ASSUME k + 1 \in 1..n PROVE g[k + 1] = h[k + 1]
    OBVIOUS
  <2>2. g[k + 1] = IF k + 1 = 1 THEN s[k + 1] ELSE g[k + 1 - 1] \o s[k + 1]
    BY <2>1, FlattensAt
  <2>3. k + 1 \in 1..(n + 1)
    BY <2>1
  <2>4. h[k + 1] = IF k + 1 = 1 THEN t[k + 1] ELSE h[k + 1 - 1] \o t[k + 1]
    BY <2>3, FlattensAt
  <2>5. k + 1 - 1 = k /\ (k + 1 = 1 \/ k \in 1..n)
    BY <2>1
  <2>6. QED
    BY <1>2, <2>1, <2>2, <2>4, <2>5
<1>3. Nat \subseteq S
  <2> HIDE DEF S
  <2>1. QED
    BY <1>1, <1>2, Induct
<1>4. QED
  BY <1>3

LEMMA FlattenEmpty ==
  ASSUME NEW s, s = <<>>
  PROVE  FlattenSeq(s) = <<>>
  BY DEF FlattenSeq

LEMMA FlattenIs ==
  ASSUME NEW s, NEW n \in Nat, n # 0, Len(s) = n
  PROVE  \E g : Flattens(s, n, g) /\ FlattenSeq(s) = g[n]
<1> DEFINE g == CHOOSE g : g = [i \in 1..n |-> IF i = 1 THEN s[i] ELSE g[i - 1] \o s[i]]
<1>1. Flattens(s, n, g)
  BY FlattensExists DEF Flattens
<1>2. FlattenSeq(s) = g[n]
  BY DEF FlattenSeq
<1>3. QED
  BY <1>1, <1>2

(* One sequence more is appended.                                           *)
LEMMA FlattenNext ==
  ASSUME NEW s, NEW t, NEW n \in Nat, Len(s) = n, Len(t) = n + 1, n = 0 => s = <<>>,
         \A i \in 1..n : s[i] = t[i], <<>> \o t[n + 1] = t[n + 1]
  PROVE  FlattenSeq(t) = FlattenSeq(s) \o t[n + 1]
<1>1. PICK h : Flattens(t, n + 1, h) /\ FlattenSeq(t) = h[n + 1]
  BY FlattenIs
<1>2. h[n + 1] = IF n + 1 = 1 THEN t[n + 1] ELSE h[n + 1 - 1] \o t[n + 1]
  <2>1. n + 1 \in 1..(n + 1)
    OBVIOUS
  <2>2. QED
    BY <1>1, <2>1, FlattensAt
<1>3. CASE n = 0
  <2>1. FlattenSeq(s) = <<>>
    BY <1>3, FlattenEmpty
  <2>2. h[n + 1] = t[n + 1]
    BY <1>2, <1>3
  <2>3. QED
    BY <1>1, <2>1, <2>2
<1>4. CASE n # 0
  <2>1. PICK g : Flattens(s, n, g) /\ FlattenSeq(s) = g[n]
    BY <1>4, FlattenIs
  <2>2. g[n] = h[n]
    BY <1>1, <1>4, <2>1, FlattensAgree
  <2>3. n \in 1..n /\ n + 1 - 1 = n /\ n + 1 # 1
    BY <1>4
  <2>4. QED
    BY <1>1, <1>2, <2>1, <2>2, <2>3
<1>5. QED
  BY <1>3, <1>4
LEMMA GivenNone == \A c, lost : Given(c, <<>>, lost) = <<>>
<1> TAKE c, lost
<1> DEFINE s == [i \in 1..Len(<<>>) |->
                   IF <<c, <<>>[i]>> \in lost THEN <<>> ELSE <<<<>>[i]>>]
<1>1. s = <<>>
  OBVIOUS
<1>2. Given(c, <<>>, lost) = FlattenSeq(s)
  BY DEF Given
<1> HIDE DEF s
<1>3. QED
  BY <1>1, <1>2, FlattenEmpty

(* One frame more, that the queue took or dropped.                          *)
(* What a frame adds to what the camera's encoder was given.                *)
Adds(c, x, lost, added) == added = IF <<c, x>> \in lost THEN <<>> ELSE <<x>>

GivenMore(c, frames, x, lost, added) ==
  Given(c, Append(frames, x), lost) = Given(c, frames, lost) \o added

LEMMA GivenAppend ==
  ASSUME NEW c, NEW frames \in Seq(Frame), NEW lost, NEW x \in Frame,
         NEW added, Adds(c, x, lost, added)
  PROVE  GivenMore(c, frames, x, lost, added)
<1> DEFINE longer == Append(frames, x)
           n == Len(frames)
           s == [i \in 1..n |-> IF <<c, frames[i]>> \in lost THEN <<>> ELSE <<frames[i]>>]
           t == [i \in 1..(n + 1) |->
                   IF <<c, longer[i]>> \in lost THEN <<>> ELSE <<longer[i]>>]
<1>1. n \in Nat /\ Len(longer) = n + 1 /\ longer[n + 1] = x
      /\ \A i \in 1..n : longer[i] = frames[i]
  OBVIOUS
<1>2. Given(c, frames, lost) = FlattenSeq(s)
  BY DEF Given
<1>3. Given(c, longer, lost) = FlattenSeq(t)
  BY <1>1 DEF Given
<1> HIDE DEF longer, n
<1>n. n \in Nat
  BY <1>1
<1>4. Len(s) = n /\ Len(t) = n + 1
  BY <1>1
<1>0. n = 0 => s = <<>>
  BY <1>n
<1>5. \A i \in 1..n : s[i] = t[i]
  BY <1>1
<1>6. t[n + 1] = added /\ added \in {<<>>, <<x>>}
  BY <1>1 DEF Adds
<1>7. <<>> \o t[n + 1] = t[n + 1]
  BY <1>6
<1> HIDE DEF s, t
<1>8. FlattenSeq(t) = FlattenSeq(s) \o t[n + 1]
  BY <1>n, <1>0, <1>4, <1>5, <1>7, FlattenNext
<1>9. QED
  BY <1>2, <1>3, <1>6, <1>8 DEF longer, GivenMore

LEMMA GivenTaken ==
  ASSUME NEW c, NEW frames \in Seq(Frame), NEW lost, NEW x \in Frame, <<c, x>> \notin lost
  PROVE  Given(c, Append(frames, x), lost) = Given(c, frames, lost) \o <<x>>
<1>1. Adds(c, x, lost, <<x>>)
  BY DEF Adds
<1>2. GivenMore(c, frames, x, lost, <<x>>)
  BY <1>1, GivenAppend
<1>3. QED
  BY <1>2 DEF GivenMore

LEMMA GivenDropped ==
  ASSUME NEW c, NEW frames \in Seq(Frame), NEW lost, NEW x \in Frame, <<c, x>> \in lost
  PROVE  Given(c, Append(frames, x), lost) = Given(c, frames, lost) \o <<>>
<1>1. Adds(c, x, lost, <<>>)
  BY DEF Adds
<1>2. GivenMore(c, frames, x, lost, <<>>)
  BY <1>1, GivenAppend
<1>3. QED
  BY <1>2 DEF GivenMore

(* What was dropped of other frames or by other cameras does not matter.    *)
LEMMA GivenSame ==
  ASSUME NEW c, NEW frames \in Seq(Frame), NEW lost, NEW more,
         \A i \in 1..Len(frames) : <<c, frames[i]>> \in lost <=> <<c, frames[i]>> \in more
  PROVE  Given(c, frames, lost) = Given(c, frames, more)
<1> DEFINE s == [i \in 1..Len(frames) |->
                   IF <<c, frames[i]>> \in lost THEN <<>> ELSE <<frames[i]>>]
           t == [i \in 1..Len(frames) |->
                   IF <<c, frames[i]>> \in more THEN <<>> ELSE <<frames[i]>>]
<1>1. s = t
  <2>1. ASSUME NEW i \in 1..Len(frames)
        PROVE  (IF <<c, frames[i]>> \in lost THEN <<>> ELSE <<frames[i]>>)
                 = (IF <<c, frames[i]>> \in more THEN <<>> ELSE <<frames[i]>>)
    OBVIOUS
  <2>2. QED
    BY <2>1, Zenon
<1>2. Given(c, frames, lost) = FlattenSeq(s) /\ Given(c, frames, more) = FlattenSeq(t)
  BY DEF Given
<1> HIDE DEF s, t
<1>3. QED
  BY <1>1, <1>2

LEMMA BeginsAppend ==
  ASSUME NEW s \in Seq(Frame), NEW t \in Seq(Frame), NEW x \in Frame, Begins(s, t)
  PROVE  Begins(s, Append(t, x))
<1>1. Len(Append(t, x)) = Len(t) + 1 /\ Len(s) \in Nat /\ Len(t) \in Nat
  OBVIOUS
<1>2. \A i \in 1..Len(t) : Append(t, x)[i] = t[i]
  OBVIOUS
<1>3. \A i \in 1..Len(s) : i \in 1..Len(t)
  BY <1>1 DEF Begins
<1>4. QED
  BY <1>1, <1>2, <1>3 DEF Begins

LEMMA BeginsIsPrefix ==
  ASSUME NEW s \in Seq(Frame), NEW t \in Seq(Frame), Begins(s, t)
  PROVE  IsPrefix(s, t)
<1>1. SubSeq(s, 1, Len(s)) = [i \in 1..Len(s) |-> s[i]]
  OBVIOUS
<1>2. SubSeq(t, 1, Len(s)) = [i \in 1..Len(s) |-> t[i]]
  BY DEF Begins
<1>3. QED
  BY <1>1, <1>2 DEF Begins, IsPrefix

(* The frames encoded come before those queued.                             *)
LEMMA WholeBegins ==
  ASSUME NEW a \in Seq(Frame), NEW v \in Seq(Frame), NEW q \in Seq(Nat),
         a = v \o q \/ Append(a, Sentinel) = v \o q
  PROVE  Begins(v, a)
<1>1. Len(q) \in Nat /\ Len(v) \in Nat /\ Len(a) \in Nat /\ v \in Seq(Nat) /\ a \in Seq(Nat)
  BY DEF Frame
<1>2. /\ Len(v \o q) = Len(v) + Len(q)
      /\ \A i \in 1..Len(v) : (v \o q)[i] = v[i]
  BY <1>1
<1>3. CASE a = v \o q
  BY <1>1, <1>2, <1>3 DEF Begins
<1>4. CASE Append(a, Sentinel) = v \o q
  <2>1. Len(Append(a, Sentinel)) = Len(a) + 1 /\ Append(a, Sentinel)[Len(a) + 1] = Sentinel
        /\ \A i \in 1..Len(a) : Append(a, Sentinel)[i] = a[i]
    BY <1>1 DEF Sentinel
  <2>2. Len(a) + 1 = Len(v) + Len(q)
    BY <1>2, <1>4, <2>1
  <2>3. Len(v) # Len(a) + 1
    <3>1. SUFFICES ASSUME Len(v) = Len(a) + 1 PROVE FALSE
      OBVIOUS
    <3>2. Len(a) + 1 \in 1..Len(v)
      BY <1>1, <3>1
    <3>3. v[Len(a) + 1] = Sentinel
      BY <1>2, <1>4, <2>1, <3>2
    <3>4. v[Len(a) + 1] \in Frame
      BY <3>2
    <3>5. QED
      BY <3>3, <3>4 DEF Frame
  <2>4. Len(v) <= Len(a)
    BY <1>1, <2>2, <2>3
  <2>5. \A i \in 1..Len(v) : v[i] = a[i]
    <3>1. \A i \in 1..Len(v) : i \in 1..Len(a)
      BY <1>1, <2>4
    <3>2. QED
      BY <1>2, <1>4, <2>1, <3>1
  <2>6. QED
    BY <2>4, <2>5 DEF Begins
<1>5. QED
  BY <1>3, <1>4

-----------------------------------------------------------------------------
(* The types. *)

LEMMA BufferType ==
  ASSUME NEW n \in Nat, NEW f \in Seq(Frame), NEW k \in {"all", "uneven", "popped"}
  PROVE  [index |-> n, frames |-> f, keys |-> k] \in Buffer
  BY DEF Buffer

LEMMA EmptyBufferIs ==
  ASSUME NEW n \in Nat
  PROVE  /\ EmptyBuffer(n) \in Buffer
         /\ EmptyBuffer(n).frames = <<>> /\ EmptyBuffer(n).keys = "all"
<1>1. <<>> \in Seq(Frame)
  OBVIOUS
<1>2. QED
  BY <1>1, BufferType DEF EmptyBuffer

LEMMA FramesExcept ==
  ASSUME NEW b \in Buffer, NEW f \in Seq(Frame)
  PROVE  /\ [b EXCEPT !.frames = f] \in Buffer
         /\ [b EXCEPT !.frames = f].frames = f /\ [b EXCEPT !.frames = f].keys = b.keys
  BY DEF Buffer

LEMMA KeysExcept ==
  ASSUME NEW b \in Buffer, NEW k \in {"all", "uneven", "popped"}
  PROVE  /\ [b EXCEPT !.keys = k] \in Buffer
         /\ [b EXCEPT !.keys = k].frames = b.frames /\ [b EXCEPT !.keys = k].keys = k
  BY DEF Buffer

(* What the steps do to the buffer.                                         *)
BufferSame == episode_buffer' = episode_buffer

BufferPops ==
  episode_buffer'.frames = episode_buffer.frames /\ episode_buffer'.keys = "popped"

BufferEmpties == episode_buffer'.frames = <<>> /\ episode_buffer'.keys = "all"

LEMMA AddFrameIs ==
  ASSUME IInv, FilmTypes, AddFrame
  PROVE  /\ episode_buffer' \in Buffer /\ clock + 1 \in Frame
         /\ episode_buffer'.frames = Append(episode_buffer.frames, clock + 1)
         /\ episode_buffer'.keys = episode_buffer.keys
         /\ clock' = clock + 1 /\ UNCHANGED <<info, log>>
<1>1. clock \in Nat /\ episode_buffer \in Buffer
  BY DEF IInv, Types, FilmTypes
<1>2. clock + 1 \in Frame
  BY <1>1 DEF Frame, Sentinel
<1>3. episode_buffer.frames \in Seq(Frame)
  BY <1>1 DEF Buffer
<1>4. Append(episode_buffer.frames, clock + 1) \in Seq(Frame)
  BY <1>2, <1>3
<1> DEFINE longer == Append(episode_buffer.frames, clock + 1)
<1>5. /\ episode_buffer' = [episode_buffer EXCEPT !.frames = longer]
      /\ clock' = clock + 1 /\ UNCHANGED <<info, log>>
  BY DEF AddFrame, disk, history
<1> HIDE DEF longer
<1>6. longer \in Seq(Frame)
  BY <1>4 DEF longer
<1>7. /\ episode_buffer' \in Buffer /\ episode_buffer'.frames = longer
      /\ episode_buffer'.keys = episode_buffer.keys
  BY <1>1, <1>5, <1>6, FramesExcept
<1>8. QED
  BY <1>2, <1>5, <1>7 DEF longer

LEMMA AddFrameFailsIs ==
  ASSUME IInv, FilmTypes, AddFrameFails
  PROVE  /\ episode_buffer' \in Buffer
         /\ episode_buffer'.frames = episode_buffer.frames
         /\ episode_buffer'.keys = "uneven"
         /\ clock' = clock + 1 /\ UNCHANGED <<info, log>>
<1>1. episode_buffer \in Buffer
  BY DEF FilmTypes
<1>2. /\ episode_buffer' = [episode_buffer EXCEPT !.keys = "uneven"]
      /\ clock' = clock + 1 /\ UNCHANGED <<info, log>>
  BY DEF AddFrameFails, disk, history
<1>3. QED
  BY <1>1, <1>2, KeysExcept

LEMMA SaveDataIs ==
  ASSUME IInv, FilmTypes, SaveData
  PROVE  /\ episode_buffer' \in Buffer /\ BufferPops
         /\ episode_buffer.keys = "all" /\ episode_buffer.frames # <<>>
         /\ status = "recording" /\ UNCHANGED <<clock, info, log>>
<1>1. episode_buffer \in Buffer
  BY DEF FilmTypes
<1>2. /\ episode_buffer' = [episode_buffer EXCEPT !.keys = "popped"]
      /\ UNCHANGED <<clock, info, log>>
  BY DEF SaveData, history
<1>3. episode_buffer' \in Buffer /\ BufferPops
  BY <1>1, <1>2, KeysExcept DEF BufferPops
<1>4. QED
  BY <1>2, <1>3 DEF SaveData, Valid, Ready

LEMMA SaveRaisesIs ==
  ASSUME IInv, FilmTypes, SaveRaises
  PROVE  /\ episode_buffer' \in Buffer
         /\ BufferSame \/ BufferPops
         /\ UNCHANGED <<clock, info, log>>
<1>1. episode_buffer \in Buffer
  BY DEF FilmTypes
<1>2. /\ BufferSame \/ episode_buffer' = [episode_buffer EXCEPT !.keys = "popped"]
      /\ UNCHANGED <<clock, info, log>>
  BY DEF SaveRaises, BufferSame, disk, history
<1>3. [episode_buffer EXCEPT !.keys = "popped"] \in Buffer
      /\ [episode_buffer EXCEPT !.keys = "popped"].frames = episode_buffer.frames
      /\ [episode_buffer EXCEPT !.keys = "popped"].keys = "popped"
  BY <1>1, KeysExcept
<1>4. QED
  BY <1>1, <1>2, <1>3 DEF BufferPops, BufferSame

LEMMA SaveMetadataIs ==
  ASSUME IInv, FilmTypes, SaveMetadata
  PROVE  /\ episode_buffer' \in Buffer /\ BufferEmpties
         /\ info' \in [episodes : Nat, frames : Nat]
         /\ episode_buffer.frames \in Seq(Frame)
         /\ log' = Append(log, episode_buffer.frames)
         /\ UNCHANGED clock
<1>1. /\ episode_buffer' = EmptyBuffer(info.episodes + 1)
      /\ info' = [episodes |-> info.episodes + 1,
                  frames |-> info.frames + Len(episode_buffer.frames)]
      /\ log' = Append(log, episode_buffer.frames)
      /\ UNCHANGED clock
  BY DEF SaveMetadata
<1>2. info.episodes \in Nat /\ info.frames \in Nat
  BY DEF FilmTypes
<1>3. episode_buffer.frames \in Seq(Frame)
  BY DEF FilmTypes, Buffer
<1>4. Len(episode_buffer.frames) \in Nat
  BY <1>3
<1>5. info.episodes + 1 \in Nat /\ info.frames + Len(episode_buffer.frames) \in Nat
  BY <1>2, <1>4
<1>6. info' \in [episodes : Nat, frames : Nat]
  BY <1>1, <1>5
<1>7. QED
  BY <1>1, <1>3, <1>5, <1>6, EmptyBufferIs DEF BufferEmpties

(* A buffer that is thrown away, and the end of a session.                  *)
LEMMA BufferGoes ==
  ASSUME IInv, FilmTypes, ClearEpisodeBuffer \/ Finalize \/ Resume
  PROVE  /\ episode_buffer' \in Buffer /\ (BufferSame \/ BufferEmpties)
         /\ UNCHANGED <<clock, info, log>>
<1>1. info.episodes \in Nat /\ episode_buffer \in Buffer
  BY DEF FilmTypes
<1>2. /\ BufferSame \/ episode_buffer' = EmptyBuffer(info.episodes)
      /\ UNCHANGED <<clock, info, log>>
  BY DEF ClearEpisodeBuffer, Finalize, Resume, BufferSame, disk, history
<1>3. QED
  BY <1>1, <1>2, EmptyBufferIs DEF BufferEmpties, BufferSame

(* What is on disk and noted of the episodes stays as it is.                *)
Kept == UNCHANGED <<log, segments, fed, new_segment, video_files, torn>>

Places == {"ready", "feed", "put", "join", "cleanup", "move", "metadata"}

LEMMA TypesAside ==
  ASSUME FilmTypes, episode_buffer' \in Buffer, UNCHANGED info, Kept,
         dropped' \subseteq Camera \X Frame, late' \subseteq Camera, main' \in Places
  PROVE  FilmTypes'
  BY DEF FilmTypes, Kept, Places

LEMMA FeedTypes ==
  ASSUME IInv, FilmTypes, Feeding
  PROVE  FilmTypes' /\ Kept
<1>1. dropped \subseteq Camera \X Frame /\ late \subseteq Camera /\ episode_buffer \in Buffer
      /\ main \in Places /\ cam \in Camera /\ clock \in Nat
  BY DEF IInv, Types, FilmTypes, Places
<1>2. CASE BeginFrame
  <2>1. /\ UNCHANGED <<episode_buffer, info, log>> /\ main' = "feed"
        /\ UNCHANGED <<segments, fed, new_segment, video_files, torn>>
    BY <1>2 DEF BeginFrame, Disk, writerVars, disk, history
  <2>2. (dropped' = dropped \/ dropped' = {}) /\ (late' = late \/ late' = {})
    BY <1>2 DEF BeginFrame, StartEpisode, encoderVars
  <2>3. Kept
    BY <2>1 DEF Kept
  <2>4. QED
    BY <1>1, <2>1, <2>2, <2>3, TypesAside DEF Places
<1>3. CASE FeedCamera
  <2>1. UNCHANGED <<segments, fed, new_segment, video_files, torn, late>>
    BY <1>3 DEF FeedCamera, Disk
  <2>2. main' \in Places
    BY <1>1, <1>3, NextIsCamera DEF FeedCamera, Places
  <2>3. clock + 1 \in Frame
    BY <1>1 DEF Frame, Sentinel
  <2>4. dropped' = dropped \/ dropped' = dropped \cup {<<cam, clock + 1>>}
    BY <1>3 DEF FeedCamera, Feed
  <2>5. dropped' \subseteq Camera \X Frame
    BY <1>1, <2>3, <2>4
  <2>6. episode_buffer' \in Buffer /\ UNCHANGED <<info, log>>
    <3>1. CASE AddFrame
      BY <3>1, AddFrameIs
    <3>2. CASE UNCHANGED writerVars
      BY <1>1, <3>2 DEF writerVars, disk, history
    <3>3. QED
      BY <1>3, <3>1, <3>2 DEF FeedCamera
  <2>7. Kept
    BY <2>1, <2>6 DEF Kept
  <2>8. QED
    BY <1>1, <2>1, <2>2, <2>5, <2>6, <2>7, TypesAside
<1>4. CASE FeedCameraRaises
  <2>1. UNCHANGED <<segments, fed, new_segment, video_files, torn, late, dropped>>
        /\ main' \in Places
    BY <1>4 DEF FeedCameraRaises, FeedRaises, Disk, Places
  <2>2. episode_buffer' \in Buffer /\ UNCHANGED <<info, log>>
    BY <1>4, AddFrameFailsIs DEF FeedCameraRaises
  <2>3. Kept
    BY <2>1, <2>2 DEF Kept
  <2>4. QED
    BY <1>1, <2>1, <2>2, <2>3, TypesAside
<1>5. QED
  BY <1>2, <1>3, <1>4 DEF Feeding

LEMMA SaveTypes ==
  ASSUME IInv, FilmTypes,
         BeginSave \/ SaveRefused \/ PutNextSentinel \/ Join \/ JoinError \/ EndEpisode
  PROVE  FilmTypes' /\ Kept
<1>1. dropped \subseteq Camera \X Frame /\ late \subseteq Camera /\ episode_buffer \in Buffer
      /\ main \in Places /\ cam \in Camera
  BY DEF IInv, Types, FilmTypes, Places
<1>2. UNCHANGED <<segments, fed, new_segment, video_files, torn>>
  BY DEF BeginSave, SaveRefused, PutNextSentinel, Join, JoinError, EndEpisode, Disk
<1>3. UNCHANGED dropped
  BY DEF BeginSave, SaveRefused, PutNextSentinel, Join, JoinError, EndEpisode, encoderVars,
         PutSentinel, Collect, JoinTimesOut, CollectError, Cleanup
<1>4. late' = late \/ late' = late \cup {cam}
  BY DEF BeginSave, SaveRefused, PutNextSentinel, Join, JoinError, EndEpisode
<1>5. main' \in Places
  BY <1>1, NextIsCamera DEF BeginSave, SaveRefused, PutNextSentinel, Join, JoinError, EndEpisode,
                            Places
<1>6. episode_buffer' \in Buffer /\ UNCHANGED <<info, log>>
  <2>1. CASE SaveData
    BY <2>1, SaveDataIs
  <2>2. CASE SaveRaises
    BY <2>2, SaveRaisesIs
  <2>3. CASE UNCHANGED writerVars \/ SaveVideosFails
    BY <1>1, <2>3 DEF writerVars, disk, history, SaveVideosFails
  <2>4. QED
    BY <2>1, <2>2, <2>3
       DEF BeginSave, SaveRefused, PutNextSentinel, Join, JoinError, EndEpisode
<1>7. Kept
  BY <1>2, <1>6 DEF Kept
<1>8. late' \subseteq Camera
  BY <1>1, <1>4
<1>9. QED
  BY <1>1, <1>3, <1>5, <1>6, <1>7, <1>8, TypesAside

LEMMA EndTypes ==
  ASSUME IInv, FilmTypes, Discard \/ Finish \/ ResumeSession \/ Encoding
  PROVE  FilmTypes' /\ Kept
<1>1. dropped \subseteq Camera \X Frame /\ late \subseteq Camera /\ episode_buffer \in Buffer
      /\ main \in Places
  BY DEF FilmTypes, Places
<1>2. UNCHANGED <<segments, fed, new_segment, video_files, torn, late, main>>
  BY DEF Discard, Finish, ResumeSession, Encoding, Disk, videoVars
<1>3. UNCHANGED dropped
  BY DEF Discard, Finish, ResumeSession, Encoding, Cancel, CancelEpisode, encoderVars, Thread,
         Encode, Ends, EncodeFails
<1>4. episode_buffer' \in Buffer /\ UNCHANGED <<info, log>>
  <2>1. CASE ClearEpisodeBuffer \/ Finalize \/ Resume
    BY <2>1, BufferGoes
  <2>2. CASE UNCHANGED writerVars
    BY <1>1, <2>2 DEF writerVars, disk, history
  <2>3. QED
    BY <2>1, <2>2 DEF Discard, Finish, ResumeSession, Encoding
<1>5. Kept
  BY <1>2, <1>4 DEF Kept
<1>6. QED
  BY <1>1, <1>2, <1>3, <1>4, <1>5, TypesAside

-----------------------------------------------------------------------------
(* What the encoders have, and their results. *)

FilmState == FilmTypes /\ Numbered /\ FilmInv

(* A step after which the control thread is in no episode, or in one whose  *)
(* columns differ, says nothing more of the encoders.                       *)
LEMMA FilmEnds ==
  ASSUME IInv, FilmState, Numbered', ~Filming', ~Closing',
         UNCHANGED <<video, accepted, late>>,
         \A c \in Camera : stop'[c] => stop[c],
         \A c \in Camera : ~active' => queue'[c] = <<>>
  PROVE  FilmInv'
  BY DEF FilmState, FilmInv, Begins

(* A step that leaves the encoders alone.                                   *)
LEMMA FilmAside ==
  ASSUME IInv, FilmState, UNCHANGED <<encoderVars, late>>,
         Filming' \/ Closing' => Filming \/ Closing,
         \A c \in Camera : FramesOf(c)' = FramesOf(c) /\ (Settled(c)' => Settled(c))
  PROVE  FilmInv'
  BY DEF FilmState, FilmInv, Filmed, Begins, encoderVars

LEMMA EncodeFilm ==
  ASSUME IInv, IInv', FilmState, NEW d \in Camera, Thread(d), UNCHANGED <<writerVars, videoVars>>
  PROVE  Numbered' /\ FilmInv'
<1>1. /\ UNCHANGED <<main, cam, clock, episode_buffer, late, active, stop, accepted, dropped>>
      /\ alive[d] /\ alive \in [Camera -> BOOLEAN]
  BY DEF Thread, Encode, Ends, EncodeFails, writerVars, videoVars, IInv, Types
<1>2. Numbered'
  BY <1>1 DEF FilmState, Numbered
<1>3. \A c \in Camera : FramesOf(c)' = FramesOf(c) /\ (Settled(c)' <=> Settled(c))
  BY <1>1 DEF FramesOf, Settled
<1>4. (Filming \/ Closing)' <=> (Filming \/ Closing)
  BY <1>1 DEF Filming, Closing
<1>5. CASE Encode(d)
  <2>1. /\ queue[d] # <<>> /\ UNCHANGED <<alive, result>>
        /\ queue' = [queue EXCEPT ![d] = Tail(@)]
        /\ video' = [video EXCEPT ![d] = Append(@, Head(queue[d]))]
    BY <1>5 DEF Encode
  <2>2. active
    BY <2>1 DEF FilmState, FilmInv
  <2>3. Begins(video'[d], accepted'[d])
    <3>1. (Whole(d) \/ Sealed(d))'
      BY <1>1, <2>1, <2>2 DEF IInv, Flow
    <3>2. accepted'[d] \in Seq(Frame) /\ video'[d] \in Seq(Frame) /\ queue'[d] \in Seq(Nat)
      BY DEF IInv, Types
    <3>3. QED
      BY <3>1, <3>2, WholeBegins DEF Whole, Sealed
  <2>4. \A c \in Camera \ {d} : video'[c] = video[c]
    BY <2>1 DEF IInv, Types
  <2>5. \A c \in Camera : Begins(video[c], accepted[c])' 
    BY <1>1, <2>3, <2>4 DEF FilmState, FilmInv
  <2>6. (Filming \/ Closing)' => \A c \in Camera : Filmed(c)'
    BY <1>1, <1>3, <1>4, <2>1 DEF FilmState, FilmInv, Filmed
  <2>7. QED
    BY <1>1, <1>2, <2>2, <2>5, <2>6 DEF FilmState, FilmInv
<1>6. CASE Ends(d) \/ EncodeFails(d)
  <2>1. /\ UNCHANGED video
        /\ alive' = [alive EXCEPT ![d] = FALSE]
        /\ result' = [result EXCEPT ![d] = "ok"] \/ result' = [result EXCEPT ![d] = "error"]
        /\ queue' = [queue EXCEPT ![d] = IF @ = <<>> THEN @ ELSE Tail(@)]
    BY <1>6 DEF Ends, EncodeFails
  <2>2. \A c \in Camera : queue[c] = <<>> => queue'[c] = <<>>
    BY <2>1 DEF IInv, Types
  <2>3. result'[d] \in {"ok", "error"}
    BY <2>1 DEF IInv, Types
  <2>4. \A c \in Camera \ {d} : alive'[c] = alive[c] /\ result'[c] = result[c]
    BY <2>1 DEF IInv, Types
  <2>5. ASSUME Filming \/ Closing, NEW c \in Camera
        PROVE  Filmed(c)'
    <3>1. accepted'[c] = Given(c, FramesOf(c), dropped)'
      BY <1>1, <1>3, <2>5 DEF FilmState, FilmInv, Filmed
    <3>2. CASE c = d
      BY <1>1, <1>3, <2>3, <2>5, <3>1, <3>2 DEF FilmState, FilmInv, Filmed
    <3>3. CASE c # d
      BY <1>1, <1>3, <2>4, <2>5, <3>1, <3>3 DEF FilmState, FilmInv, Filmed
    <3>4. QED
      BY <3>2, <3>3
  <2>6. \A c \in Camera : Begins(video[c], accepted[c])'
    BY <1>1, <2>1 DEF FilmState, FilmInv
  <2>7. QED
    BY <1>1, <1>2, <1>4, <2>2, <2>5, <2>6 DEF FilmState, FilmInv
<1>7. QED
  BY <1>5, <1>6 DEF Thread

LEMMA BeginFilm ==
  ASSUME IInv, IInv', FilmState, BeginFrame
  PROVE  Numbered' /\ FilmInv'
<1>1. /\ main = "ready" /\ main' = "feed" /\ episode_buffer.keys # "popped"
      /\ status = "recording" /\ cam = 1
      /\ UNCHANGED <<cam, clock, episode_buffer>>
  BY DEF BeginFrame, Ready, writerVars, FilmState, Numbered
<1>2. \A c \in Camera : ~(c < cam) /\ ~Settled(c)'
  BY <1>1 DEF Camera, Settled
<1>3. \A c \in Camera : FramesOf(c)' = episode_buffer.frames /\ FramesOf(c) = episode_buffer.frames
  BY <1>1, <1>2 DEF FramesOf
<1>4. CASE episode_buffer.frames = <<>>
  <2>1. StartEpisode /\ late' = {}
    BY <1>4 DEF BeginFrame
  <2>2. Numbered'
    BY <1>1, <1>4, <2>1 DEF Numbered, StartEpisode
  <2>3. \A c \in Camera : Filmed(c)'
    <3>1. \A c \in Camera : Given(c, FramesOf(c), dropped)' = <<>>
      BY <1>3, <1>4, GivenNone
    <3>2. \A c \in Camera : accepted'[c] = <<>> /\ alive'[c]
      BY <2>1 DEF StartEpisode, None
    <3>3. QED
      BY <1>2, <3>1, <3>2 DEF Filmed
  <2>4. \A c \in Camera : Begins(video[c], accepted[c])' /\ ~stop'[c] /\ queue'[c] = <<>>
    BY <2>1 DEF StartEpisode, None, Begins
  <2>5. QED
    BY <2>2, <2>3, <2>4 DEF FilmInv
<1>5. CASE episode_buffer.frames # <<>>
  <2>1. UNCHANGED <<encoderVars, late>> /\ UNCHANGED <<active, dropped>>
    BY <1>5 DEF BeginFrame, encoderVars
  <2>2. Numbered'
    BY <1>1, <2>1 DEF FilmState, Numbered
  <2>3. Filming' \/ Closing' => Filming
    BY <1>1, <2>1 DEF Filming, Closing
  <2>4. QED
    BY <1>2, <1>3, <2>1, <2>2, <2>3, FilmAside
<1>6. QED
  BY <1>4, <1>5

(* The next camera gets the frame, or drops it.                             *)
LEMMA FeedFilm ==
  ASSUME IInv, IInv', FilmState, FeedCamera
  PROVE  Numbered' /\ FilmInv'
<1> DEFINE frame == clock + 1
           frames == episode_buffer.frames
<1>1. /\ main = "feed" /\ cam \in Camera /\ active /\ alive[cam] /\ clock \in Nat
      /\ frame \in Frame /\ frames \in Seq(Frame)
  BY DEF FeedCamera, Feed, IInv, Types, FilmState, FilmTypes, Buffer, Frame, Sentinel
<1>2. /\ UNCHANGED <<active, alive, result, stop, video, late>>
      /\ NextCamera("ready")
      /\ IF Full(cam)
           THEN dropped' = dropped \cup {<<cam, frame>>} /\ UNCHANGED <<queue, accepted>>
           ELSE /\ accepted' = [accepted EXCEPT ![cam] = Append(@, frame)]
                /\ UNCHANGED dropped
  BY DEF FeedCamera, Feed
<1>3. \/ /\ main' = "feed" /\ cam' = cam + 1 /\ cam # NumCameras
         /\ UNCHANGED <<clock, episode_buffer>>
      \/ /\ main' = "ready" /\ cam' = 1 /\ cam = NumCameras
         /\ clock' = frame /\ episode_buffer'.frames = Append(frames, frame)
         /\ episode_buffer'.keys = episode_buffer.keys
  <2>1. CASE cam = NumCameras
    BY <1>1, <2>1, AddFrameIs, NextIsCamera DEF FeedCamera, FilmState
  <2>2. CASE cam # NumCameras
    BY <1>1, <2>2, NextIsCamera DEF FeedCamera, writerVars
  <2>3. QED
    BY <2>1, <2>2
<1>4. \A i \in 1..Len(frames) : frames[i] <= clock
  BY DEF FilmState, Numbered
<1>5. \A p \in dropped : p[2] <= clock \/ (p[1] < cam /\ p[2] = frame)
  BY <1>1 DEF FilmState, Numbered
<1>6. \A p \in dropped' : p \in dropped \/ (p[1] = cam /\ p[2] = frame)
  BY <1>2
<1>7. \A p \in dropped' : p[2] <= clock \/ (p[1] < cam + 1 /\ p[2] = frame)
  <2> HIDE DEF frame
  <2>1. TAKE p \in dropped'
  <2>2. CASE p \in dropped
    <3>1. p \in Camera \X Frame
      BY <2>2 DEF FilmState, FilmTypes
    <3>2. p[1] \in Nat /\ cam \in Nat
      BY <3>1, <1>1 DEF Camera
    <3>3. QED
      BY <1>5, <2>2, <3>2
  <2>3. CASE p \notin dropped
    BY <1>1, <1>6, <2>3 DEF Camera
  <2>4. QED
    BY <2>2, <2>3
<1>8. Numbered'
  <2>1. CASE main' = "feed"
    BY <1>3, <1>4, <1>7, <2>1 DEF Numbered
  <2>2. CASE main' = "ready"
    <3>1. cam' = 1 /\ clock' = frame /\ episode_buffer'.frames = Append(frames, frame)
      BY <1>3, <2>2
    <3>2. \A i \in 1..Len(Append(frames, frame)) : Append(frames, frame)[i] <= frame
      <4>1. \A i \in 1..Len(frames) : frames[i] \in Nat /\ frames[i] <= frame
        BY <1>1, <1>4 DEF Frame
      <4>2. Len(Append(frames, frame)) = Len(frames) + 1
            /\ Append(frames, frame)[Len(frames) + 1] = frame
            /\ \A i \in 1..Len(frames) : Append(frames, frame)[i] = frames[i]
        BY <1>1
      <4>3. \A i \in 1..Len(Append(frames, frame)) : i \in 1..Len(frames) \/ i = Len(frames) + 1
        BY <1>1, <4>2
      <4>4. QED
        BY <1>1, <4>1, <4>2, <4>3
    <3>3. \A p \in dropped' : p[2] <= frame
      <4>1. \A p \in dropped' : p[2] \in Nat
        BY <1>1, <1>2, <1>6 DEF FilmState, FilmTypes, Frame
      <4>2. QED
        BY <1>1, <1>7, <4>1
    <3>4. QED
      BY <2>2, <3>1, <3>2, <3>3 DEF Numbered
  <2>3. QED
    BY <1>3, <2>1, <2>2
<1>9. \A c \in Camera : FramesOf(c) = IF c < cam THEN Append(frames, frame) ELSE frames
  BY <1>1 DEF FramesOf
<1>10. \A c \in Camera : FramesOf(c)' = IF c <= cam THEN Append(frames, frame) ELSE frames
  <2>1. \A c \in Camera : c <= cam \/ (c > cam /\ cam # NumCameras /\ ~(c < cam + 1))
    BY <1>1, EncoderAssumption DEF Camera
  <2>2. \A c \in Camera : c <= cam => c < cam + 1
    BY <1>1 DEF Camera
  <2>3. \A c \in Camera : c <= cam <=> ~(c > cam)
    BY <1>1 DEF Camera
  <2> HIDE DEF frame, frames
  <2>4. CASE main' = "feed"
    BY <1>3, <2>1, <2>2, <2>3, <2>4 DEF FramesOf, frame, frames
  <2>5. CASE main' = "ready"
    <3>1. \A c \in Camera : c <= cam
      BY <1>3, <2>5, <2>1
    <3>2. QED
      BY <1>3, <2>5, <3>1 DEF FramesOf
  <2>6. QED
    BY <1>3, <2>4, <2>5
<1>11. \A c \in Camera : ~Settled(c)'
  BY <1>3 DEF Settled
<1>12. ASSUME Filming, NEW c \in Camera
       PROVE  Filmed(c)'
  <2>1. accepted[c] = Given(c, FramesOf(c), dropped)
        /\ (~alive[c] => result[c] \in {"ok", "error"})
    BY <1>12 DEF FilmState, FilmInv, Filmed
  <2>2. Append(frames, frame) \in Seq(Frame) /\ accepted[c] \in Seq(Frame)
    BY <1>1 DEF IInv, Types
  <2>3. accepted'[c] = Given(c, FramesOf(c)', dropped')
    <3>1. CASE c = cam
      <4>1. accepted[c] = Given(c, frames, dropped)
        BY <1>9, <1>1, <2>1, <3>1 DEF Camera
      <4>2. FramesOf(c)' = Append(frames, frame)
        BY <1>10, <1>1, <3>1 DEF Camera
      <4>3. \A i \in 1..Len(frames) : frames[i] # frame
        BY <1>1, <1>4 DEF Frame
      <4>4. Given(c, frames, dropped') = Given(c, frames, dropped)
        <5>1. \A i \in 1..Len(frames) :
                <<c, frames[i]>> \in dropped <=> <<c, frames[i]>> \in dropped'
          BY <1>2, <4>3
        <5>2. QED
          BY <1>1, <5>1, GivenSame
      <4>5. CASE Full(cam)
        <5>1. <<c, frame>> \in dropped' /\ accepted'[c] = accepted[c]
          BY <1>2, <3>1, <4>5
        <5>2. Given(c, Append(frames, frame), dropped') = Given(c, frames, dropped') \o <<>>
          BY <1>1, <5>1, GivenDropped
        <5>3. accepted[c] \o <<>> = accepted[c]
          BY <2>2
        <5> HIDE DEF frame, frames
        <5>4. QED
          BY <4>1, <4>2, <4>4, <5>1, <5>2, <5>3
      <4>6. CASE ~Full(cam)
        <5>1. accepted'[c] = Append(accepted[c], frame) /\ dropped' = dropped
          BY <1>1, <1>2, <3>1, <4>6 DEF IInv, Types
        <5>2. <<c, frame>> \notin dropped
          <6>1. ~(frame <= clock) /\ ~(cam < cam)
            BY <1>1 DEF Camera
          <6>2. QED
            BY <1>5, <3>1, <6>1
        <5>3. Append(accepted[c], frame) = accepted[c] \o <<frame>>
          BY <1>1, <2>2
        <5> HIDE DEF frame, frames
        <5>4. Given(c, Append(frames, frame), dropped) = Given(c, frames, dropped) \o <<frame>>
          <6>1. frame \in Frame /\ frames \in Seq(Frame)
            BY <1>1
          <6>2. QED
            BY <5>2, <6>1, GivenTaken, Zenon
        <5>5. QED
          BY <4>1, <4>2, <5>1, <5>3, <5>4
      <4>7. QED
        BY <4>5, <4>6
    <3>2. CASE c # cam
      <4>1. FramesOf(c)' = FramesOf(c)
        <5>1. c < cam <=> c <= cam
          BY <1>1, <3>2 DEF Camera
        <5>2. QED
          BY <1>9, <1>10, <5>1
      <4>2. accepted'[c] = accepted[c]
        BY <1>2, <3>2 DEF IInv, Types
      <4>3. FramesOf(c) \in Seq(Frame)
        BY <1>1, <1>9, <2>2
      <4>4. \A i \in 1..Len(FramesOf(c)) :
              <<c, FramesOf(c)[i]>> \in dropped <=> <<c, FramesOf(c)[i]>> \in dropped'
        BY <1>2, <3>2
      <4>5. Given(c, FramesOf(c), dropped) = Given(c, FramesOf(c), dropped')
        BY <4>3, <4>4, GivenSame
      <4>6. QED
        BY <2>1, <4>1, <4>2, <4>5
    <3>3. QED
      BY <3>1, <3>2
  <2>4. QED
    BY <1>2, <1>11, <2>1, <2>3 DEF Filmed
<1>13. Filming' \/ Closing' => Filming
  BY <1>1, <1>2, <1>3 DEF Filming, Closing
<1>14. ASSUME NEW c \in Camera
       PROVE  Begins(video[c], accepted[c])'
  <2>1. /\ video[c] \in Seq(Frame) /\ accepted[c] \in Seq(Frame)
        /\ Begins(video[c], accepted[c]) /\ video'[c] = video[c]
    BY <1>2 DEF IInv, Types, FilmState, FilmInv
  <2>2. accepted'[c] = accepted[c] \/ accepted'[c] = Append(accepted[c], frame)
    BY <1>2 DEF IInv, Types
  <2>3. QED
    BY <1>1, <2>1, <2>2, BeginsAppend
<1>15. QED
  BY <1>1, <1>2, <1>8, <1>12, <1>13, <1>14 DEF FilmState, FilmInv

(* An encoder has died: the columns are uneven from now on.                 *)
LEMMA FeedRaisesFilm ==
  ASSUME IInv, IInv', FilmState, FeedCameraRaises
  PROVE  Numbered' /\ FilmInv'
<1>1. /\ main = "feed" /\ main' = "ready" /\ cam' = 1 /\ active /\ clock \in Nat
      /\ UNCHANGED <<active, queue, stop, video, accepted, dropped, late>>
  BY DEF FeedCameraRaises, FeedRaises, IInv, Types, Phase
<1>2. /\ clock' = clock + 1 /\ episode_buffer'.keys = "uneven"
      /\ episode_buffer'.frames = episode_buffer.frames
  BY AddFrameFailsIs DEF FeedCameraRaises, FilmState
<1>3. Numbered'
  <2>1. \A i \in 1..Len(episode_buffer.frames) :
          episode_buffer.frames[i] \in Nat /\ episode_buffer.frames[i] <= clock
    BY DEF FilmState, FilmTypes, Buffer, Numbered, Frame
  <2>2. \A p \in dropped : p[2] \in Nat /\ (p[2] <= clock \/ p[2] = clock + 1)
    BY DEF FilmState, FilmTypes, Numbered, Frame
  <2>3. QED
    BY <1>1, <1>2, <2>1, <2>2 DEF Numbered
<1>4. ~Filming' /\ ~Closing'
  BY <1>1, <1>2 DEF Filming, Closing
<1>5. QED
  BY <1>1, <1>3, <1>4, FilmEnds

LEMMA SaveFilm ==
  ASSUME IInv, IInv', FilmState, BeginSave \/ SaveRefused
  PROVE  Numbered' /\ FilmInv'
<1>1. /\ main = "ready" /\ cam = 1 /\ main' \in {"ready", "put"}
      /\ UNCHANGED <<cam, late>> /\ UNCHANGED encoderVars /\ UNCHANGED <<dropped, active>>
  BY DEF BeginSave, SaveRefused, encoderVars, FilmState, Numbered
<1>2. episode_buffer'.frames = episode_buffer.frames /\ UNCHANGED clock
  BY SaveDataIs, SaveRaisesIs DEF BeginSave, SaveRefused, BufferPops, BufferSame, FilmState
<1>3. Numbered'
  BY <1>1, <1>2 DEF FilmState, Numbered
<1>4. \A c \in Camera : FramesOf(c)' = FramesOf(c) /\ ~Settled(c)'
  BY <1>1, <1>2 DEF FramesOf, Settled
<1>5. Filming' \/ Closing' => Filming
  <2>1. CASE BeginSave
    <3>1. /\ episode_buffer.keys = "all" /\ episode_buffer.frames # <<>>
          /\ status = "recording"
      BY <2>1, SaveDataIs DEF BeginSave, FilmState
    <3>2. active
      BY <1>1, <3>1 DEF IInv, Phase
    <3>3. QED
      BY <3>1, <3>2 DEF Filming
  <2>2. CASE SaveRefused
    <3>1. main' = "ready" /\ (BufferSame \/ BufferPops)
      BY <1>1, <2>2, SaveRaisesIs DEF SaveRefused, FilmState
    <3>2. QED
      BY <1>1, <3>1 DEF Filming, Closing, BufferSame, BufferPops
  <2>3. QED
    BY <2>1, <2>2
<1>6. QED
  BY <1>1, <1>3, <1>4, <1>5, FilmAside

LEMMA PutFilm ==
  ASSUME IInv, IInv', FilmState, PutNextSentinel
  PROVE  Numbered' /\ FilmInv'
<1>1. /\ main = "put" /\ cam \in Camera /\ active
      /\ UNCHANGED <<active, alive, result, stop, video, accepted, dropped, late, clock,
                     episode_buffer>>
      /\ NextCamera("join")
  BY DEF PutNextSentinel, PutSentinel, IInv, Types, writerVars
<1>2. main' \in {"put", "join"} /\ (main' = "join" => cam' = 1)
  BY <1>1, NextIsCamera
<1>3. Numbered'
  BY <1>1, <1>2 DEF FilmState, Numbered
<1>4. \A c \in Camera : FramesOf(c)' = FramesOf(c) /\ ~Settled(c)'
  BY <1>1, <1>2 DEF FramesOf, Settled, Camera
<1>5. Closing
  BY <1>1 DEF Closing
<1>6. \A c \in Camera : Filmed(c)'
  BY <1>1, <1>4, <1>5 DEF FilmState, FilmInv, Filmed
<1>7. QED
  BY <1>1, <1>3, <1>6 DEF FilmState, FilmInv, Begins

(* A camera is settled by its result, or given up.                          *)
LEMMA JoinFilm ==
  ASSUME IInv, IInv', FilmState, Join
  PROVE  Numbered' /\ FilmInv'
<1>1. /\ main = "join" /\ cam \in Camera /\ active /\ NextCamera("cleanup")
      /\ UNCHANGED <<active, alive, queue, result, video, accepted, dropped, clock,
                     episode_buffer>>
      /\ \/ ~alive[cam] /\ result[cam] # "error" /\ UNCHANGED <<stop, late>>
         \/ stop' = [stop EXCEPT ![cam] = TRUE] /\ late' = late \cup {cam}
  BY DEF Join, Collect, JoinTimesOut, encoderVars, writerVars, IInv, Types, Phase
<1>2. main' \in {"join", "cleanup"} /\ (main' = "cleanup" => cam' = 1)
  BY <1>1, NextIsCamera
<1>3. Numbered'
  BY <1>1, <1>2 DEF FilmState, Numbered
<1>4. Closing
  BY <1>1 DEF Closing
<1>5. \A c \in Camera : Settled(c)' => Settled(c) \/ c = cam
  BY <1>1, NextIsCamera DEF Settled
<1>6. ASSUME NEW c \in Camera
      PROVE  Filmed(c)'
  <2>1. FramesOf(c)' = FramesOf(c)
    BY <1>1, <1>2 DEF FramesOf
  <2>2. Filmed(c)
    BY <1>4 DEF FilmState, FilmInv
  <2>3. late \subseteq late' /\ (cam \notin late' => ~alive[cam] /\ result[cam] # "error")
    BY <1>1
  <2>4. QED
    BY <1>1, <1>5, <2>1, <2>2, <2>3 DEF Filmed
<1>7. \A c \in Camera : stop'[c] => c \in late'
  BY <1>1 DEF FilmState, FilmInv, IInv, Types
<1>8. QED
  BY <1>1, <1>3, <1>6, <1>7 DEF FilmState, FilmInv, Begins

LEMMA JoinErrorFilm ==
  ASSUME IInv, IInv', FilmState, JoinError
  PROVE  Numbered' /\ FilmInv'
<1>1. /\ main = "join" /\ main' = "ready" /\ cam' = 1 /\ episode_buffer.keys = "popped"
      /\ UNCHANGED <<active, queue, stop, video, accepted, dropped, late, clock, episode_buffer>>
  BY DEF JoinError, CollectError, SaveVideosFails, IInv, Phase
<1>2. Numbered'
  BY <1>1 DEF FilmState, Numbered
<1>3. ~Filming' /\ ~Closing'
  BY <1>1 DEF Filming, Closing
<1>4. QED
  BY <1>1, <1>2, <1>3, FilmEnds DEF FilmState, FilmInv

LEMMA EndEpisodeFilm ==
  ASSUME IInv, IInv', FilmState, EndEpisode
  PROVE  Numbered' /\ FilmInv'
<1>1. /\ main = "cleanup" /\ main' = "move" /\ cam = 1 /\ cam' = 1 /\ active' = FALSE
      /\ queue' = None(<<>>)
      /\ UNCHANGED <<alive, result, stop, video, accepted, dropped, late, clock, episode_buffer>>
  BY DEF EndEpisode, Cleanup, writerVars, FilmState, Numbered
<1>2. Numbered'
  BY <1>1 DEF FilmState, Numbered
<1>3. Closing
  BY <1>1 DEF Closing
<1>4. \A c \in Camera : FramesOf(c)' = FramesOf(c) /\ Settled(c)
  BY <1>1 DEF FramesOf, Settled
<1>5. \A c \in Camera : Filmed(c)'
  BY <1>1, <1>3, <1>4 DEF FilmState, FilmInv, Filmed
<1>6. \A c \in Camera : queue'[c] = <<>>
  BY <1>1 DEF None
<1>7. QED
  BY <1>1, <1>2, <1>5, <1>6 DEF FilmState, FilmInv, Begins

LEMMA MoveFilm ==
  ASSUME IInv, IInv', FilmState, Move \/ MoveFails \/ EndSave
  PROVE  Numbered' /\ FilmInv'
<1>1. /\ main \in {"move", "metadata"} /\ UNCHANGED <<encoderVars, late>>
      /\ episode_buffer.keys = "popped" /\ ~active /\ cam \in Camera
  BY DEF Move, MoveFails, EndSave, IInv, Phase, Types
<1>2. /\ UNCHANGED <<active, queue, stop, video, accepted, dropped, clock>>
      /\ BufferSame \/ (EndSave /\ BufferEmpties)
  BY <1>1, SaveMetadataIs DEF Move, MoveFails, EndSave, SaveVideos, SaveVideosFails, writerVars,
                              encoderVars, BufferSame, FilmState
<1>3. CASE Move
  <2>1. main' \in {"move", "metadata"} /\ (main' = "metadata" => cam' = 1) /\ BufferSame
    BY <1>1, <1>3, NextIsCamera DEF Move, SaveVideos, writerVars, BufferSame
  <2>2. Numbered'
    BY <1>1, <1>2, <1>3, <2>1 DEF FilmState, Numbered, BufferSame, Move
  <2>3. \A c \in Camera : FramesOf(c)' = FramesOf(c) /\ Settled(c)
    BY <1>1, <1>3, <2>1 DEF FramesOf, Settled, BufferSame, Move
  <2>4. Closing
    BY <1>1 DEF Closing
  <2>5. QED
    BY <1>1, <2>2, <2>3, <2>4, FilmAside
<1>4. CASE MoveFails \/ EndSave
  <2>1. main' = "ready" /\ cam' = 1
    BY <1>1, <1>4 DEF MoveFails, EndSave, FilmState, Numbered
  <2>2. Numbered'
    <3>1. episode_buffer'.frames = episode_buffer.frames \/ episode_buffer'.frames = <<>>
      BY <1>2 DEF BufferSame, BufferEmpties
    <3>2. \A p \in dropped : p[2] <= clock
      BY <1>1 DEF FilmState, Numbered
    <3>3. \A j \in 1..Len(episode_buffer'.frames) : episode_buffer'.frames[j] <= clock
      BY <3>1 DEF FilmState, Numbered
    <3>4. QED
      BY <1>2, <2>1, <3>2, <3>3 DEF Numbered
  <2>3. ~Filming' /\ ~Closing'
    BY <1>1, <1>2, <2>1 DEF Filming, Closing
  <2>4. QED
    BY <1>1, <1>2, <2>2, <2>3, FilmEnds DEF FilmState, FilmInv
<1>5. QED
  BY <1>3, <1>4

LEMMA EndFilm ==
  ASSUME IInv, IInv', FilmState, Discard \/ Finish \/ ResumeSession
  PROVE  Numbered' /\ FilmInv'
<1>1. /\ UNCHANGED <<main, cam, late, clock>>
      /\ BufferSame \/ BufferEmpties
      /\ ClearEpisodeBuffer \/ Finalize \/ Resume
  BY BufferGoes DEF Discard, Finish, ResumeSession, FilmState
<1>2. main = "ready"
  BY DEF Discard, Finish, ResumeSession, Resume, IInv, Phase
<1>3. /\ ~active' /\ UNCHANGED <<video, accepted, dropped>>
      /\ \A c \in Camera : stop'[c] => stop[c]
      /\ \A c \in Camera : queue'[c] = <<>>
  <2>1. CASE CancelEpisode
    BY <2>1 DEF CancelEpisode, None
  <2>2. CASE UNCHANGED encoderVars /\ ~active
    BY <2>2 DEF encoderVars, FilmState, FilmInv
  <2>3. CASE ResumeSession
    <3>1. ~active
      BY <2>3 DEF ResumeSession, Resume, IInv, Phase
    <3>2. QED
      BY <2>2, <2>3, <3>1 DEF ResumeSession
  <2>4. QED
    BY <2>1, <2>2, <2>3 DEF Discard, Finish, Cancel
<1>4. Numbered'
  <2>1. episode_buffer'.frames = episode_buffer.frames \/ episode_buffer'.frames = <<>>
    BY <1>1 DEF BufferSame, BufferEmpties
  <2>2. QED
    BY <1>1, <1>3, <2>1 DEF FilmState, Numbered
<1>5. ~Filming' /\ ~Closing'
  BY <1>1, <1>2, <1>3 DEF Filming, Closing
<1>6. QED
  BY <1>1, <1>3, <1>4, <1>5, FilmEnds

-----------------------------------------------------------------------------
(* Where the videos are. *)

LEMMA SubSeqConcat ==
  ASSUME NEW a \in Seq(Frame), NEW v \in Seq(Frame), NEW m \in Nat, NEW n \in Nat, n <= Len(a)
  PROVE  SubSeq(a \o v, m + 1, n) = SubSeq(a, m + 1, n)
<1>1. a \o v \in Seq(Frame) /\ \A j \in 1..Len(a) : (a \o v)[j] = a[j]
  OBVIOUS
<1>2. \A j \in 1..(n - m) : j + m \in 1..Len(a)
  OBVIOUS
<1>3. SubSeq(a, m + 1, n) = [j \in 1..(n - m) |-> a[j + m]]
  OBVIOUS
<1>4. SubSeq(a \o v, m + 1, n) = [j \in 1..(n - m) |-> (a \o v)[j + m]]
  BY <1>1
<1>5. QED
  BY <1>1, <1>2, <1>3, <1>4

LEMMA SubSeqTail ==
  ASSUME NEW a \in Seq(Frame), NEW v \in Seq(Frame)
  PROVE  /\ SubSeq(a \o v, Len(a) + 1, Len(a) + Len(v)) = v
         /\ Len(a \o v) = Len(a) + Len(v)
<1>1. /\ a \o v \in Seq(Frame) /\ Len(a \o v) = Len(a) + Len(v)
      /\ Len(a) \in Nat /\ Len(v) \in Nat
      /\ \A j \in 1..Len(v) : (a \o v)[j + Len(a)] = v[j]
  OBVIOUS
<1>2. SubSeq(a \o v, Len(a) + 1, Len(a) + Len(v))
        = [j \in 1..(Len(a) + Len(v) - Len(a)) |-> (a \o v)[j + Len(a)]]
  BY <1>1
<1>3. Len(a) + Len(v) - Len(a) = Len(v)
  BY <1>1
<1>4. v = [j \in 1..Len(v) |-> v[j]]
  OBVIOUS
<1>5. QED
  BY <1>1, <1>2, <1>3, <1>4

LEMMA SubSeqAll ==
  ASSUME NEW v \in Seq(Frame)
  PROVE  SubSeq(v, 1, Len(v)) = v
<1>1. SubSeq(v, 1, Len(v)) = [j \in 1..Len(v) |-> v[j]]
  OBVIOUS
<1>2. QED
  BY <1>1

(* A video in a file of its own: behind the files of the episodes, where    *)
(* one of no episode may be.                                                *)
StartsFile(f, g, v, last) ==
  /\ Len(g) = last + 1
  /\ g[last + 1] = v
  /\ \A i \in 1..last : g[i] = f[i]

(* A video behind the others in the last file.                              *)
FollowsIn(f, g, v, last) ==
  /\ Len(g) = Len(f)
  /\ g[last] = f[last] \o v
  /\ \A i \in 1..Len(f) : i # last => g[i] = f[i]

LEMMA StartIs ==
  ASSUME NEW f \in Seq(Seq(Frame)), NEW s \in Segment, NEW last \in Nat,
         Len(f) \in {last, last + 1}, s.from = 0, s.file = last + 1,
         video[cam] \in Seq(Frame)
  PROVE  /\ WithVideo(f, s) \in Seq(Seq(Frame))
         /\ StartsFile(f, WithVideo(f, s), video[cam], last)
<1> DEFINE v == video[cam]
<1>0. v \in Seq(Frame)
  OBVIOUS
<1>1. CASE Len(f) = last
  <2>1. WithVideo(f, s) = Append(f, v)
    BY <1>1 DEF WithVideo
  <2> HIDE DEF v
  <2>2. Append(f, v) \in Seq(Seq(Frame)) /\ Len(Append(f, v)) = last + 1
        /\ Append(f, v)[last + 1] = v /\ \A i \in 1..last : Append(f, v)[i] = f[i]
    BY <1>0, <1>1
  <2>3. QED
    BY <2>1, <2>2 DEF StartsFile, v
<1>2. CASE Len(f) = last + 1
  <2>1. WithVideo(f, s) = [f EXCEPT ![last + 1] = v]
    BY <1>2 DEF WithVideo
  <2> DEFINE g == [f EXCEPT ![last + 1] = v]
  <2> HIDE DEF v
  <2>2. last + 1 \in 1..Len(f) /\ \A i \in 1..last : i \in 1..Len(f) /\ i # last + 1
    BY <1>2
  <2>3. g \in Seq(Seq(Frame)) /\ Len(g) = Len(f)
    BY <1>0, <2>2
  <2>4. g[last + 1] = v /\ \A i \in 1..last : g[i] = f[i]
    BY <2>2
  <2> HIDE DEF g
  <2>5. QED
    BY <1>2, <2>1, <2>3, <2>4 DEF StartsFile, v, g
<1>3. QED
  BY <1>1, <1>2

LEMMA FollowIs ==
  ASSUME NEW f \in Seq(Seq(Frame)), NEW s \in Segment, s.from # 0, s.file \in 1..Len(f),
         video[cam] \in Seq(Frame)
  PROVE  /\ WithVideo(f, s) \in Seq(Seq(Frame))
         /\ FollowsIn(f, WithVideo(f, s), video[cam], s.file)
<1> DEFINE v == video[cam]
           last == s.file
           h == f[last] \o v
           g == [f EXCEPT ![last] = h]
<1>1. ~(s.file > Len(f)) /\ last \in 1..Len(f)
  BY DEF Segment
<1>2. WithVideo(f, s) = g
  BY <1>1 DEF WithVideo
<1>3. f[last] \in Seq(Frame) /\ h \in Seq(Frame)
  BY <1>1
<1> HIDE DEF v, h, last
<1>4. g \in Seq(Seq(Frame)) /\ Len(g) = Len(f)
  BY <1>1, <1>3
<1>5. g[last] = h /\ \A i \in 1..Len(f) : i # last => g[i] = f[i]
  BY <1>1
<1> HIDE DEF g
<1>6. QED
  BY <1>2, <1>4, <1>5 DEF FollowsIn, h, v, last

LEMMA LastTypes ==
  ASSUME FilmTypes, NEW c \in Camera
  PROVE  /\ LastFile(c) \in Nat /\ LastTo(c) \in Nat /\ new_segment[c] \in Segment
         /\ new_segment[c].from \in Nat /\ new_segment[c].to \in Nat
         /\ new_segment[c].file \in Nat
         /\ video_files[c] \in Seq(Seq(Frame)) /\ Len(video_files[c]) \in Nat
         /\ segments # <<>> => segments[Len(segments)][c] \in Segment
         /\ Len(segments) \in Nat
         /\ \A e \in 1..Len(segments) :
              /\ segments[e][c].file \in Nat /\ segments[e][c].from \in Nat
              /\ segments[e][c].to \in Nat
<1>1. /\ segments \in Seq([Camera -> Segment]) /\ new_segment \in [Camera -> Segment]
      /\ video_files \in [Camera -> Seq(Seq(Frame))]
  BY DEF FilmTypes
<1>2. \A e \in 1..Len(segments) : segments[e][c] \in Segment
  BY <1>1
<1>3. Len(segments) \in Nat /\ (segments # <<>> => Len(segments) \in 1..Len(segments))
  BY <1>1
<1>4. LastFile(c) \in Nat /\ LastTo(c) \in Nat
  BY <1>2, <1>3 DEF LastFile, LastTo, Segment
<1>5. new_segment[c] \in Segment /\ video_files[c] \in Seq(Seq(Frame))
  BY <1>1
<1>6. Len(video_files[c]) \in Nat
  BY <1>5
<1>7. QED
  BY <1>2, <1>3, <1>4, <1>5, <1>6 DEF Segment

(* Where a step of Move puts the video of its camera.                       *)
LEMMA MoveIs ==
  ASSUME IInv, FilmTypes, PlacesInv, Move
  PROVE  \E s \in Segment, g \in Seq(Seq(Frame)) :
           /\ new_segment' = [new_segment EXCEPT ![cam] = s]
           /\ video_files' = [video_files EXCEPT ![cam] = g]
           /\ \/ /\ s = [file |-> LastFile(cam) + 1, from |-> 0, to |-> Len(video[cam])]
                 /\ StartsFile(video_files[cam], g, video[cam], LastFile(cam))
              \/ /\ s = [file |-> LastFile(cam), from |-> LastTo(cam),
                         to |-> LastTo(cam) + Len(video[cam])]
                 /\ segments # <<>>
                 /\ FollowsIn(video_files[cam], g, video[cam], LastFile(cam))
<1> DEFINE f == video_files[cam]
           v == video[cam]
<1>1. /\ cam \in Camera /\ v \in Seq(Frame) /\ Len(v) \in Nat
  BY DEF IInv, Types
<1>2. /\ LastFile(cam) \in Nat /\ LastTo(cam) \in Nat /\ f \in Seq(Seq(Frame))
      /\ Len(f) \in Nat /\ new_segment[cam] \in Segment
  BY <1>1, LastTypes
<1>3. PICK append \in BOOLEAN :
        /\ new_segment' = [new_segment EXCEPT ![cam] = NewSegment(append)]
        /\ video_files' = [video_files EXCEPT ![cam] = WithVideo(@, NewSegment(append))]
  BY DEF Move
<1> DEFINE s == NewSegment(append)
           g == WithVideo(f, s)
<1>4. /\ new_segment' = [new_segment EXCEPT ![cam] = s]
      /\ video_files' = [video_files EXCEPT ![cam] = g]
  BY <1>3
<1>5. \/ s = [file |-> LastFile(cam) + 1, from |-> 0, to |-> Len(v)]
      \/ /\ s = [file |-> LastFile(cam), from |-> LastTo(cam), to |-> LastTo(cam) + Len(v)]
         /\ segments # <<>>
  <2>1. segments # <<>> => Last(segments) = segments[Len(segments)]
    BY DEF Last
  <2>2. CASE segments = <<>>
    BY <2>2 DEF NewSegment, LastFile
  <2>3. CASE segments # <<>>
    BY <2>1, <2>3 DEF NewSegment, LastFile, LastTo
  <2>4. QED
    BY <2>2, <2>3
<1> HIDE DEF s
<1>6. CASE s = [file |-> LastFile(cam) + 1, from |-> 0, to |-> Len(v)]
  <2>1. s \in Segment /\ s.from = 0 /\ s.file = LastFile(cam) + 1
    BY <1>1, <1>2, <1>6 DEF Segment
  <2>2. Len(f) \in {LastFile(cam), LastFile(cam) + 1}
    BY <1>1 DEF PlacesInv, Filed
  <2>3. g \in Seq(Seq(Frame)) /\ StartsFile(f, g, v, LastFile(cam))
    BY <1>1, <1>2, <2>1, <2>2, StartIs
  <2>4. QED
    BY <1>4, <1>6, <2>1, <2>3
<1>7. CASE /\ s = [file |-> LastFile(cam), from |-> LastTo(cam), to |-> LastTo(cam) + Len(v)]
           /\ segments # <<>>
  <2>1. LastFile(cam) >= 1 /\ LastTo(cam) >= 1 /\ Len(f) \in {LastFile(cam), LastFile(cam) + 1}
    BY <1>1, <1>7 DEF PlacesInv, Filed
  <2>2. s \in Segment /\ s.from # 0 /\ s.file \in 1..Len(f) /\ s.file = LastFile(cam)
    <3>1. s.file = LastFile(cam) /\ s.from = LastTo(cam)
      BY <1>7
    <3>2. LastTo(cam) + Len(v) \in Nat
      BY <1>1, <1>2
    <3>3. s \in Segment
      <4> HIDE DEF v
      <4>1. QED
        BY <1>2, <1>7, <3>2 DEF Segment
    <3>4. LastFile(cam) \in 1..Len(f) /\ LastTo(cam) # 0
      <4> HIDE DEF f
      <4>1. QED
        BY <1>2, <2>1
    <3>5. QED
      BY <3>1, <3>3, <3>4
  <2>3. g \in Seq(Seq(Frame)) /\ FollowsIn(f, g, v, LastFile(cam))
    BY <1>1, <1>2, <2>2, FollowIs
  <2>4. QED
    BY <1>4, <1>7, <2>2, <2>3
<1>8. QED
  BY <1>5, <1>6, <1>7

(* The episodes' videos stay where they are and as they are.                *)
Told(e, c) ==
  LET stored == FilmAt(video_files[c], segments[e][c])
      given == Given(c, log[e], fed[e].dropped)
  IN IF c \in fed[e].late THEN IsPrefix(stored, given) ELSE stored = given

LEMMA ToldIs == VideosMatch <=> \A e \in DOMAIN segments : \A c \in Camera \ torn : Told(e, c)
  BY DEF VideosMatch, Told

(* A step that touches no file: what is said of the cameras depends on      *)
(* nothing else it may change.                                              *)
LEMMA PlacesAside ==
  ASSUME PlacesInv, VideosMatch, Kept,
         \A c \in Camera : (Moved(c)' <=> Moved(c)),
         \A c \in Camera : Moved(c) /\ ~alive[c] => ~alive'[c] /\ video'[c] = video[c]
  PROVE  PlacesInv' /\ VideosMatch'
<1>1. VideosMatch'
  BY DEF VideosMatch, Kept
<1>2. ASSUME NEW c \in Camera
      PROVE  Filed(c)' /\ (c \notin torn => Fits(c)')
  <2>1. LastFile(c)' = LastFile(c) /\ LastTo(c)' = LastTo(c)
    BY DEF Kept, LastFile, LastTo
  <2>2. (Starts(c)' <=> Starts(c)) /\ (Follows(c)' <=> Follows(c))
    BY <2>1 DEF Kept, Starts, Follows
  <2>3. Filed(c)'
    BY <2>1, <2>2 DEF Kept, PlacesInv, Filed
  <2>4. Moved(c) => video'[c] = video[c]
    BY DEF PlacesInv, Filed
  <2>5. c \notin torn => Fits(c)'
    BY <2>1, <2>2, <2>4 DEF Kept, PlacesInv, Fits
  <2>6. QED
    BY <2>3, <2>5
<1>3. QED
  BY <1>1, <1>2 DEF PlacesInv, Kept

LEMMA MoveTypes ==
  ASSUME IInv, FilmTypes, PlacesInv, Move
  PROVE  FilmTypes'
<1>1. PICK s \in Segment, g \in Seq(Seq(Frame)) :
        /\ new_segment' = [new_segment EXCEPT ![cam] = s]
        /\ video_files' = [video_files EXCEPT ![cam] = g]
  BY MoveIs
<1>2. new_segment' \in [Camera -> Segment] /\ video_files' \in [Camera -> Seq(Seq(Frame))]
  BY <1>1 DEF FilmTypes
<1>3. /\ UNCHANGED <<episode_buffer, info, log, segments, fed, dropped, late>>
      /\ main' \in {"move", "metadata"}
  BY NextIsCamera DEF Move, SaveVideos, writerVars, encoderVars, disk, history, IInv, Types
<1>4. QED
  BY <1>2, <1>3 DEF FilmTypes

(* The files of a camera that a video was put in still hold the others.     *)
LEMMA MoveTells ==
  ASSUME IInv, FilmTypes, PlacesInv, Move, cam \notin torn,
         NEW e \in 1..Len(segments)
  PROVE  /\ segments[e][cam].to <= Len(video_files'[cam][segments[e][cam].file])
         /\ FilmAt(video_files'[cam], segments[e][cam]) = FilmAt(video_files[cam], segments[e][cam])
<1> DEFINE f == video_files[cam]
           v == video[cam]
           n == segments[e][cam].file
           from == segments[e][cam].from
           to == segments[e][cam].to
<1>1. cam \in Camera /\ v \in Seq(Frame)
  BY DEF IInv, Types
<1>2. /\ LastFile(cam) \in Nat /\ f \in Seq(Seq(Frame))
      /\ Len(f) \in Nat /\ n \in Nat /\ from \in Nat /\ to \in Nat
  BY <1>1, LastTypes
<1>3. n \in 1..LastFile(cam) /\ to <= Len(f[n]) /\ Len(f) \in {LastFile(cam), LastFile(cam) + 1}
  BY <1>1 DEF PlacesInv, Filed, Fits
<1>4. PICK s \in Segment, g \in Seq(Seq(Frame)) :
        /\ video_files' = [video_files EXCEPT ![cam] = g]
        /\ \/ StartsFile(f, g, v, LastFile(cam))
           \/ FollowsIn(f, g, v, LastFile(cam))
  BY MoveIs
<1>5. video_files'[cam] = g
  BY <1>1, <1>4 DEF FilmTypes
<1> HIDE DEF f, v, n, from, to
<1>6. n \in 1..Len(f) /\ f[n] \in Seq(Frame)
  BY <1>2, <1>3
<1>7. g[n] = f[n] \/ g[n] = f[n] \o v
  BY <1>3, <1>4, <1>6 DEF StartsFile, FollowsIn
<1>8. to <= Len(g[n]) /\ SubSeq(g[n], from + 1, to) = SubSeq(f[n], from + 1, to)
  <2>1. CASE g[n] = f[n]
    BY <1>3, <2>1
  <2>2. CASE g[n] = f[n] \o v
    <3>1. Len(f[n] \o v) = Len(f[n]) + Len(v) /\ Len(f[n]) \in Nat /\ Len(v) \in Nat
      BY <1>1, <1>6
    <3>2. to <= Len(g[n])
      BY <1>2, <1>3, <2>2, <3>1
    <3>3. SubSeq(f[n] \o v, from + 1, to) = SubSeq(f[n], from + 1, to)
      <4>1. f[n] \in Seq(Frame) /\ v \in Seq(Frame) /\ from \in Nat /\ to \in Nat /\ to <= Len(f[n])
        BY <1>1, <1>2, <1>3, <1>6
      <4> QED BY <4>1, SubSeqConcat
    <3>4. QED
      BY <2>2, <3>2, <3>3
  <2>3. QED
    BY <1>7, <2>1, <2>2
<1>9. QED
  BY <1>5, <1>8 DEF FilmAt, f, n, from, to

LEMMA MoveFiled ==
  ASSUME IInv, FilmTypes, PlacesInv, Move, NEW c \in Camera, c = cam
  PROVE  Filed(c)' /\ (c \notin torn => Fits(c)')
<1> DEFINE f == video_files[c]
           v == video[c]
           L == LastFile(c)
           T == LastTo(c)
<1>1. /\ cam \in Camera /\ c = cam /\ v \in Seq(Frame) /\ v # <<>> /\ ~alive[c] /\ main = "move"
      /\ UNCHANGED <<segments, alive, video>> /\ NextCamera("metadata")
  BY DEF IInv, Types, Move, encoderVars
<1>2. /\ L \in Nat /\ T \in Nat /\ f \in Seq(Seq(Frame)) /\ Len(f) \in Nat
  BY <1>1, LastTypes
<1>3. /\ Len(f) \in {L, L + 1}
      /\ segments # <<>> => L >= 1 /\ T >= 1
  BY <1>1 DEF PlacesInv, Filed
<1>4. PICK s \in Segment, g \in Seq(Seq(Frame)) :
        /\ new_segment' = [new_segment EXCEPT ![c] = s]
        /\ video_files' = [video_files EXCEPT ![c] = g]
        /\ \/ /\ s = [file |-> L + 1, from |-> 0, to |-> Len(v)]
              /\ StartsFile(f, g, v, L)
           \/ /\ s = [file |-> L, from |-> T, to |-> T + Len(v)]
              /\ segments # <<>>
              /\ FollowsIn(f, g, v, L)
  BY MoveIs
<1>5. video_files'[c] = g /\ new_segment'[c] = s
  BY <1>1, <1>4 DEF FilmTypes
<1>6. LastFile(c)' = L /\ LastTo(c)' = T
  BY <1>1 DEF LastFile, LastTo
<1>7. ~Moved(c) /\ Moved(c)'
  BY <1>1, NextIsCamera DEF Moved, Camera
<1>8. ~alive'[c] /\ video'[c] = v
  BY <1>1
<1>9. Len(v) \in Nat /\ Len(v) > 0
  BY <1>1
<1>10. segments # <<>> => L \in 1..Len(f) /\ f[L] \in Seq(Frame) /\ Len(f[L]) \in Nat
  <2>1. segments # <<>> => L \in 1..Len(f)
    BY <1>2, <1>3
  <2>2. QED
    BY <1>2, <2>1
<1>11. c \notin torn /\ segments # <<>> => Len(f[L]) = T
  BY <1>1, <1>7 DEF PlacesInv, Fits
<1>12. \A e \in 1..Len(segments) :
         c \notin torn => /\ segments[e][c].file \in 1..L
                            /\ segments[e][c].to <= Len(g[segments[e][c].file])
  BY <1>1, <1>5, MoveTells DEF PlacesInv, Fits
<1> HIDE DEF f, v, L, T
<1>13. CASE /\ s = [file |-> L + 1, from |-> 0, to |-> Len(v)]
            /\ StartsFile(f, g, v, L)
  <2>1. s.file = L + 1 /\ s.from = 0 /\ s.to = Len(v)
    BY <1>13
  <2>2. Len(g) = L + 1 /\ g[L + 1] = v /\ \A i \in 1..L : g[i] = f[i]
    BY <1>13 DEF StartsFile
  <2>3. Starts(c)'
    BY <1>5, <1>6, <2>1 DEF Starts
  <2>4. Filed(c)'
    BY <1>1, <1>2, <1>3, <1>5, <1>6, <1>8, <1>9, <2>1, <2>2, <2>3 DEF Filed
  <2>5. segments # <<>> => g[L] = f[L]
    BY <1>2, <1>3, <2>2
  <2>6. FilmAt(g, s) = v
    <3>1. FilmAt(g, s) = SubSeq(v, 1, Len(v))
      BY <2>1, <2>2 DEF FilmAt
    <3>2. QED
      BY <1>1, <3>1, SubSeqAll
  <2>7. ASSUME c \notin torn
        PROVE  Fits(c)'
    <3>1. Len(g[s.file]) = s.to
      BY <2>1, <2>2
    <3>2. segments # <<>> => Len(g[L]) = T
      BY <1>11, <2>5, <2>7
    <3>3. QED
      BY <1>1, <1>5, <1>6, <1>8, <1>12, <2>6, <2>7, <3>1, <3>2 DEF Fits
  <2>8. QED
    BY <2>4, <2>7
<1>14. CASE /\ s = [file |-> L, from |-> T, to |-> T + Len(v)]
            /\ segments # <<>>
            /\ FollowsIn(f, g, v, L)
  <2>1. s.file = L /\ s.from = T /\ s.to = T + Len(v) /\ segments # <<>>
    BY <1>14
  <2>2. Len(g) = Len(f) /\ g[L] = f[L] \o v
    BY <1>14 DEF FollowsIn
  <2>3. T >= 1 /\ L >= 1
    BY <1>3, <2>1
  <2>4. Follows(c)'
    <3>1. T > 0
      BY <1>2, <2>3
    <3>2. QED
      BY <1>1, <1>5, <1>6, <2>1, <3>1 DEF Follows
  <2>5. ~Starts(c)'
    BY <1>2, <1>5, <2>1, <2>3 DEF Starts
  <2>6. Filed(c)'
    <3>1. L <= Len(f) /\ T + Len(v) > T
      BY <1>2, <1>3, <1>9
    <3>2. QED
      BY <1>1, <1>3, <1>5, <1>6, <1>8, <2>1, <2>2, <2>3, <2>4, <3>1 DEF Filed
  <2>7. ASSUME c \notin torn
        PROVE  Fits(c)'
    <3>1. Len(f[L]) = T /\ f[L] \in Seq(Frame)
      BY <1>10, <1>11, <2>1, <2>7
    <3>2. SubSeq(f[L] \o v, T + 1, T + Len(v)) = v /\ Len(f[L] \o v) = T + Len(v)
      BY <1>1, <3>1, SubSeqTail
    <3>3. FilmAt(g, s) = v /\ Len(g[s.file]) = s.to
      BY <2>1, <2>2, <3>2 DEF FilmAt
    <3>4. QED
      BY <1>1, <1>5, <1>6, <1>7, <1>8, <1>12, <2>5, <2>7, <3>3 DEF Fits
  <2>8. QED
    BY <2>6, <2>7
<1>15. QED
  BY <1>4, <1>13, <1>14

LEMMA MovePlaces ==
  ASSUME IInv, FilmTypes, PlacesInv, VideosMatch, Move
  PROVE  PlacesInv' /\ VideosMatch'
<1>1. /\ cam \in Camera /\ main = "move" /\ NextCamera("metadata")
      /\ UNCHANGED <<segments, fed, torn, alive, video, log>>
  BY DEF IInv, Types, Move, encoderVars, SaveVideos, writerVars, history
<1>2. PICK s \in Segment, g \in Seq(Seq(Frame)) :
        /\ new_segment' = [new_segment EXCEPT ![cam] = s]
        /\ video_files' = [video_files EXCEPT ![cam] = g]
  BY MoveIs
<1>3. \A c \in Camera : c # cam => /\ new_segment'[c] = new_segment[c]
                                   /\ video_files'[c] = video_files[c]
  BY <1>2 DEF FilmTypes
<1>4. ASSUME NEW c \in Camera, c # cam
      PROVE  Filed(c)' /\ (c \notin torn => Fits(c)')
  <2>1. LastFile(c)' = LastFile(c) /\ LastTo(c)' = LastTo(c)
    BY <1>1 DEF LastFile, LastTo
  <2>2. (Starts(c)' <=> Starts(c)) /\ (Follows(c)' <=> Follows(c))
    BY <1>1, <1>3, <1>4, <2>1 DEF Starts, Follows
  <2>3. Moved(c)' <=> Moved(c)
    <3>1. c < cam + 1 <=> c < cam
      BY <1>1, <1>4 DEF Camera
    <3>2. cam = NumCameras => c < cam
      BY <1>1, <1>4 DEF Camera
    <3>3. QED
      BY <1>1, <3>1, <3>2, NextIsCamera DEF Moved
  <2>4. Filed(c)'
    BY <1>1, <1>3, <1>4, <2>1, <2>2, <2>3 DEF PlacesInv, Filed
  <2>5. c \notin torn => Fits(c)'
    BY <1>1, <1>3, <1>4, <2>1, <2>2, <2>3 DEF PlacesInv, Fits
  <2>6. QED
    BY <2>4, <2>5
<1>5. PlacesInv'
  BY <1>1, <1>4, MoveFiled DEF PlacesInv
<1>6. ASSUME NEW e \in DOMAIN segments, NEW c \in Camera \ torn
      PROVE  Told(e, c)'
  <2>1. e \in 1..Len(segments)
    BY <1>6 DEF FilmTypes
  <2>2. FilmAt(video_files'[c], segments[e][c]) = FilmAt(video_files[c], segments[e][c])
    BY <1>3, <2>1, MoveTells
  <2>3. Told(e, c)
    BY ToldIs
  <2>4. QED
    BY <1>1, <2>2, <2>3 DEF Told
<1>7. VideosMatch'
  BY <1>1, <1>6 DEF VideosMatch, Told
<1>8. QED
  BY <1>5, <1>7

(* A video that was appended when a later one could not be: no episode of   *)
(* that camera is where it should be any more.                              *)
LEMMA MoveFailsPlaces ==
  ASSUME IInv, FilmTypes, PlacesInv, VideosMatch, MoveFails
  PROVE  FilmTypes' /\ PlacesInv' /\ VideosMatch'
<1>1. /\ main = "move" /\ main' = "ready" /\ cam \in Camera
      /\ torn' = torn \cup {c \in 1..(cam - 1) : new_segment[c].from > 0}
      /\ UNCHANGED <<video_files, new_segment, segments, fed, alive, video, late, dropped>>
      /\ UNCHANGED <<log, episode_buffer, info>>
  BY DEF MoveFails, SaveVideosFails, encoderVars, IInv, Types, disk
<1>2. FilmTypes'
  BY <1>1 DEF FilmTypes
<1>3. VideosMatch'
  BY <1>1 DEF VideosMatch
<1>4. ASSUME NEW c \in Camera
      PROVE  Filed(c)' /\ (c \notin torn' => Fits(c)')
  <2>1. LastFile(c)' = LastFile(c) /\ LastTo(c)' = LastTo(c) /\ ~Moved(c)'
    BY <1>1 DEF LastFile, LastTo, Moved
  <2>2. Filed(c)'
    BY <1>1, <1>4, <2>1 DEF PlacesInv, Filed
  <2>3. ASSUME c \notin torn'
        PROVE  Moved(c) => Starts(c)
    <3>1. SUFFICES ASSUME Moved(c) PROVE Starts(c)
      OBVIOUS
    <3>2. c < cam
      BY <1>1, <3>1 DEF Moved
    <3>3. c \in 1..(cam - 1)
      BY <1>1, <1>4, <3>2 DEF Camera
    <3>4. ~(new_segment[c].from > 0)
      BY <1>1, <2>3, <3>3
    <3>5. Starts(c) \/ Follows(c)
      BY <1>4, <3>1 DEF PlacesInv, Filed
    <3>6. QED
      BY <3>4, <3>5 DEF Follows
  <2>4. c \notin torn' => c \notin torn
    BY <1>1
  <2>5. c \notin torn' => Fits(c)'
    BY <1>1, <1>4, <2>1, <2>3, <2>4 DEF PlacesInv, Fits
  <2>6. QED
    BY <2>2, <2>5
<1>5. QED
  BY <1>2, <1>3, <1>4 DEF PlacesInv

LEMMA EndSaveIs ==
  ASSUME IInv, FilmTypes, EndSave
  PROVE  /\ main = "metadata" /\ main' = "ready"
         /\ log' = Append(log, episode_buffer.frames)
         /\ segments' = Append(segments, new_segment)
         /\ fed' = Append(fed, [dropped |-> dropped, late |-> late])
         /\ UNCHANGED <<video_files, new_segment, late, torn>> /\ UNCHANGED encoderVars
         /\ new_segment \in [Camera -> Segment]
         /\ episode_buffer.frames \in Seq(Frame)
         /\ [dropped |-> dropped, late |-> late]
              \in [dropped : SUBSET (Camera \X Frame), late : SUBSET Camera]
  BY SaveMetadataIs DEF EndSave, FilmTypes

LEMMA Appended ==
  ASSUME NEW X, NEW s \in Seq(X), NEW x \in X
  PROVE  /\ Append(s, x) \in Seq(X) /\ Append(s, x) # <<>>
         /\ Len(s) \in Nat /\ Len(Append(s, x)) = Len(s) + 1
         /\ Append(s, x)[Len(s) + 1] = x
         /\ \A i \in 1..Len(s) : Append(s, x)[i] = s[i]
         /\ DOMAIN s = 1..Len(s) /\ DOMAIN Append(s, x) = 1..(Len(s) + 1)
  OBVIOUS

LEMMA EndSaveTypes ==
  ASSUME IInv, FilmTypes, Together, EndSave
  PROVE  FilmTypes' /\ Together'
<1>1. /\ episode_buffer' \in Buffer /\ info' \in [episodes : Nat, frames : Nat]
  BY SaveMetadataIs DEF EndSave
<1>2. log' \in Seq(Seq(Frame)) /\ Len(log') = Len(log) + 1
  <2>1. log \in Seq(Seq(Frame))
    BY DEF FilmTypes
  <2>2. log' = Append(log, episode_buffer.frames) /\ episode_buffer.frames \in Seq(Frame)
    BY EndSaveIs
  <2>3. QED
    BY <2>1, <2>2, Appended
<1>3. segments' \in Seq([Camera -> Segment]) /\ Len(segments') = Len(segments) + 1
  <2>1. segments \in Seq([Camera -> Segment])
    BY DEF FilmTypes
  <2>2. segments' = Append(segments, new_segment) /\ new_segment \in [Camera -> Segment]
    BY EndSaveIs
  <2>3. QED
    BY <2>1, <2>2, Appended
<1>4. fed' \in Seq([dropped : SUBSET (Camera \X Frame), late : SUBSET Camera])
      /\ Len(fed') = Len(fed) + 1
  <2> DEFINE F == [dropped : SUBSET (Camera \X Frame), late : SUBSET Camera]
             x == [dropped |-> dropped, late |-> late]
  <2>1. fed \in Seq(F) /\ x \in F /\ fed' = Append(fed, x)
    BY EndSaveIs DEF FilmTypes
  <2> HIDE DEF F, x
  <2>2. fed' \in Seq(F) /\ Len(fed') = Len(fed) + 1
    BY <2>1
  <2>3. QED
    BY <2>2 DEF F
<1>5. UNCHANGED <<dropped, late, new_segment, video_files>> /\ main' = "ready"
  BY EndSaveIs DEF encoderVars
<1>6. QED
  BY <1>1, <1>2, <1>3, <1>4, <1>5 DEF FilmTypes, Together

(* The new episode's video is what the encoder was given.                   *)
LEMMA NewTold ==
  ASSUME IInv, FilmState, PlacesInv, EndSave, NEW c \in Camera \ torn
  PROVE  LET stored == FilmAt(video_files[c], new_segment[c])
             given == Given(c, episode_buffer.frames, dropped)
         IN IF c \in late THEN IsPrefix(stored, given) ELSE stored = given
<1>1. main = "metadata"
  BY DEF EndSave
<1>2. Moved(c) /\ Closing /\ Settled(c)
  BY <1>1 DEF Moved, Closing, Settled
<1>3. FilmAt(video_files[c], new_segment[c]) = video[c]
  BY <1>2 DEF PlacesInv, Fits
<1>4. Filmed(c) /\ Begins(video[c], accepted[c])
  BY <1>2 DEF FilmState, FilmInv
<1>5. accepted[c] = Given(c, episode_buffer.frames, dropped)
  BY <1>1, <1>4 DEF Filmed, FramesOf
<1>6. video[c] \in Seq(Frame) /\ accepted[c] \in Seq(Frame)
  BY DEF IInv, Types
<1>7. IsPrefix(video[c], accepted[c])
  BY <1>4, <1>6, BeginsIsPrefix
<1>8. c \notin late => video[c] = accepted[c]
  BY <1>2, <1>4 DEF Filmed, FilmState, FilmInv, IInv, NothingLost
<1>9. QED
  BY <1>3, <1>5, <1>7, <1>8

LEMMA EndSavePlaces ==
  ASSUME IInv, FilmState, Together, PlacesInv, VideosMatch, EndSave
  PROVE  PlacesInv' /\ VideosMatch'
<1> DEFINE n == Len(segments)
           note == [dropped |-> dropped, late |-> late]
<1>1. /\ main = "metadata" /\ main' = "ready"
      /\ UNCHANGED <<video_files, new_segment, torn, alive, video>>
  BY EndSaveIs DEF FilmState, encoderVars
<1>2. /\ n \in Nat /\ Len(segments') = n + 1 /\ segments'[n + 1] = new_segment
      /\ \A e \in 1..n : segments'[e] = segments[e]
      /\ DOMAIN segments = 1..n /\ DOMAIN segments' = 1..(n + 1) /\ segments' # <<>>
  <2>1. segments \in Seq([Camera -> Segment])
    BY DEF FilmState, FilmTypes
  <2>2. segments' = Append(segments, new_segment) /\ new_segment \in [Camera -> Segment]
    BY EndSaveIs DEF FilmState
  <2>3. QED
    BY <2>1, <2>2, Appended
<1>3. /\ log'[n + 1] = episode_buffer.frames
      /\ \A e \in 1..n : log'[e] = log[e]
  <2>1. log \in Seq(Seq(Frame)) /\ Len(log) = n
    BY DEF FilmState, FilmTypes, Together
  <2>2. log' = Append(log, episode_buffer.frames) /\ episode_buffer.frames \in Seq(Frame)
    BY EndSaveIs DEF FilmState
  <2> HIDE DEF n
  <2>3. QED
    BY <2>1, <2>2, Appended
<1>4. fed'[n + 1] = note /\ \A e \in 1..n : fed'[e] = fed[e]
  <2>1. fed' = Append(fed, note) /\ Len(fed) = n
        /\ fed \in Seq([dropped : SUBSET (Camera \X Frame), late : SUBSET Camera])
    BY EndSaveIs DEF FilmState, FilmTypes, Together
  <2> HIDE DEF note
  <2>2. QED
    BY <2>1
<1>5. \A c \in Camera : LastFile(c)' = new_segment[c].file /\ LastTo(c)' = new_segment[c].to
                        /\ ~Moved(c)'
  BY <1>1, <1>2 DEF LastFile, LastTo, Moved
<1>6. \A e \in 1..(n + 1) : e \in 1..n \/ e = n + 1
  BY <1>2
<1> HIDE DEF n
<1>7. ASSUME NEW c \in Camera
      PROVE  Filed(c)' /\ (c \notin torn => Fits(c)')
  <2> DEFINE s == new_segment[c]
             f == video_files[c]
             L == LastFile(c)
             T == LastTo(c)
  <2>1. /\ L \in Nat /\ T \in Nat /\ Len(f) \in Nat
        /\ s.file \in Nat /\ s.from \in Nat /\ s.to \in Nat
        /\ \A e \in 1..n : segments[e][c].file \in Nat
    BY LastTypes DEF FilmState, n
  <2>2. /\ Len(f) \in {L, L + 1} /\ s.file <= Len(f) /\ s.to > s.from
        /\ (segments # <<>> => L >= 1 /\ T >= 1)
        /\ \/ s.file = L + 1
           \/ segments # <<>> /\ s.file = L
    BY <1>1 DEF PlacesInv, Filed, Moved, Starts, Follows
  <2>3. c \notin torn =>
          /\ \A e \in 1..n : /\ segments[e][c].file \in 1..L
                             /\ segments[e][c].to <= Len(f[segments[e][c].file])
          /\ Len(f[s.file]) = s.to
    BY <1>1 DEF PlacesInv, Fits, Moved, n
  <2>4. video_files'[c] = f /\ LastFile(c)' = s.file /\ LastTo(c)' = s.to /\ ~Moved(c)'
        /\ segments'[n + 1][c] = s /\ \A e \in 1..n : segments'[e][c] = segments[e][c]
    BY <1>1, <1>2, <1>5
  <2> HIDE DEF s, f, L, T
  <2>5. Len(f) \in {s.file, s.file + 1} /\ s.file >= 1 /\ s.to >= 1 /\ L <= s.file
    BY <2>1, <2>2
  <2>6. Filed(c)'
    BY <2>4, <2>5 DEF Filed
  <2>7. ASSUME c \notin torn
        PROVE  Fits(c)'
    <3>1. ASSUME NEW e \in 1..(n + 1)
          PROVE  /\ segments'[e][c].file \in 1..s.file
                 /\ segments'[e][c].to <= Len(f[segments'[e][c].file])
      <4>1. CASE e \in 1..n
        <5>1. segments[e][c].file \in 1..L
              /\ segments[e][c].to <= Len(f[segments[e][c].file])
          BY <2>3, <2>7, <4>1
        <5>2. segments[e][c].file \in 1..s.file
          BY <2>1, <2>5, <5>1
        <5>3. QED
          BY <2>4, <4>1, <5>1, <5>2
      <4>2. CASE e = n + 1
        <5>1. s.file \in 1..s.file /\ s.to <= Len(f[s.file])
          BY <2>1, <2>3, <2>5, <2>7
        <5>2. QED
          BY <2>4, <4>2, <5>1
      <4>3. QED
        BY <1>6, <4>1, <4>2
    <3>2. Len(f[s.file]) = s.to
      BY <2>3, <2>7
    <3>3. QED
      BY <1>2, <2>4, <3>1, <3>2 DEF Fits
  <2>8. QED
    BY <2>6, <2>7
<1>8. PlacesInv'
  BY <1>1, <1>7 DEF PlacesInv
<1>9. ASSUME NEW e \in 1..(n + 1), NEW c \in Camera \ torn
      PROVE  Told(e, c)'
  <2>1. CASE e \in 1..n
    <3>1. Told(e, c)
      BY <1>2, <2>1, ToldIs
    <3>2. QED
      BY <1>1, <1>2, <1>3, <1>4, <2>1, <3>1 DEF Told
  <2>2. CASE e = n + 1
    <3>1. /\ segments'[e][c] = new_segment[c] /\ log'[e] = episode_buffer.frames
          /\ fed'[e].dropped = dropped /\ fed'[e].late = late
          /\ video_files'[c] = video_files[c]
      BY <1>1, <1>2, <1>3, <1>4, <2>2
    <3>2. QED
      BY <3>1, NewTold DEF Told
  <2>3. QED
    BY <1>6, <2>1, <2>2
<1>10. VideosMatch'
  BY <1>1, <1>2, <1>9 DEF VideosMatch, Told
<1>11. QED
  BY <1>8, <1>10

-----------------------------------------------------------------------------
VideoInv == /\ IInv /\ FilmState /\ Together
            /\ PlacesInv /\ VideosMatch

LEMMA InitVideoInv == Init => VideoInv
<1> SUFFICES ASSUME Init
             PROVE  VideoInv
  OBVIOUS
<1>1. /\ main = "ready" /\ cam = 1 /\ episode_buffer = EmptyBuffer(0)
      /\ info = [episodes |-> 0, frames |-> 0] /\ log = <<>> /\ segments = <<>> /\ fed = <<>>
      /\ dropped = {} /\ late = {} /\ active = FALSE
      /\ video_files = None(<<>>)
      /\ new_segment = None([file |-> 0, from |-> 0, to |-> 0])
  BY DEF Init, WriterInit, EncoderInit
<1>2. /\ queue = None(<<>>) /\ stop = None(FALSE) /\ video = None(<<>>) /\ accepted = None(<<>>)
  BY DEF Init, EncoderInit
<1>3. episode_buffer \in Buffer /\ episode_buffer.frames = <<>>
  BY <1>1, EmptyBufferIs
<1>4. FilmTypes
  <2>1. new_segment \in [Camera -> Segment]
    BY <1>1 DEF None, Segment
  <2>2. video_files \in [Camera -> Seq(Seq(Frame))]
    BY <1>1 DEF None
  <2>3. segments \in Seq([Camera -> Segment]) /\ log \in Seq(Seq(Frame))
        /\ fed \in Seq([dropped : SUBSET (Camera \X Frame), late : SUBSET Camera])
    BY <1>1
  <2>4. info \in [episodes : Nat, frames : Nat]
    BY <1>1
  <2>5. QED
    BY <1>1, <1>3, <2>1, <2>2, <2>3, <2>4 DEF FilmTypes
<1>5. Numbered
  BY <1>1, <1>3 DEF Numbered
<1>6. FilmInv
  <2>1. ~Filming /\ ~Closing
    BY <1>1 DEF Filming, Closing
  <2>2. \A c \in Camera : ~stop[c] /\ queue[c] = <<>> /\ Begins(video[c], accepted[c])
    BY <1>2 DEF None, Begins
  <2>3. QED
    BY <2>1, <2>2 DEF FilmInv
<1>7. PlacesInv
  <2>1. \A c \in Camera : ~Moved(c) /\ LastFile(c) = 0 /\ Len(video_files[c]) = 0
    BY <1>1 DEF Moved, LastFile, None
  <2>2. \A c \in Camera : Filed(c)
    BY <1>1, <2>1 DEF Filed
  <2>3. Len(segments) = 0
    BY <1>1
  <2>4. \A c \in Camera : Fits(c)
    BY <1>1, <2>1, <2>3 DEF Fits
  <2>5. QED
    BY <2>2, <2>4 DEF PlacesInv
<1>8. Together
  BY <1>1 DEF Together
<1>9. VideosMatch
  BY <1>1 DEF VideosMatch
<1>10. QED
  BY <1>4, <1>5, <1>6, <1>7, <1>8, <1>9, InitIInv DEF VideoInv, FilmState

LEMMA TogetherAside ==
  ASSUME Together, Kept
  PROVE  Together'
  BY DEF Together, Kept

(* Every step but those of _save_episode_video and what comes after it.     *)
LEMMA OtherPlaces ==
  ASSUME IInv, FilmState, PlacesInv, VideosMatch, Kept,
         Feeding \/ BeginSave \/ SaveRefused \/ PutNextSentinel \/ Join \/ JoinError
           \/ EndEpisode \/ Discard \/ Finish \/ ResumeSession \/ Encoding
  PROVE  PlacesInv' /\ VideosMatch'
<1>1. CASE Encoding
  <2>1. PICK d \in Camera : Thread(d) /\ UNCHANGED <<writerVars, videoVars>>
    BY <1>1 DEF Encoding
  <2>2. UNCHANGED <<main, cam>>
    BY <2>1 DEF videoVars
  <2>3. alive[d]
    BY <2>1 DEF Thread, Encode, Ends, EncodeFails
  <2>4. \A c \in Camera : ~alive[c] => ~alive'[c] /\ video'[c] = video[c]
    BY <2>1, <2>3 DEF Thread, Encode, Ends, EncodeFails, IInv, Types
  <2>5. \A c \in Camera : Moved(c)' <=> Moved(c)
    BY <2>2 DEF Moved
  <2>6. QED
    BY <2>4, <2>5, PlacesAside
<1>2. CASE ~Encoding
  <2>1. cam \in Camera /\ main \in Places
    BY DEF IInv, Types, FilmState, FilmTypes, Places
  <2>2. main \notin {"move", "metadata"}
    BY <1>2 DEF Feeding, BeginFrame, FeedCamera, FeedCameraRaises, BeginSave, SaveRefused,
                PutNextSentinel, Join, JoinError, EndEpisode, Discard, Finish, ResumeSession,
                Resume, IInv, Phase
  <2>3. main' \notin {"move", "metadata"} \/ (main' = "move" /\ cam' = cam /\ cam = 1)
    <3>1. CASE EndEpisode
      BY <3>1 DEF EndEpisode, FilmState, Numbered
    <3>2. CASE ~EndEpisode
      BY <1>2, <2>1, <2>2, <3>2, NextIsCamera
         DEF Feeding, BeginFrame, FeedCamera, FeedCameraRaises, BeginSave, SaveRefused,
             PutNextSentinel, Join, JoinError, Discard, Finish, ResumeSession
    <3>3. QED
      BY <3>1, <3>2
  <2>4. \A c \in Camera : ~Moved(c) /\ ~Moved(c)'
    BY <2>2, <2>3 DEF Moved, Camera
  <2>5. QED
    BY <2>4, PlacesAside
<1>3. QED
  BY <1>1, <1>2

LEMMA StepVideoInv == VideoInv /\ [VideoNext]_vars => VideoInv'
<1> SUFFICES ASSUME VideoInv, [VideoNext]_vars
             PROVE  VideoInv'
  OBVIOUS
<1>1. IInv /\ FilmState /\ FilmTypes /\ Together /\ PlacesInv /\ VideosMatch
  BY DEF VideoInv, FilmState
<1>2. IInv'
  BY <1>1, StepIInv
<1>3. CASE Feeding \/ BeginSave \/ SaveRefused \/ PutNextSentinel \/ Join \/ JoinError
             \/ EndEpisode \/ Discard \/ Finish \/ ResumeSession \/ Encoding
  <2>1. FilmTypes' /\ Kept
    BY <1>1, <1>3, FeedTypes, SaveTypes, EndTypes
  <2>2. Together'
    BY <1>1, <2>1, TogetherAside
  <2>3. PlacesInv' /\ VideosMatch'
    BY <1>1, <1>3, <2>1, OtherPlaces
  <2>4. Numbered' /\ FilmInv'
    <3>1. CASE Feeding
      BY <1>1, <1>2, <3>1, BeginFilm, FeedFilm, FeedRaisesFilm DEF Feeding
    <3>2. CASE BeginSave \/ SaveRefused \/ PutNextSentinel \/ Join \/ JoinError \/ EndEpisode
      BY <1>1, <1>2, <3>2, SaveFilm, PutFilm, JoinFilm, JoinErrorFilm, EndEpisodeFilm
    <3>3. CASE Discard \/ Finish \/ ResumeSession
      BY <1>1, <1>2, <3>3, EndFilm
    <3>4. CASE Encoding
      <4>1. PICK d \in Camera : Thread(d) /\ UNCHANGED <<writerVars, videoVars>>
        BY <3>4 DEF Encoding
      <4>2. QED
        BY <1>1, <1>2, <4>1, EncodeFilm
    <3>5. QED
      BY <1>3, <3>1, <3>2, <3>3, <3>4
  <2>5. QED
    BY <1>2, <2>1, <2>2, <2>3, <2>4 DEF VideoInv, FilmState
<1>4. CASE Move
  <2>1. FilmTypes' /\ PlacesInv' /\ VideosMatch'
    BY <1>1, <1>4, MoveTypes, MovePlaces
  <2>2. Numbered' /\ FilmInv'
    BY <1>1, <1>2, <1>4, MoveFilm
  <2>3. Together'
    BY <1>1, <1>4 DEF Together, Move, SaveVideos, writerVars, history
  <2>4. QED
    BY <1>2, <2>1, <2>2, <2>3 DEF VideoInv, FilmState
<1>5. CASE MoveFails
  <2>1. FilmTypes' /\ PlacesInv' /\ VideosMatch'
    BY <1>1, <1>5, MoveFailsPlaces
  <2>2. Numbered' /\ FilmInv'
    BY <1>1, <1>2, <1>5, MoveFilm
  <2>3. Together'
    BY <1>1, <1>5 DEF Together, MoveFails, SaveVideosFails
  <2>4. QED
    BY <1>2, <2>1, <2>2, <2>3 DEF VideoInv, FilmState
<1>6. CASE EndSave
  <2>1. FilmTypes' /\ Together' /\ PlacesInv' /\ VideosMatch'
    BY <1>1, <1>6, EndSaveTypes, EndSavePlaces
  <2>2. Numbered' /\ FilmInv'
    BY <1>1, <1>2, <1>6, MoveFilm
  <2>3. QED
    BY <1>2, <2>1, <2>2 DEF VideoInv, FilmState
<1>7. CASE UNCHANGED vars
  <2>1. UNCHANGED <<episode_buffer, info, log, segments, fed, new_segment, video_files, torn,
                    dropped, late, main, cam, clock, alive, video>>
        /\ UNCHANGED encoderVars /\ active' = active
    BY <1>7 DEF vars, writerVars, encoderVars, videoVars, disk, history
  <2>2. FilmTypes' /\ Together'
    BY <1>1, <2>1 DEF FilmTypes, Together
  <2>3. Numbered'
    BY <1>1, <2>1 DEF FilmState, Numbered
  <2>4. FilmInv'
    <3>1. \A c \in Camera : FramesOf(c)' = FramesOf(c) /\ (Settled(c)' <=> Settled(c))
      BY <2>1 DEF FramesOf, Settled
    <3>2. Filming' \/ Closing' <=> Filming \/ Closing
      BY <2>1 DEF Filming, Closing
    <3>3. QED
      BY <1>1, <2>1, <3>1, <3>2, FilmAside
  <2>5. PlacesInv' /\ VideosMatch'
    <3>1. Kept /\ \A c \in Camera : Moved(c)' <=> Moved(c)
      BY <2>1 DEF Kept, Moved
    <3>2. QED
      BY <1>1, <2>1, <3>1, PlacesAside
  <2>6. QED
    BY <1>2, <2>2, <2>3, <2>4, <2>5 DEF VideoInv, FilmState
<1>8. QED
  BY <1>3, <1>4, <1>5, <1>6, <1>7 DEF VideoNext, Saving

(* Whatever fails and however the threads are scheduled, the video of every  *)
(* saved episode is its frames, in order and without those a full queue     *)
(* dropped, where the metadata says (_save_episode_video): it is shorter    *)
(* only when the encoder did not finish in time, and elsewhere only after a *)
(* save that failed once it had appended a video.                           *)
THEOREM VideosAreRight == VideoSpec => []VideosMatch
<1>1. VideoInv => VideosMatch
  BY DEF VideoInv
<1>2. QED
  BY <1>1, InitVideoInv, StepVideoInv, PTL DEF VideoSpec

-----------------------------------------------------------------------------
(* The writer with real encoders is the writer: feeding a camera, waiting   *)
(* for a thread and moving a video file are steps that it does not see, and *)
(* every other one is a step of DatasetWriter.                              *)
LEMMA StepIsOfWriter == [VideoNext]_vars => [Next]_writerVars
<1> SUFFICES ASSUME [VideoNext]_vars
             PROVE  Next \/ UNCHANGED writerVars
  OBVIOUS
<1>1. CASE Feeding
  <2>1. BeginFrame => UNCHANGED writerVars
    BY DEF BeginFrame
  <2>2. FeedCamera => AddFrame \/ UNCHANGED writerVars
    BY DEF FeedCamera
  <2>3. FeedCameraRaises => AddFrameFails
    BY DEF FeedCameraRaises
  <2>4. QED
    BY <1>1, <2>1, <2>2, <2>3 DEF Feeding, Next
<1>2. CASE BeginSave \/ SaveRefused \/ Discard \/ Finish \/ ResumeSession
  BY <1>2 DEF BeginSave, SaveRefused, Discard, Finish, ResumeSession, Next
<1>3. CASE Saving
  <2>1. PutNextSentinel \/ Join \/ EndEpisode => UNCHANGED writerVars
    BY DEF PutNextSentinel, Join, EndEpisode
  <2>2. JoinError \/ MoveFails => SaveVideosFails
    BY DEF JoinError, MoveFails
  <2>3. Move => SaveVideos \/ UNCHANGED writerVars
    BY DEF Move
  <2>4. EndSave => SaveMetadata
    BY DEF EndSave
  <2>5. QED
    BY <1>3, <2>1, <2>2, <2>3, <2>4 DEF Saving, Next
<1>4. CASE Encoding \/ UNCHANGED vars
  BY <1>4 DEF Encoding, vars
<1>5. QED
  BY <1>1, <1>2, <1>3, <1>4 DEF VideoNext

(* Streaming encoding implements the writer that knows of the encoders only *)
(* that they succeed or fail: what is proved of every behaviour of the      *)
(* writer (its rows, metadata and log) holds with the threads beside it.    *)
THEOREM VideosRefineWriter == VideoSpec => Spec
<1>1. Init => WriterInit
  BY DEF Init
<1>2. QED
  BY <1>1, StepIsOfWriter, PTL DEF VideoSpec, Spec
=============================================================================
