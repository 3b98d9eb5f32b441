--------------------------- MODULE VideoRecording ---------------------------
(***************************************************************************)
(* A dataset with video keys and streaming encoding: the writer             *)
(* (DatasetWriter) feeds the frames of an episode to the encoder threads    *)
(* (StreamingEncoder), waits for them in save_episode, and appends their    *)
(* videos to the video files of the dataset.                                *)
(*                                                                          *)
(* Sessions may be resumed but none is killed (DatasetWriter has crashes).  *)
(* The writer's state and steps are those of DatasetWriter.                 *)
(***************************************************************************)
EXTENDS DatasetWriter, StreamingEncoder

VARIABLES
  main,         \* where the control thread is in add_frame or save_episode
  cam,          \* the camera it is at
  latest,       \* meta.latest_episode is not None
  video_files,  \* disk: the video files of each camera
  new_segment,  \* of the episode that is saved: where its videos are
  segments,     \* disk: where the videos of the episodes are
  late,         \* history: cameras whose thread did not finish this episode in time
  fed,          \* history: dropped and late, of the episodes saved
  torn          \* history: cameras with a video of no episode inside a file

videoVars == <<main, cam, latest, video_files, new_segment, segments, late, fed, torn>>
vars == <<writerVars, encoderVars, videoVars>>

Segment == [file : Nat, from : Nat, to : Nat]

TypeOK ==
  /\ WriterTypeOK
  /\ EncoderTypeOK
  /\ main \in {"ready", "feed", "put", "join", "cleanup", "move", "metadata"}
  /\ cam \in Camera
  /\ latest \in BOOLEAN
  /\ video_files \in [Camera -> Seq(Seq(Frame))]
  /\ new_segment \in [Camera -> Segment]
  /\ segments \in Seq([Camera -> Segment])
  /\ late \subseteq Camera
  /\ fed \in Seq([dropped : SUBSET (Camera \X Frame), late : SUBSET Camera])
  /\ torn \subseteq Camera

Init ==
  /\ WriterInit
  /\ has_video
  /\ EncoderInit
  /\ main = "ready"
  /\ cam = 1
  /\ latest = FALSE
  /\ video_files = None(<<>>)
  /\ new_segment = None([file |-> 0, from |-> 0, to |-> 0])
  /\ segments = <<>>
  /\ late = {}
  /\ fed = <<>>
  /\ torn = {}

(* The control thread goes on to the next camera, or to another place.      *)
NextCamera(place) ==
  IF cam < NumCameras THEN main' = main /\ cam' = cam + 1 ELSE main' = place /\ cam' = 1

Disk == UNCHANGED <<latest, video_files, new_segment, segments, fed, torn>>

-----------------------------------------------------------------------------
(* add_frame *)

(* The first frame of an episode starts the encoder.                        *)
BeginFrame ==
  /\ main = "ready" /\ Ready
  /\ clock < MaxFrames
  /\ episode_buffer.keys # "popped"
  /\ main' = "feed"
  /\ IF episode_buffer.frames = <<>>
       THEN StartEpisode /\ late' = {}
       ELSE UNCHANGED <<encoderVars, late>>
  /\ Disk /\ UNCHANGED <<writerVars, cam>>

FeedCamera ==
  /\ main = "feed"
  /\ Feed(cam, clock + 1)
  /\ NextCamera("ready")
  /\ IF cam = NumCameras THEN AddFrame ELSE UNCHANGED writerVars
  /\ Disk /\ UNCHANGED late

FeedCameraRaises ==
  /\ main = "feed"
  /\ FeedRaises(cam)
  /\ main' = "ready" /\ cam' = 1
  /\ AddFrameFails
  /\ Disk /\ UNCHANGED late

-----------------------------------------------------------------------------
(* save_episode *)

BeginSave ==
  /\ main = "ready"
  /\ SaveData
  /\ main' = "put"
  /\ Disk /\ UNCHANGED <<encoderVars, cam, late>>

SaveRefused ==
  /\ main = "ready"
  /\ SaveRaises
  /\ Disk /\ UNCHANGED <<encoderVars, main, cam, late>>

PutNextSentinel ==
  /\ main = "put"
  /\ PutSentinel(cam)
  /\ NextCamera("join")
  /\ Disk /\ UNCHANGED <<writerVars, late>>

(* A result, or none in time.  The last one ends the episode.               *)
Join ==
  /\ main = "join"
  /\ \/ Collect(cam) /\ UNCHANGED late
     \/ JoinTimesOut(cam) /\ late' = late \cup {cam}
  /\ NextCamera("cleanup")
  /\ Disk /\ UNCHANGED writerVars

JoinError ==
  /\ main = "join"
  /\ CollectError(cam)
  /\ SaveVideosFails
  /\ main' = "ready" /\ cam' = 1
  /\ Disk /\ UNCHANGED late

EndEpisode ==
  /\ main = "cleanup"
  /\ Cleanup
  /\ main' = "move"
  /\ Disk /\ UNCHANGED <<writerVars, cam, late>>

(* _save_episode_video: the first video of a session starts a file; a later *)
(* one starts a file or is appended to the last one's.                      *)
NewSegment(append) ==
  LET length == Len(video[cam])
      last == Last(segments)[cam]
  IN IF segments = <<>> THEN [file |-> 1, from |-> 0, to |-> length]
     ELSE IF latest /\ append
            THEN [file |-> last.file, from |-> last.to, to |-> last.to + length]
            ELSE [file |-> last.file + 1, from |-> 0, to |-> length]

(* A file that exists is replaced, or concatenated with the video.          *)
WithVideo(files, s) ==
  IF s.file > Len(files) THEN Append(files, video[cam])
  ELSE IF s.from = 0 THEN [files EXCEPT ![s.file] = video[cam]]
  ELSE [files EXCEPT ![s.file] = @ \o video[cam]]

(* A file of which the thread has not written the end cannot be read.       *)
Move ==
  /\ main = "move"
  /\ ~alive[cam] /\ video[cam] # <<>>
  /\ \E append \in BOOLEAN :
       LET s == NewSegment(append) IN
         /\ new_segment' = [new_segment EXCEPT ![cam] = s]
         /\ video_files' = [video_files EXCEPT ![cam] = WithVideo(@, s)]
  /\ NextCamera("metadata")
  /\ IF cam = NumCameras THEN SaveVideos ELSE UNCHANGED writerVars
  /\ UNCHANGED <<encoderVars, latest, segments, late, fed, torn>>

(* A file that cannot be read, or an error of the disk.                     *)
MoveFails ==
  /\ main = "move"
  /\ SaveVideosFails
  /\ main' = "ready" /\ cam' = 1
  /\ torn' = torn \cup {c \in 1..(cam - 1) : new_segment[c].from > 0}
  /\ UNCHANGED <<encoderVars, latest, video_files, new_segment, segments, late, fed>>

EndSave ==
  /\ main = "metadata"
  /\ SaveMetadata
  /\ main' = "ready"
  /\ latest' = TRUE
  /\ segments' = Append(segments, new_segment)
  /\ fed' = Append(fed, [dropped |-> dropped, late |-> late])
  /\ UNCHANGED <<encoderVars, cam, video_files, new_segment, late, torn>>

-----------------------------------------------------------------------------
(* clear_episode_buffer, finalize, and another session. *)

Cancel == IF active THEN CancelEpisode ELSE UNCHANGED encoderVars

Discard ==
  /\ main = "ready"
  /\ ClearEpisodeBuffer
  /\ Cancel
  /\ Disk /\ UNCHANGED <<main, cam, late>>

Finish ==
  /\ main = "ready"
  /\ Finalize
  /\ Cancel
  /\ Disk /\ UNCHANGED <<main, cam, late>>

ResumeSession ==
  /\ Resume
  /\ latest' = FALSE
  /\ UNCHANGED <<encoderVars, main, cam, video_files, new_segment, segments, late, fed, torn>>

-----------------------------------------------------------------------------
Encoding == \E c \in Camera : Thread(c) /\ UNCHANGED <<writerVars, videoVars>>

Feeding == BeginFrame \/ FeedCamera \/ FeedCameraRaises

Saving == PutNextSentinel \/ Join \/ JoinError \/ EndEpisode \/ Move \/ MoveFails \/ EndSave

VideoNext == Feeding \/ BeginSave \/ SaveRefused \/ Saving \/ Discard \/ Finish \/ ResumeSession
             \/ Encoding

VideoSpec == Init /\ [][VideoNext]_vars

(* The control thread and the encoder threads are scheduled, and encoding a *)
(* frame ends.                                                              *)
FairVideo ==
  /\ VideoSpec
  /\ WF_vars(Saving)
  /\ \A c \in Camera : WF_vars(Thread(c) /\ UNCHANGED <<writerVars, videoVars>>)

-----------------------------------------------------------------------------
(* The frames of an episode that went to a camera's encoder: those that a   *)
(* full queue dropped are missing.                                          *)
Given(c, frames, lost) ==
  FlattenSeq([i \in 1..Len(frames) |->
                IF <<c, frames[i]>> \in lost THEN <<>> ELSE <<frames[i]>>])

(* The frames that a reader of the disk finds where a segment says.         *)
FilmAt(files, s) == SubSeq(files[s.file], s.from + 1, s.to)

(* The video of a saved episode, whatever failed and was retried before, is *)
(* the frames of the episode in their order, without those a full queue     *)
(* dropped: an encoder that died never leaves a shorter one behind.  Only   *)
(* one that did not finish in time does, and only a save that failed after  *)
(* it appended a video moves later ones out of place.                       *)
VideosMatch ==
  \A e \in DOMAIN segments : \A c \in Camera \ torn :
    LET stored == FilmAt(video_files[c], segments[e][c])
        given == Given(c, log[e], fed[e].dropped)
    IN IF c \in fed[e].late THEN IsPrefix(stored, given) ELSE stored = given

(* The writer never feeds or finishes an encoder that has no episode, and   *)
(* leaves none behind when it is finalised.                                 *)
EncoderFollows ==
  /\ main \in {"feed", "put", "join", "cleanup"} => active
  /\ status = "finalized" => ~active

(* An encoder that ended on the sentinel has encoded all it was given.      *)
NothingLost ==
  \A c \in Camera : ~alive[c] /\ result[c] = "ok" /\ ~stop[c] => video[c] = accepted[c]

(* The encoder has the episode's frames, all of them, and no other episode.  *)
EncodersSound == NothingLost /\ EncoderFollows

(* The sentinel is put without a timeout: it waits for ever when a thread   *)
(* has died since its last frame, with its queue full.                      *)
Stuck == main = "put" /\ Full(cam) /\ ~alive[cam]

(* save_episode returns in every other case, with the episode or an error.  *)
SaveEnds == (saving = "video") ~> (saving # "video" \/ Stuck)
=============================================================================
