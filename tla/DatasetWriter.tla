--------------------------- MODULE DatasetWriter ---------------------------
(***************************************************************************)
(* Recording episodes to disk (datasets/dataset_writer.py and              *)
(* dataset_metadata.py): frames are buffered, an episode is saved as rows  *)
(* of a data file and then as a row of metadata, which is itself buffered; *)
(* the files are readable only once they are closed.  A process may die at *)
(* any point, and a later session resumes from what is on disk.            *)
(*                                                                         *)
(* A frame is the number of the add_frame call that brought it.  Left out: *)
(* task names, statistics, the contents of the videos, the batch encoding  *)
(* mode, and the rotation of the metadata file (like that of the data      *)
(* files).  A data file is rotated whenever the model likes: the code does *)
(* it by size.                                                             *)
(***************************************************************************)
EXTENDS Naturals, SequencesExt

CONSTANTS
  MetadataBufferSize,  \* metadata_buffer_size
  VideoModes,          \* values of "the dataset has video keys" to start with
  MaxFrames,           \* bound: calls of add_frame
  MaxSessions          \* bound: processes that record to the dataset

ASSUME WriterAssumption ==
  /\ MetadataBufferSize \in Nat \ {0}
  /\ VideoModes \subseteq BOOLEAN
  /\ MaxFrames \in Nat
  /\ MaxSessions \in Nat

VARIABLES
  has_video,        \* len(meta.video_keys) > 0
  data,             \* disk: the data files in order, with their rows; closed: has a footer
  episodes,         \* disk: the rows of meta/episodes
  info,             \* disk: info.json (total_episodes, total_frames)
  meta_torn,        \* disk: a metadata file has no footer and no process to write it
  file,             \* where _latest_episode was written, 0 when it is None
  data_writer,      \* writer._pq_writer is not None
  meta_writer,      \* meta._pq_writer is not None
  metadata_buffer,  \* meta._metadata_buffer
  episode_buffer,   \* its episode_index, its frames, and which keys it has
  saving,           \* where save_episode is
  status,           \* of the session
  session,          \* number of sessions so far
  clock,            \* number of calls of add_frame so far
  log,              \* history: the episodes saved, those a crash lost removed
  safe,             \* history: Len(log) when a session last finished
  orphaned,         \* history: some rows belong to no episode
  unclean           \* history: a process died after it saved an episode

disk == <<data, episodes, info, meta_torn>>
memory == <<file, data_writer, meta_writer, metadata_buffer>>
history == <<log, safe, orphaned, unclean>>
writerVars == <<has_video, disk, memory, episode_buffer, saving, status, session, clock, history>>

Row == [frame : Nat, episode : Nat, index : Nat]
Episode == [episode : Nat, from : Nat, to : Nat, file : Nat]

(* Every episode of which the metadata knows, on disk or not.               *)
AllEpisodes == episodes \o metadata_buffer

(* dataset_to_index of the latest episode.                                  *)
LatestTo(eps) == IF eps = <<>> THEN 0 ELSE Last(eps).to

EmptyBuffer(index) == [index |-> index, frames |-> <<>>, keys |-> "all"]

WriterTypeOK ==
  /\ has_video \in BOOLEAN
  /\ data \in Seq([rows : Seq(Row), closed : BOOLEAN])
  /\ episodes \in Seq(Episode)
  /\ info \in [episodes : Nat, frames : Nat]
  /\ meta_torn \in BOOLEAN
  /\ file \in Nat
  /\ data_writer \in BOOLEAN
  /\ meta_writer \in BOOLEAN
  /\ metadata_buffer \in Seq(Episode)
  /\ episode_buffer \in [index : Nat, frames : Seq(Nat), keys : {"all", "uneven", "popped"}]
  /\ saving \in {"idle", "video", "metadata"}
  /\ status \in {"recording", "finalized", "dead"}
  /\ session \in Nat
  /\ clock \in Nat
  /\ log \in Seq(Seq(Nat))
  /\ safe \in Nat
  /\ orphaned \in BOOLEAN
  /\ unclean \in BOOLEAN

WriterInit ==
  /\ has_video \in VideoModes
  /\ data = <<>>
  /\ episodes = <<>>
  /\ info = [episodes |-> 0, frames |-> 0]
  /\ meta_torn = FALSE
  /\ file = 0
  /\ data_writer = FALSE
  /\ meta_writer = FALSE
  /\ metadata_buffer = <<>>
  /\ episode_buffer = EmptyBuffer(0)
  /\ saving = "idle"
  /\ status = "recording"
  /\ session = 1
  /\ clock = 0
  /\ log = <<>>
  /\ safe = 0
  /\ orphaned = FALSE
  /\ unclean = FALSE

Ready == status = "recording" /\ saving = "idle"

-----------------------------------------------------------------------------
(* add_frame. *)

AddFrame ==
  /\ Ready
  /\ clock < MaxFrames
  /\ episode_buffer.keys # "popped"
  /\ clock' = clock + 1
  /\ episode_buffer' = [episode_buffer EXCEPT !.frames = Append(@, clock + 1)]
  /\ UNCHANGED <<has_video, disk, memory, saving, status, session, history>>

(* feed_frame raises: the columns filled before it have one value more than *)
(* "size" says.                                                             *)
AddFrameFails ==
  /\ Ready
  /\ has_video
  /\ clock < MaxFrames
  /\ episode_buffer.keys # "popped"
  /\ clock' = clock + 1
  /\ episode_buffer' = [episode_buffer EXCEPT !.keys = "uneven"]
  /\ UNCHANGED <<has_video, disk, memory, saving, status, session, history>>

-----------------------------------------------------------------------------
(* save_episode: validate_episode_buffer, then the rows, the videos and the *)
(* metadata.                                                                *)

Valid == /\ episode_buffer.keys = "all"
         /\ episode_buffer.frames # <<>>
         /\ episode_buffer.index = info.episodes

(* The buffer is refused or its columns do not stack; "size" and "task" may *)
(* be gone by then.                                                         *)
SaveRaises ==
  /\ Ready
  /\ ~Valid
  /\ episode_buffer' = IF episode_buffer.keys = "uneven" /\ episode_buffer.frames # <<>>
                         THEN [episode_buffer EXCEPT !.keys = "popped"]
                         ELSE episode_buffer
  /\ UNCHANGED <<has_video, disk, memory, saving, status, session, clock, history>>

\* mutant: the rows are numbered within their episode
LocalRows == [i \in 1..Len(episode_buffer.frames) |->
                [frame |-> episode_buffer.frames[i], episode |-> episode_buffer.index,
                 index |-> i - 1]]

NewRows == [i \in 1..Len(episode_buffer.frames) |->
              [frame |-> episode_buffer.frames[i], episode |-> episode_buffer.index,
               index |-> info.frames + i - 1]]

(* The file the rows go to: a session starts one of its own, after the      *)
(* latest episode's.                                                        *)
NextFile(rotate) ==
  IF file # 0
    THEN IF rotate THEN file + 1 ELSE file
    ELSE IF episodes = <<>> THEN 1 ELSE Last(episodes).file + 1

(* ParquetWriter replaces a file that exists.                               *)
Written(f) ==
  LET rows == IF f = file THEN data[f].rows \o NewRows ELSE NewRows
      closing == [g \in DOMAIN data |-> IF g = file THEN [data[g] EXCEPT !.closed = (f # file)]
                                                    ELSE data[g]]
      new == [rows |-> rows, closed |-> FALSE]
  IN IF f <= Len(data) THEN [closing EXCEPT ![f] = new] ELSE Append(closing, new)

SaveData ==
  /\ Ready
  /\ Valid
  /\ \E rotate \in BOOLEAN : data' = Written(NextFile(rotate)) /\ file' = NextFile(rotate)
  /\ data_writer' = TRUE
  /\ episode_buffer' = [episode_buffer EXCEPT !.keys = "popped"]
  /\ saving' = IF has_video THEN "video" ELSE "metadata"
  /\ UNCHANGED <<has_video, episodes, info, meta_torn, meta_writer, metadata_buffer, status,
                 session, clock, history>>

SaveVideos ==
  /\ saving = "video"
  /\ saving' = "metadata"
  /\ UNCHANGED <<has_video, disk, memory, episode_buffer, status, session, clock, history>>

(* An encoder reports an error: the rows stay, without an episode.          *)
SaveVideosFails ==
  /\ saving = "video"
  /\ saving' = "idle"
  /\ orphaned' = TRUE
  /\ UNCHANGED <<has_video, disk, memory, episode_buffer, status, session, clock, log, safe,
                 unclean>>

\* mutant: the rows of metadata are counted from the first one buffered
NewEpisodeInBuffer ==
  [episode |-> episode_buffer.index, from |-> LatestTo(metadata_buffer),
   to |-> LatestTo(metadata_buffer) + Len(episode_buffer.frames), file |-> file]

NewEpisode ==
  [episode |-> episode_buffer.index, from |-> LatestTo(AllEpisodes),
   to |-> LatestTo(AllEpisodes) + Len(episode_buffer.frames), file |-> file]

\* mutant: a full buffer is written without the new row
FlushTooEarly ==
  LET buffered == Append(metadata_buffer, NewEpisode)
      full == Len(buffered) >= MetadataBufferSize
  IN /\ episodes' = IF full THEN episodes \o metadata_buffer ELSE episodes
     /\ metadata_buffer' = IF full THEN <<>> ELSE buffered
     /\ meta_writer' = (meta_writer \/ full)

(* _save_episode_metadata: a full buffer is written out.                    *)
BufferMetadata ==
  LET buffered == Append(metadata_buffer, NewEpisode)
      full == Len(buffered) >= MetadataBufferSize
  IN /\ episodes' = IF full THEN episodes \o buffered ELSE episodes
     /\ metadata_buffer' = IF full THEN <<>> ELSE buffered
     /\ meta_writer' = (meta_writer \/ full)

SaveMetadata ==
  /\ saving = "metadata"
  /\ BufferMetadata
  /\ info' = [episodes |-> info.episodes + 1,
              frames |-> info.frames + Len(episode_buffer.frames)]
  /\ episode_buffer' = EmptyBuffer(info.episodes + 1)
  /\ saving' = "idle"
  /\ log' = Append(log, episode_buffer.frames)
  /\ UNCHANGED <<has_video, data, meta_torn, file, data_writer, status, session, clock, safe,
                 orphaned, unclean>>

-----------------------------------------------------------------------------
(* clear_episode_buffer and finalize. *)

ClearEpisodeBuffer ==
  /\ Ready
  /\ episode_buffer' = EmptyBuffer(info.episodes)
  /\ UNCHANGED <<has_video, disk, memory, saving, status, session, clock, history>>

ClosedFiles == [f \in DOMAIN data |-> IF f = file /\ data_writer
                                        THEN [data[f] EXCEPT !.closed = TRUE] ELSE data[f]]

Finalize ==
  /\ Ready
  /\ data' = ClosedFiles
  /\ data_writer' = FALSE
  /\ episodes' = AllEpisodes
  /\ metadata_buffer' = <<>>
  /\ meta_writer' = FALSE
  /\ status' = "finalized"
  /\ safe' = Len(log)
  /\ UNCHANGED <<has_video, info, meta_torn, file, episode_buffer, saving, session, clock, log,
                 orphaned, unclean>>

-----------------------------------------------------------------------------
(* The process dies: open files keep no footer, and buffered metadata is    *)
(* lost.  In a save that writes the metadata out it may die between that    *)
(* and info.json.                                                           *)
Flushing == saving = "metadata" /\ Len(metadata_buffer) + 1 >= MetadataBufferSize

Crash ==
  /\ status = "recording"
  /\ status' = "dead"
  /\ meta_torn' \in {meta_torn \/ meta_writer, meta_torn \/ meta_writer \/ Flushing}
  /\ file' = 0
  /\ data_writer' = FALSE
  /\ meta_writer' = FALSE
  /\ metadata_buffer' = <<>>
  /\ episode_buffer' = EmptyBuffer(0)
  /\ saving' = "idle"
  /\ log' = SubSeq(log, 1, Len(episodes))
  /\ unclean' = (unclean \/ Len(log) > safe)
  /\ UNCHANGED <<has_video, data, episodes, info, session, clock, safe, orphaned>>

(* LeRobotDataset.resume: the metadata must load.                           *)
Resume ==
  /\ status # "recording"
  /\ session < MaxSessions
  /\ ~meta_torn
  /\ episodes # <<>>
  /\ status' = "recording"
  /\ session' = session + 1
  /\ file' = 0
  /\ episode_buffer' = EmptyBuffer(info.episodes)
  /\ UNCHANGED <<has_video, disk, data_writer, meta_writer, metadata_buffer, saving, clock,
                 history>>

-----------------------------------------------------------------------------
Next ==
  \/ AddFrame \/ AddFrameFails
  \/ SaveRaises \/ SaveData \/ SaveVideos \/ SaveVideosFails \/ SaveMetadata
  \/ ClearEpisodeBuffer \/ Finalize
  \/ Crash \/ Resume

Spec == WriterInit /\ [][Next]_writerVars

-----------------------------------------------------------------------------
(* What a reader of the disk finds. *)

(* Every file has its footer: load_nested_dataset opens them all.           *)
Readable == /\ ~meta_torn /\ ~meta_writer
            /\ \A f \in DOMAIN data : data[f].closed

Rows == FlattenSeq([f \in DOMAIN data |-> data[f].rows])

(* The frames of an episode, which a reader finds by position.              *)
Frames(e) == LET rows == SubSeq(Rows, e.from + 1, e.to)
             IN [i \in DOMAIN rows |-> rows[i].frame]

Stored == [i \in DOMAIN AllEpisodes |-> Frames(AllEpisodes[i])]

(* A readable dataset holds the episodes that were saved, frame by frame,   *)
(* crashes and resumed sessions included, unless a save failed after it     *)
(* wrote rows: these shift every later episode.                             *)
ReadBack ==
  Readable /\ ~orphaned => [i \in DOMAIN episodes |-> Frames(episodes[i])] = log

(* info.json and the "index" column agree with the files, as long as no     *)
(* process died with episodes that were not finalised and no save failed    *)
(* half-way.                                                                *)
CountsAgree ==
  Readable /\ ~orphaned /\ ~unclean =>
    /\ info = [episodes |-> Len(episodes), frames |-> Len(Rows)]
    /\ \A i \in DOMAIN Rows : Rows[i].index = i - 1

(* Rows, metadata and info.json tell a reader of the disk the same story.   *)
DiskAgrees == WriterTypeOK /\ ReadBack /\ CountsAgree

(* Does not hold: the counts after a crash.  il_robots.mdx:375 says "If an issue occurs [...] *)
(* you can resume by re-running the same command".                          *)
ResumedCountsAgree ==
  status = "finalized" /\ Readable /\ ~orphaned => info.episodes = Len(episodes)

(* What the metadata says, whatever failed before: it has a row for each    *)
(* episode saved, the rows lie one after the other, and those of finished   *)
(* sessions are on disk.                                                    *)
Tiled(eps, saved) ==
  \A i \in 1..Len(eps) :
    /\ eps[i].from = (IF i = 1 THEN 0 ELSE eps[i - 1].to)
    /\ eps[i].to = eps[i].from + Len(saved[i])

Bookkeeping ==
  /\ Len(log) = Len(AllEpisodes)
  /\ Tiled(AllEpisodes, log)
  /\ safe <= Len(episodes)
  /\ ~unclean => info = [episodes |-> Len(AllEpisodes), frames |-> LatestTo(AllEpisodes)]
  /\ metadata_buffer # <<>> => status = "recording"
  /\ saving # "idle" => status = "recording"

(* A crash never takes an episode of a finished session, and no step        *)
(* changes one.                                                             *)
FinishedSurvives ==
  [][/\ safe' >= safe
     /\ Len(log') >= safe
     /\ \A i \in 1..safe : log'[i] = log[i]]_writerVars

(* The writer implements the log of episodes: what the metadata and the     *)
(* rows decode to is the log, an episode is appended as a whole, and a      *)
(* crash never takes an episode of a finished session.                      *)
Log == INSTANCE EpisodeLog WITH
         Frame <- 1..MaxFrames,
         log <- IF orphaned THEN log ELSE Stored,
         current <- IF episode_buffer.keys = "popped" /\ saving = "idle"
                      THEN <<>> ELSE episode_buffer.frames
ImplementsLog == Log!Spec
=============================================================================
