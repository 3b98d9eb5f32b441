----------------------------- MODULE CameraReader -----------------------------
(***************************************************************************)
(* A camera and its background reader thread                               *)
(* (cameras/opencv/camera_opencv.py; the RealSense and ZMQ cameras have the *)
(* same thread and the same three ways to read).                           *)
(*                                                                         *)
(* The reader stores each frame under frame_lock and sets new_frame_event  *)
(* after the lock is released.  One caller connects, reads and disconnects; *)
(* disconnect waits for the thread at most two seconds, so a thread blocked *)
(* in the driver may outlive its connection.                               *)
(***************************************************************************)
EXTENDS Naturals, FiniteSets

CONSTANTS
    MaxFailures,    \* failures in a row a reader tolerates, less one (10 in the code)
    MaxConnects,    \* bound: connections made
    MaxFrames       \* bound: frames the devices deliver in all

ASSUME CameraAssumption ==
    /\ MaxFailures \in Nat
    /\ MaxConnects \in Nat
    /\ MaxFrames \in Nat

VARIABLES
    thread,     \* self.thread: the number of the connection that started it, 0 for None
    device,     \* self.videocapture: the connection that opened it, 0 for None
    stopped,    \* the threads whose stop_event is set
    reader,     \* per thread: its pc, failure_count, the device it reads, its frame
    latest,     \* self.latest_frame
    event,      \* self.new_frame_event
    caller,     \* where the caller is, and which call it is in
    connects,   \* connections made so far
    captured,   \* frames delivered so far
    outlived,   \* history: the threads that outlived their join
    out,        \* history: the last frame a call of this connection returned
    times,      \* history: how often async_read returned that last taken frame
    taken,      \* history: the last frame async_read returned
    since       \* history: the frames captured when the running read() cleared the event

vars == <<thread, device, stopped, reader, latest, event, caller, connects,
          captured, outlived, out, times, taken, since>>

History == <<outlived, out, times, taken, since>>

Threads == 1..MaxConnects

\* A frame: the device and the thread that read it, and its place in the order of capture.
Frames == [device : Threads, by : Threads, number : 1..MaxFrames]

NoFrame == [number |-> 0]

Steps == {"new", "check", "grab", "blocked", "store", "announce", "dead"}

Alive(t) == t # 0 /\ reader[t].pc # "dead"

Init ==
    /\ thread = 0
    /\ device = 0
    /\ stopped = {}
    /\ reader = [t \in Threads |->
                    [pc |-> "new", failures |-> 0, device |-> 0, frame |-> NoFrame]]
    /\ latest = NoFrame
    /\ event = FALSE
    /\ caller = [pc |-> "idle", call |-> "none"]
    /\ connects = 0
    /\ captured = 0
    /\ outlived = {}
    /\ out = NoFrame
    /\ times = 0
    /\ taken = NoFrame
    /\ since = 0

-----------------------------------------------------------------------------
(***************************************************************************)
(* _read_loop                                                              *)
(***************************************************************************)
Reads(t) == UNCHANGED <<thread, device, stopped, caller, connects, History>>

\* while not stop_event.is_set()
Check(t) ==
    /\ reader[t].pc = "check"
    /\ reader' = [reader EXCEPT ![t].pc = IF t \in stopped THEN "dead" ELSE "grab"]
    /\ UNCHANGED <<latest, event, captured>>
    /\ Reads(t)

\* _read_from_hardware takes self.videocapture, whichever connection opened it:
\* none is DeviceNotConnectedError, which ends the loop.
Grab(t) ==
    /\ reader[t].pc = "grab"
    /\ reader' = [reader EXCEPT ![t] =
                    IF device = 0 THEN [@ EXCEPT !.pc = "dead"]
                                  ELSE [@ EXCEPT !.pc = "blocked", !.device = device]]
    /\ UNCHANGED <<latest, event, captured>>
    /\ Reads(t)

\* A mutant: the event is set before the frame is stored.
CapturesAnnouncing(t) ==
    /\ reader[t].pc = "blocked"
    /\ captured < MaxFrames
    /\ captured' = captured + 1
    /\ event' = TRUE
    /\ reader' = [reader EXCEPT ![t].pc = "store",
                                ![t].frame = [device |-> reader[t].device, by |-> t,
                                              number |-> captured + 1]]
    /\ UNCHANGED latest
    /\ Reads(t)

\* The driver delivers a frame.
Captures(t) ==
    /\ reader[t].pc = "blocked"
    /\ captured < MaxFrames
    /\ captured' = captured + 1
    /\ reader' = [reader EXCEPT ![t].pc = "store",
                                ![t].frame = [device |-> reader[t].device, by |-> t,
                                              number |-> captured + 1]]
    /\ UNCHANGED <<latest, event>>
    /\ Reads(t)

\* The read or the shape check fails: the loop goes on, until one failure too many
\* in a row kills the thread.
CaptureFails(t) ==
    /\ reader[t].pc = "blocked"
    /\ reader' = [reader EXCEPT ![t] =
                    IF @.failures <= MaxFailures
                      THEN [@ EXCEPT !.pc = "check", !.failures = reader[t].failures + 1]
                      ELSE [@ EXCEPT !.pc = "dead"]]
    /\ UNCHANGED <<latest, event, captured>>
    /\ Reads(t)

\* with self.frame_lock
Store(t) ==
    /\ reader[t].pc = "store"
    /\ latest' = reader[t].frame
    /\ reader' = [reader EXCEPT ![t].pc = "announce"]
    /\ UNCHANGED <<event, captured>>
    /\ Reads(t)

\* new_frame_event.set(), outside the lock
Announce(t) ==
    /\ reader[t].pc = "announce"
    /\ event' = TRUE
    /\ reader' = [reader EXCEPT ![t] = [@ EXCEPT !.pc = "check", !.failures = 0,
                                                !.frame = NoFrame, !.device = 0]]
    /\ UNCHANGED <<latest, captured>>
    /\ Reads(t)

ReadLoop(t) ==
    \/ Check(t) \/ Grab(t) \/ Captures(t) \/ CaptureFails(t) \/ Store(t) \/ Announce(t)

-----------------------------------------------------------------------------
(***************************************************************************)
(* The caller                                                              *)
(***************************************************************************)
Idle == caller.pc = "idle"

GoTo(step) == caller' = [caller EXCEPT !.pc = step]

Return == caller' = [pc |-> "idle", call |-> "none"]

\* with self.frame_lock: no frame, no timestamp, no event
Clear == event' = FALSE /\ latest' = NoFrame

\* connect: the device opens, _start_read_thread starts a thread of its own stop_event,
\* and the warm-up is a first async_read.  A camera that is connected refuses.
Connect ==
    /\ Idle
    /\ device = 0
    /\ thread = 0
    /\ connects < MaxConnects
    /\ connects' = connects + 1
    /\ device' = connects + 1
    /\ thread' = connects + 1
    /\ reader' = [reader EXCEPT ![connects + 1].pc = "check"]
    /\ Clear
    /\ caller' = [pc |-> "wait", call |-> "warmup"]
    /\ out' = NoFrame /\ taken' = NoFrame /\ times' = 0
    /\ UNCHANGED <<stopped, captured, outlived, since>>

Calls == UNCHANGED <<thread, device, stopped, reader, connects, captured, outlived>>

\* async_read: raises at once when the thread is dead, else waits for the event.
AsyncRead ==
    /\ Idle /\ device # 0 /\ Alive(thread)
    /\ caller' = [pc |-> "wait", call |-> "async_read"]
    /\ UNCHANGED <<latest, event, out, times, taken, since>>
    /\ Calls

\* read(): clears the event, without the lock, then is an async_read of ten seconds
\* (which checks the thread once more).
Read ==
    /\ Idle /\ device # 0 /\ Alive(thread)
    /\ event' = FALSE
    /\ since' = captured
    /\ caller' = [pc |-> "wait", call |-> "read"]
    /\ UNCHANGED <<latest, out, times, taken>>
    /\ Calls

\* new_frame_event.wait(timeout) returns True
Woken ==
    /\ caller.pc = "wait"
    /\ event
    /\ GoTo("take")
    /\ UNCHANGED <<latest, event, out, times, taken, since>>
    /\ Calls

\* ... or False: TimeoutError.  Out of a warm-up it leaves connect and a camera that is
\* connected with its thread running.
TimesOut ==
    /\ caller.pc = "wait"
    /\ ~event \/ (caller.call = "read" /\ ~Alive(thread))
    /\ Return
    /\ since' = 0
    /\ UNCHANGED <<latest, event, out, times, taken>>
    /\ Calls

\* What a call that took a frame leaves in the history.
Taken ==
    /\ out' = latest
    /\ taken' = latest
    /\ times' = IF latest = taken THEN times + 1 ELSE 1

\* A mutant: the event stays set.
TakeKeeping ==
    /\ caller.pc = "take"
    /\ Return
    /\ Taken
    /\ times' < 5
    /\ since' = 0
    /\ UNCHANGED <<latest, event>>
    /\ Calls

\* with self.frame_lock: the frame is taken and the event cleared.
\* No frame is an internal error.
Take ==
    /\ caller.pc = "take"
    /\ Return
    /\ event' = FALSE
    /\ IF latest = NoFrame THEN UNCHANGED <<out, times, taken>> ELSE Taken
    /\ since' = 0
    /\ UNCHANGED latest
    /\ Calls

\* read_latest: the stored frame, unless there is none or it is too old.
ReadLatest ==
    /\ Idle /\ device # 0 /\ Alive(thread)
    /\ latest # NoFrame
    /\ out' = latest
    /\ UNCHANGED <<caller, latest, event, times, taken, since>>
    /\ Calls

-----------------------------------------------------------------------------
(***************************************************************************)
(* disconnect and _stop_read_thread                                        *)
(***************************************************************************)
Disconnects == UNCHANGED <<reader, connects, captured, out, times, taken, since>>

Disconnect ==
    /\ Idle
    /\ device # 0 \/ thread # 0
    /\ stopped' = stopped \union {thread}
    /\ caller' = [pc |-> "join", call |-> "disconnect"]
    /\ UNCHANGED <<thread, device, latest, event, outlived>>
    /\ Disconnects

\* A mutant: the thread is forgotten without a join.
JoinedUnwaited ==
    /\ caller.pc = "join"
    /\ thread' = 0
    /\ Clear
    /\ GoTo("release")
    /\ UNCHANGED <<device, stopped, outlived>>
    /\ Disconnects

\* thread.join returns with the thread dead
Joined ==
    /\ caller.pc = "join"
    /\ ~Alive(thread)
    /\ thread' = 0
    /\ Clear
    /\ GoTo("release")
    /\ UNCHANGED <<device, stopped, outlived>>
    /\ Disconnects

\* A mutant: the join has no time-out.
JoinNeverTimesOut ==
    /\ caller.pc = "join"
    /\ FALSE
    /\ UNCHANGED vars

\* ... or after two seconds: the thread is forgotten while it runs.
JoinTimesOut ==
    /\ caller.pc = "join"
    /\ Alive(thread)
    /\ outlived' = outlived \union {thread}
    /\ thread' = 0
    /\ Clear
    /\ GoTo("release")
    /\ UNCHANGED <<device, stopped>>
    /\ Disconnects

\* videocapture.release()
Release ==
    /\ caller.pc = "release"
    /\ device' = 0
    /\ GoTo("clear")
    /\ UNCHANGED <<thread, stopped, latest, event, outlived>>
    /\ Disconnects

Disconnected ==
    /\ caller.pc = "clear"
    /\ Clear
    /\ Return
    /\ UNCHANGED <<thread, device, stopped, outlived>>
    /\ Disconnects

Call == Connect \/ AsyncRead \/ Read \/ Woken \/ TimesOut \/ Take \/ ReadLatest

Stopping == Joined \/ JoinTimesOut \/ Release \/ Disconnected

Next == (\E t \in Threads : ReadLoop(t)) \/ Call \/ Disconnect \/ Stopping

Spec == Init /\ [][Next]_vars

\* A call that waits times out, disconnect runs on, and the reader's own steps are taken.
\* Nothing makes the driver answer: Captures and CaptureFails have no fairness.
FairSpec ==
    /\ Spec
    /\ WF_vars(Woken \/ TimesOut \/ Take)
    /\ WF_vars(Stopping)
    /\ \A t \in Threads : WF_vars(Check(t) \/ Grab(t) \/ Store(t) \/ Announce(t))

-----------------------------------------------------------------------------
TypeOK ==
    /\ thread \in 0..MaxConnects
    /\ device \in 0..MaxConnects
    /\ stopped \subseteq Threads
    /\ \A t \in Threads :
         /\ reader[t].pc \in Steps
         /\ reader[t].failures \in 0..(MaxFailures + 1)
         /\ reader[t].device \in 0..MaxConnects
         /\ reader[t].frame \in Frames \union {NoFrame}
    /\ latest \in Frames \union {NoFrame}
    /\ event \in BOOLEAN
    /\ caller.pc \in {"idle", "wait", "take", "join", "release", "clear"}
    /\ connects \in 0..MaxConnects
    /\ captured \in 0..MaxFrames
    /\ outlived \subseteq stopped

\* A call returns a frame of the connection it was made on.  The only other frame it can
\* return is one that a thread which outlived its join still had in hand
\* (_stop_read_thread gives up after two seconds and clears the frame only once).
OwnFrames == out # NoFrame => out.device = connects \/ out.by \in outlived

\* The event is set only over a stored frame, so "Internal error: Event set but no frame
\* available" needs a thread that outlived its join.
EventMeansFrame == event /\ outlived = {} => latest # NoFrame

\* async_read returns a frame at most twice: the event is set after the lock is released,
\* so a frame taken in between is announced once more.  Each thread that outlived its join
\* can announce it once more.
AtMostTwice == times <= 2 + Cardinality(outlived)

\* The frame that read() returns is never older than the newest frame the camera had
\* delivered when the call cleared the event; it may be that one, which the thread was
\* still storing, and so older than the call.
ReadsNewest ==
    caller.pc = "take" /\ caller.call = "read" /\ outlived = {} => latest.number >= since

\* Within a connection the frames returned, by whichever call, never go back, unless
\* a thread that outlived its join stored one of them.
NeverBack ==
    [][out # NoFrame /\ out' # NoFrame /\ outlived = {} => out'.number >= out.number]_vars

\* disconnect ends even when the driver never returns from a read.
DisconnectEnds == caller.pc = "join" ~> Idle

\* What is published, and what the event says of it.
PublishedSound == TypeOK /\ OwnFrames /\ EventMeansFrame

\* What the blocking calls return: a frame that is new enough, and not for ever the same.
ReturnedFresh == AtMostTwice /\ ReadsNewest
=============================================================================
