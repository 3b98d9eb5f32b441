-------------------------- MODULE CameraReaderProofs --------------------------
(***************************************************************************)
(* What the camera's calls return, proved for any number of connections,   *)
(* frames and failures.                                                    *)
(*                                                                         *)
(* A frame a call returns was stored by the reader thread of its connection, *)
(* or by a thread that outlived an earlier join: CameraInv says which thread *)
(* may still be running, which frame it holds, and what the frame and the  *)
(* event that it leaves behind say of it.                                  *)
(***************************************************************************)
EXTENDS CameraReader, FiniteSetTheorems, TLAPS

CallNames == {"none", "warmup", "async_read", "read", "disconnect"}

CallerSteps == {"idle", "wait", "take", "join", "release", "clear"}

Readers == [pc : Steps, failures : 0..(MaxFailures + 1), device : 0..MaxConnects,
            frame : Frames \union {NoFrame}]

(* The types; event is apart, for the provers' sake.                        *)
CameraTypes ==
  /\ thread \in 0..MaxConnects /\ device \in 0..MaxConnects /\ connects \in 0..MaxConnects
  /\ stopped \subseteq Threads /\ outlived \subseteq stopped
  /\ reader \in [Threads -> Readers]
  /\ latest \in Frames \union {NoFrame}
  /\ out \in Frames \union {NoFrame}
  /\ taken \in Frames \union {NoFrame}
  /\ caller \in [pc : CallerSteps, call : CallNames]
  /\ captured \in 0..MaxFrames /\ since \in 0..MaxFrames /\ times \in Nat

EventType == event \in BOOLEAN

(* The camera's thread and device belong to the last connection, and the    *)
(* caller's place says which of them there are.                             *)
Connected ==
  /\ thread \in {0, connects} /\ device \in {0, connects}
  /\ caller.pc = "idle" => thread = device
  /\ caller.pc \in {"wait", "take", "join"} =>
       thread = connects /\ device = connects /\ connects # 0
  /\ caller.pc \in {"release", "clear"} => thread = 0
  /\ caller.pc = "clear" => device = 0
  /\ caller.pc = "join" => thread \in stopped
  /\ caller.call = "read" => caller.pc \in {"wait", "take"}

(* A thread that runs is the camera's or outlived its join.  The camera's   *)
(* own reads the device of the last connection.                             *)
Running ==
  \A t \in Threads :
    /\ reader[t].pc = "new" <=> t > connects
    /\ reader[t].pc \notin {"new", "dead"} => t = thread \/ t \in outlived
    /\ reader[t].pc \in {"blocked", "store", "announce"} =>
         reader[t].device # 0 /\ (t = thread => reader[t].device = connects)
    /\ reader[t].pc \in {"store", "announce"} =>
         /\ reader[t].frame \in Frames
         /\ reader[t].frame.by = t
         /\ reader[t].frame.number <= captured
         /\ t = thread => reader[t].frame.device = connects

(* Where the frames come from; a frame about to be stored is a new one.     *)
Stored ==
  /\ latest.number <= captured /\ out.number <= captured /\ taken.number <= captured
  /\ latest # NoFrame => latest.device = connects \/ latest.by \in outlived
  /\ OwnFrames
  /\ \A t \in Threads : reader[t].pc = "store" => reader[t].frame \notin {latest, taken}

(* While no thread has outlived its join, the one that runs holds the last  *)
(* frame captured, and announces the one that is stored.                    *)
Alone ==
  outlived = {} =>
    /\ event => latest # NoFrame
    /\ \A t \in Threads :
         /\ reader[t].pc = "announce" => latest = reader[t].frame
         /\ reader[t].pc \in {"store", "announce"} => reader[t].frame.number = captured
    /\ out # NoFrame /\ latest # NoFrame => latest.number >= out.number
    /\ event /\ caller.call = "read" => latest.number >= since

Announcing == {t \in Threads : reader[t].pc = "announce"}

(* How often the frame that is stored can still be returned: once for the   *)
(* event, and once for every thread that is to announce a frame.            *)
Counted ==
  /\ caller.pc = "take" => event
  /\ since <= captured
  /\ AtMostTwice
  /\ latest = taken /\ latest # NoFrame =>
       /\ event => times + 1 + Cardinality(Announcing) <= 2 + Cardinality(outlived)
       /\ times + Cardinality(Announcing) <= 2 + Cardinality(outlived)

CameraInv ==
  CameraTypes /\ EventType /\ Connected /\ Running /\ Stored /\ Alone /\ Counted

-----------------------------------------------------------------------------
(* The steps of the reader's loop, by what they do to the state.            *)

LEMMA FrameFacts ==
  /\ \A f \in Frames : /\ f.device \in Threads /\ f.by \in Threads
                       /\ f.number \in 1..MaxFrames /\ f # NoFrame
  /\ NoFrame.number = 0 /\ NoFrame \notin Frames
  /\ \A f \in Frames \union {NoFrame} : f.number \in 0..MaxFrames /\ (f # NoFrame => f \in Frames)
<1>1. ASSUME NEW f \in Frames
      PROVE  f.device \in Threads /\ f.by \in Threads /\ f.number \in 1..MaxFrames
  BY DEF Frames
<1>2. NoFrame.number = 0
  BY DEF NoFrame
<1>3. MaxFrames \in Nat
  BY CameraAssumption
<1>4. \A f \in Frames : f.number # NoFrame.number
  BY <1>1, <1>2, <1>3
<1>5. QED
  BY <1>1, <1>2, <1>3, <1>4

(* It goes round the loop with no frame in hand.                            *)
Looks(t) ==
  /\ reader[t].pc \in {"check", "grab", "blocked"}
  /\ reader'[t].pc \in {"check", "grab", "blocked", "dead"}
  /\ reader'[t].pc = "blocked" => reader'[t].device = device /\ device # 0
  /\ UNCHANGED <<latest, event, captured>>

Holds(t) ==
  /\ reader[t].pc = "blocked" /\ reader'[t].pc = "store"
  /\ captured' = captured + 1
  /\ reader'[t].device = reader[t].device
  /\ reader'[t].frame = [device |-> reader[t].device, by |-> t, number |-> captured + 1]
  /\ UNCHANGED <<latest, event>>

Stores(t) ==
  /\ reader[t].pc = "store" /\ reader'[t].pc = "announce"
  /\ latest' = reader[t].frame
  /\ reader'[t].device = reader[t].device /\ reader'[t].frame = reader[t].frame
  /\ UNCHANGED <<event, captured>>

Tells(t) ==
  /\ reader[t].pc = "announce" /\ reader'[t].pc = "check"
  /\ event' = TRUE
  /\ UNCHANGED <<latest, captured>>

(* One thread changes its pc, and no more.                                  *)
LEMMA MovesPc ==
  ASSUME reader \in [Threads -> Readers], NEW t \in Threads, NEW p \in Steps,
         reader' = [reader EXCEPT ![t].pc = p]
  PROVE  /\ reader' \in [Threads -> Readers]
         /\ \A u \in Threads : u # t => reader'[u] = reader[u]
         /\ reader'[t].pc = p /\ reader'[t].device = reader[t].device
         /\ reader'[t].frame = reader[t].frame
<1> DEFINE r == [reader[t] EXCEPT !.pc = p]
<1>1. reader[t] \in Readers
  OBVIOUS
<1>2. /\ r \in Readers /\ r.pc = p /\ r.device = reader[t].device /\ r.frame = reader[t].frame
  BY <1>1 DEF Readers
<1>3. reader' = [reader EXCEPT ![t] = r]
  OBVIOUS
<1> HIDE DEF r
<1>4. QED
  BY <1>2, <1>3

LEMMA ReaderSteps ==
  ASSUME CameraTypes, Running, NEW t \in Threads, ReadLoop(t)
  PROVE  /\ Reads(t)
         /\ reader' \in [Threads -> Readers]
         /\ captured' \in 0..MaxFrames
         /\ \A u \in Threads : u # t => reader'[u] = reader[u]
         /\ Looks(t) \/ Holds(t) \/ Stores(t) \/ Tells(t)
<1>1. /\ reader \in [Threads -> Readers] /\ reader[t] \in Readers
      /\ captured \in 0..MaxFrames /\ device \in 0..MaxConnects
      /\ MaxFrames \in Nat /\ MaxConnects \in Nat /\ MaxFailures \in Nat
  BY CameraAssumption DEF CameraTypes
<1>2. Reads(t)
  BY DEF ReadLoop, Check, Grab, Captures, CaptureFails, Store, Announce
<1>3. CASE Check(t)
  BY <1>1, <1>2, <1>3 DEF Check, Looks, Readers, Steps
<1>4. CASE Grab(t)
  BY <1>1, <1>2, <1>4 DEF Grab, Looks, Readers, Steps
<1>5. CASE Captures(t)
  <2> DEFINE f == [device |-> reader[t].device, by |-> t, number |-> captured + 1]
  <2>1. reader[t].device \in Threads
    BY <1>1, <1>5 DEF Captures, Running, Readers, Threads
  <2>2. f \in Frames
    BY <1>1, <1>5, <2>1 DEF Captures, Frames
  <2>3. /\ reader' = [reader EXCEPT ![t].pc = "store", ![t].frame = f]
        /\ captured' = captured + 1 /\ captured < MaxFrames /\ reader[t].pc = "blocked"
        /\ UNCHANGED <<latest, event>>
    BY <1>5 DEF Captures
  <2> HIDE DEF f
  <2>4. /\ reader' \in [Threads -> Readers] /\ captured' \in 0..MaxFrames
        /\ \A u \in Threads : u # t => reader'[u] = reader[u]
        /\ reader'[t].pc = "store" /\ reader'[t].frame = f
        /\ reader'[t].device = reader[t].device
    <3> DEFINE r == [reader[t] EXCEPT !.pc = "store", !.frame = f]
    <3>1. reader' = [reader EXCEPT ![t] = r]
      BY <2>3
    <3>2. /\ r \in Readers /\ r.pc = "store" /\ r.frame = f /\ r.device = reader[t].device
      BY <1>1, <2>2 DEF Readers, Steps
    <3> HIDE DEF r
    <3>3. captured' \in 0..MaxFrames
      BY <1>1, <2>3
    <3>4. QED
      BY <1>1, <3>1, <3>2, <3>3
  <2>5. QED
    BY <1>2, <2>3, <2>4 DEF Holds, f
<1>6. CASE CaptureFails(t)
  <2>1. /\ reader[t].pc = "blocked" /\ UNCHANGED <<latest, event, captured>>
        /\ reader' = [reader EXCEPT ![t] =
                        IF @.failures <= MaxFailures
                          THEN [@ EXCEPT !.pc = "check", !.failures = reader[t].failures + 1]
                          ELSE [@ EXCEPT !.pc = "dead"]]
    BY <1>6 DEF CaptureFails
  <2> DEFINE v == IF reader[t].failures <= MaxFailures
                     THEN [reader[t] EXCEPT !.pc = "check", !.failures = reader[t].failures + 1]
                     ELSE [reader[t] EXCEPT !.pc = "dead"]
  <2>2. v \in Readers /\ v.pc \in {"check", "dead"}
    <3>1. CASE reader[t].failures <= MaxFailures
      <4>1. v = [reader[t] EXCEPT !.pc = "check", !.failures = reader[t].failures + 1]
        BY <3>1
      <4>2. reader[t].failures + 1 \in 0..(MaxFailures + 1)
        BY <1>1, <3>1 DEF Readers
      <4> HIDE DEF v
      <4>3. QED
        BY <1>1, <4>1, <4>2 DEF Readers, Steps
    <3>2. CASE ~(reader[t].failures <= MaxFailures)
      <4>1. v = [reader[t] EXCEPT !.pc = "dead"]
        BY <3>2
      <4> HIDE DEF v
      <4>2. QED
        BY <1>1, <4>1 DEF Readers, Steps
    <3>3. QED
      BY <3>1, <3>2
  <2>3. /\ reader'[t] = v /\ DOMAIN reader' = Threads
        /\ \A u \in Threads : u # t => reader'[u] = reader[u]
    BY <1>1, <2>1
  <2> HIDE DEF v
  <2>4. QED
    BY <1>1, <1>2, <2>1, <2>2, <2>3 DEF Looks
<1>7. CASE Store(t)
  <2>1. /\ reader[t].pc = "store" /\ latest' = reader[t].frame
        /\ reader' = [reader EXCEPT ![t].pc = "announce"] /\ UNCHANGED <<event, captured>>
    BY <1>7 DEF Store
  <2>2. QED
    <3>1. "announce" \in Steps
      BY DEF Steps
    <3>2. /\ reader' \in [Threads -> Readers]
          /\ \A u \in Threads : u # t => reader'[u] = reader[u]
          /\ reader'[t].pc = "announce" /\ reader'[t].device = reader[t].device
          /\ reader'[t].frame = reader[t].frame
      BY <1>1, <2>1, <3>1, MovesPc
    <3>3. QED
      BY <1>1, <1>2, <2>1, <3>2 DEF Stores
<1>8. CASE Announce(t)
  <2> DEFINE r == [reader[t] EXCEPT !.pc = "check", !.failures = 0, !.frame = NoFrame,
                                    !.device = 0]
  <2>1. /\ reader[t].pc = "announce" /\ event' = TRUE /\ UNCHANGED <<latest, captured>>
        /\ reader'[t] = r /\ DOMAIN reader' = Threads
        /\ \A u \in Threads : u # t => reader'[u] = reader[u]
        /\ reader' = [u \in Threads |-> reader'[u]]
    BY <1>1, <1>8 DEF Announce
  <2>2. r \in Readers /\ r.pc = "check"
    <3>1. /\ 0 \in 0..(MaxFailures + 1) /\ 0 \in 0..MaxConnects
          /\ NoFrame \in Frames \union {NoFrame} /\ "check" \in Steps
      BY <1>1 DEF Steps
    <3>2. ASSUME NEW s \in Readers
          PROVE  [s EXCEPT !.pc = "check", !.failures = 0, !.frame = NoFrame, !.device = 0]
                   \in Readers
      BY <3>1 DEF Readers
    <3>3. r.pc = "check"
      BY <1>1 DEF Readers
    <3>4. QED
      BY <1>1, <3>2, <3>3
  <2> HIDE DEF r
  <2>3. QED
    BY <1>1, <1>2, <2>1, <2>2 DEF Tells
<1>9. QED
  BY <1>3, <1>4, <1>5, <1>6, <1>7, <1>8 DEF ReadLoop

(* What the caller's steps leave alone.                                     *)
LEMMA ConnectStep ==
  ASSUME CameraTypes, Running, Connect
  PROVE  /\ caller.pc = "idle" /\ device = 0 /\ thread = 0
         /\ connects' = connects + 1 /\ connects' \in Threads
         /\ device' = connects' /\ thread' = connects'
         /\ reader' \in [Threads -> Readers]
         /\ \A u \in Threads : u # connects' => reader'[u] = reader[u]
         /\ reader'[connects'].pc = "check"
         /\ caller' \in [pc : CallerSteps, call : CallNames]
         /\ caller'.pc = "wait" /\ caller'.call = "warmup"
         /\ latest' = NoFrame /\ event' = FALSE
         /\ out' = NoFrame /\ taken' = NoFrame /\ times' = 0
         /\ UNCHANGED <<stopped, captured, outlived, since>>
<1>1. /\ reader \in [Threads -> Readers] /\ connects \in 0..MaxConnects /\ MaxConnects \in Nat
  BY CameraAssumption DEF CameraTypes
<1>2. connects + 1 \in Threads /\ connects' = connects + 1
  BY <1>1 DEF Connect, Threads
<1>3. reader' = [reader EXCEPT ![connects + 1].pc = "check"]
  BY DEF Connect
<1>4. /\ reader' \in [Threads -> Readers]
      /\ \A u \in Threads : u # connects' => reader'[u] = reader[u]
      /\ reader'[connects'].pc = "check"
  BY <1>1, <1>2, <1>3 DEF Readers, Steps
<1>5. QED
  BY <1>2, <1>4 DEF Connect, Clear, Idle, CallerSteps, CallNames

LEMMA CallerMoves ==
  ASSUME CameraTypes
  PROVE  /\ \A s \in CallerSteps : GoTo(s) =>
              /\ caller' \in [pc : CallerSteps, call : CallNames]
              /\ caller'.pc = s /\ caller'.call = caller.call
         /\ Return => /\ caller' \in [pc : CallerSteps, call : CallNames]
                      /\ caller'.pc = "idle" /\ caller'.call = "none"
<1>1. caller \in [pc : CallerSteps, call : CallNames]
  BY DEF CameraTypes
<1>2. ASSUME NEW s \in CallerSteps, GoTo(s)
      PROVE  /\ caller' \in [pc : CallerSteps, call : CallNames]
             /\ caller'.pc = s /\ caller'.call = caller.call
  BY <1>1, <1>2 DEF GoTo
<1>3. ASSUME Return
      PROVE  /\ caller' \in [pc : CallerSteps, call : CallNames]
             /\ caller'.pc = "idle" /\ caller'.call = "none"
  BY <1>3 DEF Return, CallerSteps, CallNames
<1>4. QED
  BY <1>2, <1>3

-----------------------------------------------------------------------------
(* Each part of the invariant is kept.                                      *)

LEMMA TypesKept ==
  ASSUME CameraTypes, EventType, Connected, Running, [Next]_vars
  PROVE  CameraTypes' /\ EventType'
<1> USE DEF CameraTypes, EventType
<1>1. /\ MaxConnects \in Nat /\ MaxFrames \in Nat /\ captured \in 0..MaxFrames
      /\ 0 \in 0..MaxFrames /\ 0 \in 0..MaxConnects
      /\ NoFrame \in Frames \union {NoFrame}
  BY CameraAssumption
<1>2. ASSUME NEW t \in Threads, ReadLoop(t)
      PROVE  CameraTypes' /\ EventType'
  <2>1. /\ Reads(t) /\ reader' \in [Threads -> Readers] /\ captured' \in 0..MaxFrames
        /\ Looks(t) \/ Holds(t) \/ Stores(t) \/ Tells(t)
    BY <1>2, ReaderSteps
  <2>2. latest' \in Frames \union {NoFrame}
    <3>1. reader[t] \in Readers
      OBVIOUS
    <3>2. reader[t].frame \in Frames \union {NoFrame}
      BY <3>1 DEF Readers
    <3>3. QED
      BY <2>1, <3>2 DEF Looks, Holds, Stores, Tells
  <2>3. event' \in BOOLEAN
    <3>1. event' = event \/ event' = TRUE
      BY <2>1 DEF Looks, Holds, Stores, Tells
    <3>2. QED
      BY <3>1
  <2>4. QED
    BY <2>1, <2>2, <2>3 DEF Reads, History
<1>3. CASE Connect
  <2>1. /\ connects' \in Threads /\ device' = connects' /\ thread' = connects'
        /\ reader' \in [Threads -> Readers] /\ caller' \in [pc : CallerSteps, call : CallNames]
        /\ latest' = NoFrame /\ out' = NoFrame /\ taken' = NoFrame /\ times' = 0
        /\ UNCHANGED <<stopped, captured, outlived, since>>
    BY <1>3, ConnectStep
  <2>2. event' \in BOOLEAN
    BY <1>3, ConnectStep
  <2>3. connects' \in 0..MaxConnects
    BY <1>1, <2>1 DEF Threads
  <2>4. QED
    BY <1>1, <2>1, <2>2, <2>3
<1>4. CASE AsyncRead \/ Read \/ Woken \/ TimesOut \/ ReadLatest
  <2>1. /\ Calls /\ UNCHANGED <<latest, times, taken>>
        /\ out' \in {out, latest}
        /\ since' \in {since, captured, 0}
    BY <1>4 DEF AsyncRead, Read, Woken, TimesOut, ReadLatest
  <2>2. event' = event \/ event' = FALSE
    BY <1>4 DEF AsyncRead, Read, Woken, TimesOut, ReadLatest
  <2>3. caller' \in [pc : CallerSteps, call : CallNames]
    <3>1. CASE AsyncRead \/ Read \/ ReadLatest
      BY <3>1 DEF AsyncRead, Read, ReadLatest, CallerSteps, CallNames
    <3>2. CASE Woken \/ TimesOut
      BY <3>2, CallerMoves DEF Woken, TimesOut, CallerSteps
    <3>3. QED
      BY <1>4, <3>1, <3>2
  <2>4. event' \in BOOLEAN
    BY <2>2
  <2>5. QED
    BY <1>1, <2>1, <2>3, <2>4 DEF Calls
<1>5. CASE Take
  <2>1. /\ Calls /\ UNCHANGED latest /\ since' = 0 /\ Return /\ event' = FALSE
        /\ \/ UNCHANGED <<out, times, taken>>
           \/ out' = latest /\ taken' = latest /\ times' \in {times + 1, 1}
    BY <1>5 DEF Take, Taken
  <2>2. caller' \in [pc : CallerSteps, call : CallNames]
    BY <2>1, CallerMoves
  <2>3. event' \in BOOLEAN
    BY <2>1
  <2>4. times + 1 \in Nat /\ 1 \in Nat
    OBVIOUS
  <2>5. QED
    BY <1>1, <2>1, <2>2, <2>3, <2>4 DEF Calls
<1>6. CASE Disconnect
  <2>1. thread \in Threads
    BY <1>1, <1>6 DEF Disconnect, Idle, Connected, Threads
  <2>2. caller' \in [pc : CallerSteps, call : CallNames]
    BY <1>6 DEF Disconnect, CallerSteps, CallNames
  <2>3. /\ stopped' = stopped \union {thread}
        /\ UNCHANGED <<thread, device, latest, event, outlived, reader, connects, captured, out,
                       times, taken, since>>
    BY <1>6 DEF Disconnect, Disconnects
  <2>4. QED
    BY <2>1, <2>2, <2>3
<1>7. CASE Stopping
  <2>1. /\ caller' \in [pc : CallerSteps, call : CallNames]
    BY <1>7, CallerMoves DEF Stopping, Joined, JoinTimesOut, Release, Disconnected, CallerSteps
  <2>2. /\ UNCHANGED <<reader, connects, captured, out, times, taken, since, stopped>>
        /\ thread' \in {thread, 0} /\ device' \in {device, 0} /\ latest' \in {latest, NoFrame}
        /\ outlived' = outlived \/ (outlived' = outlived \union {thread} /\ caller.pc = "join")
    BY <1>7 DEF Stopping, Joined, JoinTimesOut, Release, Disconnected, Disconnects, Clear
  <2>3. outlived' \subseteq stopped
    BY <2>2 DEF Connected
  <2>4. event' = event \/ event' = FALSE
    BY <1>7 DEF Stopping, Joined, JoinTimesOut, Release, Disconnected, Clear
  <2>5. event' \in BOOLEAN
    BY <2>4
  <2>6. QED
    BY <1>1, <2>1, <2>2, <2>3, <2>5
<1>8. CASE UNCHANGED vars
  BY <1>8 DEF vars
<1>9. QED
  BY <1>2, <1>3, <1>4, <1>5, <1>6, <1>7, <1>8 DEF Next, Call

LEMMA ConnectedKept ==
  ASSUME CameraTypes, Connected, Running, [Next]_vars
  PROVE  Connected'
<1> USE DEF Connected
<1>1. ASSUME NEW t \in Threads, ReadLoop(t)
      PROVE  Connected'
  BY <1>1, ReaderSteps DEF Reads
<1>2. CASE Connect
  <2>1. connects \in Nat
    BY CameraAssumption DEF CameraTypes
  <2>2. QED
    BY <1>2, <2>1, ConnectStep
<1>3. CASE AsyncRead \/ Read \/ Woken \/ TimesOut \/ Take \/ ReadLatest
  <2>1. Calls
    BY <1>3 DEF AsyncRead, Read, Woken, TimesOut, Take, ReadLatest
  <2>2. CASE AsyncRead \/ Read
    BY <2>1, <2>2 DEF AsyncRead, Read, Idle, Calls
  <2>3. CASE Woken
    <3>1. caller.pc = "wait" /\ caller'.pc = "take" /\ caller'.call = caller.call
      BY <2>3, CallerMoves DEF Woken, CallerSteps
    <3>2. QED
      BY <2>1, <3>1 DEF Calls
  <2>4. CASE TimesOut \/ Take
    <3>1. caller.pc \in {"wait", "take"} /\ caller'.pc = "idle" /\ caller'.call = "none"
      BY <2>4, CallerMoves DEF TimesOut, Take
    <3>2. QED
      BY <2>1, <3>1 DEF Calls
  <2>5. CASE ReadLatest
    BY <2>1, <2>5 DEF ReadLatest, Calls
  <2>6. QED
    BY <1>3, <2>2, <2>3, <2>4, <2>5
<1>4. CASE Disconnect
  <2>1. /\ caller.pc = "idle" /\ (device # 0 \/ thread # 0) /\ stopped' = stopped \union {thread}
        /\ caller' = [pc |-> "join", call |-> "disconnect"]
        /\ UNCHANGED <<thread, device, connects>>
    BY <1>4 DEF Disconnect, Disconnects, Idle
  <2>2. QED
    BY <2>1
<1>5. CASE Joined \/ JoinTimesOut
  <2>1. /\ caller.pc = "join" /\ caller'.pc = "release" /\ caller'.call = caller.call
        /\ thread' = 0 /\ UNCHANGED <<device, connects, stopped>>
    BY <1>5, CallerMoves DEF Joined, JoinTimesOut, Disconnects, CallerSteps
  <2>2. QED
    BY <2>1
<1>6. CASE Release
  <2>1. /\ caller.pc = "release" /\ caller'.pc = "clear" /\ caller'.call = caller.call
        /\ device' = 0 /\ UNCHANGED <<thread, connects, stopped>>
    BY <1>6, CallerMoves DEF Release, Disconnects, CallerSteps
  <2>2. QED
    BY <2>1
<1>7. CASE Disconnected
  <2>1. /\ caller.pc = "clear" /\ caller'.pc = "idle" /\ caller'.call = "none"
        /\ UNCHANGED <<thread, device, connects, stopped>>
    BY <1>7, CallerMoves DEF Disconnected, Disconnects
  <2>2. QED
    BY <2>1
<1>8. CASE UNCHANGED vars
  BY <1>8 DEF vars
<1>9. QED
  BY <1>1, <1>2, <1>3, <1>4, <1>5, <1>6, <1>7, <1>8 DEF Next, Call, Stopping

LEMMA RunningKept ==
  ASSUME CameraTypes, Connected, Running, [Next]_vars
  PROVE  Running'
<1>1. /\ connects \in 0..MaxConnects /\ captured \in 0..MaxFrames
      /\ MaxConnects \in Nat /\ MaxFrames \in Nat
      /\ reader \in [Threads -> Readers] /\ thread \in {0, connects} /\ device \in {0, connects}
      /\ thread # 0 /\ device # 0 => device = connects
      /\ \A t \in Threads : t \in Nat /\ t # 0
  BY CameraAssumption DEF CameraTypes, Connected, Threads
<1>2. ASSUME NEW t \in Threads, ReadLoop(t)
      PROVE  Running'
  <2>1. /\ UNCHANGED <<thread, device, connects, outlived>>
        /\ \A u \in Threads : u # t => reader'[u] = reader[u]
        /\ captured' \in 0..MaxFrames /\ reader' \in [Threads -> Readers]
        /\ Looks(t) \/ Holds(t) \/ Stores(t) \/ Tells(t)
    BY <1>2, ReaderSteps DEF Reads, History
  <2>2. captured' \in Nat /\ captured \in Nat /\ captured' >= captured
    BY <1>1, <2>1 DEF Looks, Holds, Stores, Tells
  <2>3. SUFFICES ASSUME NEW u \in Threads
                 PROVE  /\ reader'[u].pc = "new" <=> u > connects
                        /\ reader'[u].pc \notin {"new", "dead"} => u = thread \/ u \in outlived
                        /\ reader'[u].pc \in {"blocked", "store", "announce"} =>
                             /\ reader'[u].device # 0
                             /\ u = thread => reader'[u].device = connects
                        /\ reader'[u].pc \in {"store", "announce"} =>
                             /\ reader'[u].frame \in Frames
                             /\ reader'[u].frame.by = u
                             /\ reader'[u].frame.number <= captured'
                             /\ u = thread => reader'[u].frame.device = connects
    BY <2>1 DEF Running
  <2>4. CASE u # t
    <3>1. reader'[u] = reader[u]
      BY <2>1, <2>4
    <3>2. reader[u].pc \in {"store", "announce"} =>
            reader[u].frame \in Frames /\ reader[u].frame.number <= captured
      BY DEF Running
    <3>3. reader[u].frame \in Frames => reader[u].frame.number \in Nat
      BY <1>1, FrameFacts
    <3>4. reader[u].pc \in {"store", "announce"} => reader[u].frame.number <= captured'
      BY <2>2, <3>2, <3>3
    <3>5. QED
      BY <3>1, <3>4 DEF Running
  <2>5. CASE u = t
    <3>1. CASE Looks(t)
      BY <1>1, <2>5, <3>1 DEF Looks, Running
    <3>2. CASE Holds(t)
      <4>1. reader[t].device \in 1..MaxConnects
        BY <1>1, <3>2 DEF Holds, Running, Readers
      <4>2. reader'[t].frame \in Frames
        <5>1. captured + 1 \in 1..MaxFrames
          BY <1>1, <2>1, <3>2 DEF Holds
        <5>2. QED
          BY <3>2, <4>1, <5>1 DEF Holds, Frames, Threads
      <4>3. /\ reader'[t].frame.by = t /\ reader'[t].frame.number = captured'
            /\ reader'[t].frame.device = reader[t].device
        BY <3>2 DEF Holds
      <4>4. captured' <= captured'
        BY <2>2
      <4>5. QED
        BY <2>5, <3>2, <4>1, <4>2, <4>3, <4>4 DEF Holds, Running
    <3>3. CASE Stores(t)
      BY <2>5, <3>3 DEF Stores, Running
    <3>4. CASE Tells(t)
      BY <2>5, <3>4 DEF Tells, Running
    <3>5. QED
      BY <2>1, <3>1, <3>2, <3>3, <3>4
  <2>6. QED
    BY <2>4, <2>5
<1>3. CASE Connect
  <2>1. /\ thread = 0 /\ connects' = connects + 1 /\ connects' \in Threads /\ thread' = connects'
        /\ \A u \in Threads : u # connects' => reader'[u] = reader[u]
        /\ reader'[connects'].pc = "check"
        /\ UNCHANGED <<captured, outlived>>
    BY <1>3, ConnectStep
  <2>2. ASSUME NEW u \in Threads, u # connects'
        PROVE  u > connects <=> u > connects'
    <3>1. u \in Nat /\ connects \in Nat
      BY <1>1
    <3>2. QED
      BY <2>1, <2>2, <3>1
  <2>3. ~(connects' > connects')
    BY <1>1, <2>1
  <2>4. \A u \in Threads : u # thread
    BY <1>1, <2>1
  <2>5. \A u \in Threads : u # connects' =>
          /\ reader'[u].pc = "new" <=> u > connects'
          /\ reader'[u].pc \notin {"new", "dead"} => u \in outlived'
          /\ reader'[u].pc \in {"blocked", "store", "announce"} => reader'[u].device # 0
          /\ reader'[u].pc \in {"store", "announce"} =>
               /\ reader'[u].frame \in Frames
               /\ reader'[u].frame.by = u
               /\ reader'[u].frame.number <= captured'
    BY <2>1, <2>2, <2>4 DEF Running
  <2>6. QED
    BY <2>1, <2>3, <2>5 DEF Running
<1>4. CASE \/ AsyncRead \/ Read \/ Woken \/ TimesOut \/ Take \/ ReadLatest
           \/ Disconnect \/ Release \/ Disconnected \/ UNCHANGED vars
  <2>1. UNCHANGED <<thread, outlived, reader, connects, captured>>
    BY <1>4 DEF AsyncRead, Read, Woken, TimesOut, Take, ReadLatest, Calls, Disconnect, Release,
         Disconnected, Disconnects, vars
  <2>2. QED
    BY <2>1 DEF Running
<1>5. CASE Joined \/ JoinTimesOut
  <2>1. /\ thread' = 0 /\ UNCHANGED <<reader, connects, captured>>
        /\ \/ outlived' = outlived \union {thread}
           \/ outlived' = outlived /\ ~Alive(thread)
    BY <1>5 DEF Joined, JoinTimesOut, Disconnects
  <2>2. \A u \in Threads : reader[u].pc \notin {"new", "dead"} => u \in outlived'
    BY <1>1, <2>1 DEF Running, Alive
  <2>3. \A u \in Threads : u # thread'
    BY <1>1, <2>1
  <2>4. QED
    BY <2>1, <2>2, <2>3 DEF Running
<1>6. QED
  BY <1>2, <1>3, <1>4, <1>5 DEF Next, Call, Stopping

LEMMA StoredKept ==
  ASSUME CameraTypes, Connected, Running, Stored, [Next]_vars
  PROVE  Stored'
<1> USE DEF Stored, OwnFrames
<1>1. /\ connects \in Nat /\ captured \in Nat /\ NoFrame.number = 0 /\ NoFrame \notin Frames
      /\ latest.number \in Nat /\ out.number \in Nat /\ taken.number \in Nat
      /\ \A t \in Threads : t # 0
      /\ \A f \in Frames : f.number \in Nat
  BY FrameFacts, CameraAssumption DEF CameraTypes, Threads
<1>2. ASSUME NEW t \in Threads, ReadLoop(t)
      PROVE  Stored'
  <2>1. /\ UNCHANGED <<out, taken, connects, outlived>>
        /\ \A u \in Threads : u # t => reader'[u] = reader[u]
        /\ Looks(t) \/ Holds(t) \/ Stores(t) \/ Tells(t)
    BY <1>2, ReaderSteps DEF Reads, History
  <2>2. CASE Looks(t) \/ Tells(t)
    <3>1. /\ UNCHANGED <<latest, captured>>
          /\ reader'[t].pc # "store"
      BY <2>2 DEF Looks, Tells
    <3>2. \A u \in Threads : reader'[u].pc = "store" => reader'[u] = reader[u]
      BY <2>1, <3>1
    <3>3. QED
      BY <2>1, <3>1, <3>2
  <2>3. CASE Holds(t)
    <3>1. UNCHANGED latest /\ captured' = captured + 1 /\ reader'[t].frame.number = captured + 1
      BY <2>3 DEF Holds
    <3>2. reader'[t].frame \notin {latest, taken}
      BY <1>1, <3>1
    <3>3. /\ latest'.number <= captured' /\ out'.number <= captured' /\ taken'.number <= captured'
      BY <1>1, <2>1, <3>1
    <3>4. \A u \in Threads : reader'[u].pc = "store" => reader'[u].frame \notin {latest, taken}
      BY <2>1, <3>2
    <3>5. QED
      BY <2>1, <3>1, <3>3, <3>4
  <2>4. CASE Stores(t)
    <3>1. /\ reader[t].pc = "store" /\ reader'[t].pc = "announce" /\ UNCHANGED captured
          /\ latest' = reader[t].frame
      BY <2>4 DEF Stores
    <3>2. /\ latest' \in Frames /\ latest'.by = t /\ latest'.number <= captured
          /\ latest'.device = connects \/ t \in outlived
      BY <3>1 DEF Running
    <3>3. ASSUME NEW u \in Threads, reader'[u].pc = "store"
          PROVE  reader'[u].frame \notin {latest', taken'}
      <4>1. u # t /\ reader'[u] = reader[u]
        BY <2>1, <3>1, <3>3
      <4>2. reader[u].frame.by = u
        BY <3>3, <4>1 DEF Running
      <4>3. QED
        BY <2>1, <3>2, <3>3, <4>1, <4>2
    <3>4. QED
      BY <2>1, <3>1, <3>2, <3>3
  <2>5. QED
    BY <2>1, <2>2, <2>3, <2>4
<1>3. CASE Connect
  <2>1. /\ connects' \in Threads
        /\ \A u \in Threads : u # connects' => reader'[u] = reader[u]
        /\ reader'[connects'].pc = "check"
        /\ latest' = NoFrame /\ out' = NoFrame /\ taken' = NoFrame /\ UNCHANGED captured
    BY <1>3, ConnectStep
  <2>2. ASSUME NEW u \in Threads, reader'[u].pc = "store"
        PROVE  reader'[u].frame # NoFrame
    <3>1. reader'[u] = reader[u]
      BY <2>1, <2>2
    <3>2. reader[u].frame \in Frames
      BY <2>2, <3>1 DEF Running
    <3>3. QED
      BY <1>1, <3>1, <3>2
  <2>3. QED
    BY <1>1, <2>1, <2>2
<1>4. CASE AsyncRead \/ Read \/ Woken \/ TimesOut \/ Take \/ ReadLatest \/ Disconnect
  <2>1. /\ UNCHANGED <<latest, reader, connects, captured, outlived>>
        /\ out' \in {out, latest} /\ taken' \in {taken, latest}
    BY <1>4 DEF AsyncRead, Read, Woken, TimesOut, Take, Taken, ReadLatest, Calls, Disconnect,
         Disconnects
  <2>2. QED
    BY <2>1
<1>5. CASE Stopping
  <2>1. /\ UNCHANGED <<reader, connects, captured, out, taken>>
        /\ latest' \in {latest, NoFrame} /\ outlived \subseteq outlived'
    BY <1>5 DEF Stopping, Joined, JoinTimesOut, Release, Disconnected, Disconnects, Clear
  <2>2. \A t \in Threads : reader[t].pc = "store" => reader[t].frame # NoFrame
    BY <1>1 DEF Running
  <2>3. QED
    BY <1>1, <2>1, <2>2
<1>6. CASE UNCHANGED vars
  BY <1>6 DEF vars
<1>7. QED
  BY <1>2, <1>3, <1>4, <1>5, <1>6 DEF Next, Call

LEMMA AloneKept ==
  ASSUME CameraTypes, Connected, Running, Stored, Alone, Counted, [Next]_vars
  PROVE  Alone'
<1>1. SUFFICES ASSUME outlived' = {}
               PROVE  /\ event' => latest' # NoFrame
                      /\ \A t \in Threads :
                           /\ reader'[t].pc = "announce" => latest' = reader'[t].frame
                           /\ reader'[t].pc \in {"store", "announce"} =>
                                reader'[t].frame.number = captured'
                      /\ out' # NoFrame /\ latest' # NoFrame => latest'.number >= out'.number
                      /\ event' /\ caller'.call = "read" => latest'.number >= since'
  BY DEF Alone
<1>2. outlived = {}
  <2>1. outlived \subseteq outlived'
    <3>1. ASSUME NEW t \in Threads, ReadLoop(t)
          PROVE  outlived' = outlived
      BY <3>1, ReaderSteps DEF Reads, History
    <3>2. CASE Connect
      BY <3>2, ConnectStep
    <3>3. CASE AsyncRead \/ Read \/ Woken \/ TimesOut \/ Take \/ ReadLatest \/ Disconnect
      BY <3>3 DEF AsyncRead, Read, Woken, TimesOut, Take, ReadLatest, Calls, Disconnect
    <3>4. CASE Stopping \/ UNCHANGED vars
      BY <3>4 DEF Stopping, Joined, JoinTimesOut, Release, Disconnected, vars
    <3>5. QED
      BY <3>1, <3>2, <3>3, <3>4 DEF Next, Call
  <2>2. QED
    BY <1>1, <2>1
<1>3. /\ event => latest # NoFrame
      /\ \A t \in Threads :
           /\ reader[t].pc = "announce" => latest = reader[t].frame
           /\ reader[t].pc \in {"store", "announce"} => reader[t].frame.number = captured
      /\ out # NoFrame /\ latest # NoFrame => latest.number >= out.number
      /\ event /\ caller.call = "read" => latest.number >= since
  BY <1>2 DEF Alone
<1>4. /\ captured \in Nat /\ since \in Nat /\ since <= captured /\ out.number <= captured
      /\ latest.number \in Nat /\ out.number \in Nat /\ NoFrame \notin Frames
      /\ thread \in {0, connects} /\ connects \in Nat
      /\ \A t \in Threads : t # 0
  BY FrameFacts, CameraAssumption DEF CameraTypes, Stored, Counted, Connected, Threads
(* Only the camera's thread has a frame in hand.                            *)
<1>5. \A t \in Threads : reader[t].pc \notin {"new", "dead"} => t = thread
  BY <1>2 DEF Running
<1>6. \A t \in Threads : reader[t].pc \in {"store", "announce"} => reader[t].frame # NoFrame
  BY <1>4 DEF Running
<1>7. ASSUME NEW t \in Threads, ReadLoop(t)
      PROVE  /\ event' => latest' # NoFrame
             /\ \A u \in Threads :
                  /\ reader'[u].pc = "announce" => latest' = reader'[u].frame
                  /\ reader'[u].pc \in {"store", "announce"} =>
                       reader'[u].frame.number = captured'
             /\ out' # NoFrame /\ latest' # NoFrame => latest'.number >= out'.number
             /\ event' /\ caller'.call = "read" => latest'.number >= since'
  <2>1. /\ UNCHANGED <<out, caller, since>>
        /\ \A u \in Threads : u # t => reader'[u] = reader[u]
        /\ Looks(t) \/ Holds(t) \/ Stores(t) \/ Tells(t)
    BY <1>7, ReaderSteps DEF Reads, History
  <2>2. reader[t].pc \notin {"new", "dead"} /\ t = thread
    BY <1>5, <2>1 DEF Looks, Holds, Stores, Tells
  <2>3. \A u \in Threads : u # t => reader'[u].pc \notin {"store", "announce"}
    BY <1>5, <2>1, <2>2
  <2>4. CASE Looks(t)
    BY <1>3, <2>1, <2>3, <2>4 DEF Looks
  <2>5. CASE Holds(t)
    BY <1>3, <2>1, <2>3, <2>5 DEF Holds
  <2>6. CASE Stores(t)
    <3>1. /\ latest' = reader[t].frame /\ latest'.number = captured /\ latest' # NoFrame
          /\ UNCHANGED <<event, captured>>
      BY <1>3, <1>6, <2>6 DEF Stores
    <3>2. QED
      BY <1>3, <1>4, <2>1, <2>3, <2>6, <3>1 DEF Stores
  <2>7. CASE Tells(t)
    <3>1. /\ latest = reader[t].frame /\ latest.number = captured /\ latest # NoFrame
          /\ UNCHANGED <<latest, captured>>
      BY <1>3, <1>6, <2>7 DEF Tells
    <3>2. QED
      BY <1>3, <1>4, <2>1, <2>3, <2>7, <3>1 DEF Tells
  <2>8. QED
    BY <2>1, <2>4, <2>5, <2>6, <2>7
<1>8. CASE Connect
  <2>1. /\ thread = 0 /\ connects' \in Threads /\ caller'.call = "warmup"
        /\ \A u \in Threads : u # connects' => reader'[u] = reader[u]
        /\ reader'[connects'].pc = "check"
        /\ latest' = NoFrame /\ event' = FALSE /\ out' = NoFrame
    BY <1>8, ConnectStep
  <2>2. \A u \in Threads : reader'[u].pc \notin {"store", "announce"}
    BY <1>4, <1>5, <2>1
  <2>3. QED
    BY <2>1, <2>2
<1>9. CASE AsyncRead \/ Woken \/ TimesOut \/ ReadLatest \/ Disconnect
  <2>1. /\ UNCHANGED <<event, latest, reader, captured>>
        /\ out' \in {out, latest}
    BY <1>9 DEF AsyncRead, Woken, TimesOut, ReadLatest, Calls, Disconnect, Disconnects
  <2>2. caller'.call = "read" => caller.call = "read" /\ since' = since
    <3>1. CASE AsyncRead \/ ReadLatest \/ Disconnect
      BY <3>1 DEF AsyncRead, ReadLatest, Disconnect, Disconnects
    <3>2. CASE Woken \/ TimesOut
      BY <3>2, CallerMoves DEF Woken, TimesOut, CallerSteps
    <3>3. QED
      BY <1>9, <3>1, <3>2
  <2>3. out' # NoFrame /\ latest' # NoFrame => latest'.number >= out'.number
    BY <1>3, <1>4, <2>1
  <2>4. QED
    BY <1>3, <2>1, <2>2, <2>3
<1>10. CASE Read
  <2>1. event' = FALSE /\ UNCHANGED <<latest, out, reader, captured>>
    BY <1>10 DEF Read, Calls
  <2>2. QED
    BY <1>3, <2>1
<1>11. CASE Take
  <2>1. event' = FALSE /\ UNCHANGED <<latest, reader, captured>> /\ out' \in {out, latest}
    BY <1>11 DEF Take, Taken, Calls
  <2>2. out' # NoFrame /\ latest' # NoFrame => latest'.number >= out'.number
    BY <1>3, <1>4, <2>1
  <2>3. QED
    BY <1>3, <2>1, <2>2
<1>12. CASE Joined \/ Disconnected
  <2>1. event' = FALSE /\ latest' = NoFrame /\ UNCHANGED reader
    BY <1>12 DEF Joined, Disconnected, Clear, Disconnects
  <2>2. thread = 0 \/ (thread \in Threads /\ reader[thread].pc = "dead") \/ thread \notin Threads
    BY <1>12 DEF Joined, Disconnected, Alive, Connected
  <2>3. \A u \in Threads : reader'[u].pc \notin {"store", "announce"}
    BY <1>4, <1>5, <2>1, <2>2
  <2>4. QED
    BY <2>1, <2>3
<1>13. CASE JoinTimesOut
  BY <1>1, <1>13 DEF JoinTimesOut
<1>14. CASE Release
  <2>1. /\ UNCHANGED <<event, latest, out, reader, captured, since>>
        /\ caller'.call = caller.call
    BY <1>14, CallerMoves DEF Release, Disconnects, CallerSteps
  <2>2. QED
    BY <1>3, <2>1
<1>15. CASE UNCHANGED vars
  BY <1>3, <1>15 DEF vars
<1>16. QED
  BY <1>7, <1>8, <1>9, <1>10, <1>11, <1>12, <1>13, <1>14, <1>15 DEF Next, Call, Stopping

(* At most the camera's thread and those that outlived theirs announce.     *)
LEMMA AnnouncingBound ==
  ASSUME CameraTypes, Running
  PROVE  /\ IsFiniteSet(Announcing) /\ IsFiniteSet(Threads) /\ IsFiniteSet(outlived)
         /\ Cardinality(Announcing) \in Nat /\ Cardinality(outlived) \in Nat
         /\ Cardinality(Announcing) <= 1 + Cardinality(outlived)
<1>1. IsFiniteSet(Threads)
  BY CameraAssumption, FS_Interval DEF Threads
<1>2. Announcing \subseteq Threads /\ outlived \subseteq Threads
  BY DEF Announcing, CameraTypes
<1>3. IsFiniteSet(Announcing) /\ IsFiniteSet(outlived)
  BY <1>1, <1>2, FS_Subset
<1>4. /\ Cardinality(Announcing) \in Nat /\ Cardinality(outlived) \in Nat
      /\ Cardinality(outlived \union {thread}) \in Nat
      /\ IsFiniteSet(outlived \union {thread})
      /\ Cardinality(outlived \union {thread}) <= 1 + Cardinality(outlived)
  <2>1. Cardinality(Announcing) \in Nat /\ Cardinality(outlived) \in Nat
    BY <1>3, FS_CardinalityType
  <2>2. /\ IsFiniteSet(outlived \union {thread})
        /\ \/ Cardinality(outlived \union {thread}) = Cardinality(outlived)
           \/ Cardinality(outlived \union {thread}) = Cardinality(outlived) + 1
    BY <1>3, FS_AddElement
  <2>3. QED
    BY <2>1, <2>2
<1>5. Announcing \subseteq outlived \union {thread}
  BY DEF Announcing, Running
<1>6. Cardinality(Announcing) <= Cardinality(outlived \union {thread})
  BY <1>4, <1>5, FS_Subset
<1>7. QED
  BY <1>1, <1>3, <1>4, <1>6

LEMMA CountedKept ==
  ASSUME CameraTypes, EventType, Connected, Running, Stored, Counted, [Next]_vars
  PROVE  Counted'
<1> DEFINE n == Cardinality(Announcing)
           c == Cardinality(outlived)
<1>1. /\ IsFiniteSet(Announcing) /\ IsFiniteSet(outlived) /\ n \in Nat /\ c \in Nat /\ n <= 1 + c
  BY AnnouncingBound
<1>2. times \in Nat /\ captured \in Nat /\ since \in Nat
  BY DEF CameraTypes
<1>3. /\ caller.pc = "take" => event
      /\ since <= captured
      /\ times <= 2 + c
      /\ latest = taken /\ latest # NoFrame => (event => times + 1 + n <= 2 + c) /\ times + n <= 2 + c
  BY DEF Counted, AtMostTwice
<1>4. Counted' <=>
        /\ caller'.pc = "take" => event'
        /\ since' <= captured'
        /\ times' <= 2 + c'
        /\ latest' = taken' /\ latest' # NoFrame =>
             (event' => times' + 1 + n' <= 2 + c') /\ times' + n' <= 2 + c'
  BY DEF Counted, AtMostTwice
<1>5. reader' = reader => Announcing' = Announcing
  BY DEF Announcing
<1>6. ASSUME NEW t \in Threads, ReadLoop(t)
      PROVE  Counted'
  <2>1. /\ UNCHANGED <<caller, outlived, taken, times, since>>
        /\ \A u \in Threads : u # t => reader'[u] = reader[u]
        /\ Looks(t) \/ Holds(t) \/ Stores(t) \/ Tells(t)
    BY <1>6, ReaderSteps DEF Reads, History
  <2>2. c' = c
    BY <2>1
  <2>3. CASE Looks(t) \/ Holds(t)
    <3>1. Announcing' = Announcing
      BY <2>1, <2>3 DEF Announcing, Looks, Holds
    <3>2. UNCHANGED <<latest, event>> /\ captured' \in Nat /\ captured' >= captured
      BY <1>2, <2>3 DEF Looks, Holds
    <3>3. n' = n
      BY <3>1
    <3>4. since <= captured'
      BY <1>2, <1>3, <3>2
    <3>5. QED
      BY <1>3, <1>4, <2>1, <2>2, <3>2, <3>3, <3>4
  <2>4. CASE Stores(t)
    <3>1. latest' # taken' /\ UNCHANGED <<event, captured>>
      BY <2>1, <2>4 DEF Stores, Stored
    <3>2. QED
      BY <1>3, <1>4, <2>1, <2>2, <3>1
  <2>5. CASE Tells(t)
    <3>1. Announcing' = Announcing \ {t} /\ t \in Announcing
      BY <2>1, <2>5 DEF Announcing, Tells
    <3>2. n' = n - 1
      BY <1>1, <3>1, FS_RemoveElement
    <3>3. event' = TRUE /\ UNCHANGED <<latest, captured>>
      BY <2>5 DEF Tells
    <3>4. latest' = taken' /\ latest' # NoFrame => times' + 1 + n' <= 2 + c' /\ times' + n' <= 2 + c'
      <4>1. latest = taken /\ latest # NoFrame => times + n <= 2 + c
        BY <1>3
      <4>2. times' = times
        BY <2>1
      <4>3. times + n <= 2 + c => times + 1 + (n - 1) <= 2 + c /\ times + (n - 1) <= 2 + c
        BY <1>1, <1>2
      <4>4. QED
        BY <2>1, <2>2, <3>2, <3>3, <4>1, <4>2, <4>3
    <3> HIDE DEF n, c
    <3>5. QED
      BY <1>3, <1>4, <2>1, <2>2, <3>3, <3>4
  <2>6. QED
    BY <2>1, <2>3, <2>4, <2>5
<1>7. CASE Connect
  <2>1. /\ caller'.pc = "wait" /\ latest' = NoFrame /\ times' = 0
        /\ UNCHANGED <<captured, outlived, since>>
    BY <1>7, ConnectStep
  <2>2. 0 <= 2 + c' /\ c' = c
    BY <1>1, <2>1
  <2>3. QED
    BY <1>3, <1>4, <2>1, <2>2
<1>8. CASE AsyncRead \/ Woken \/ TimesOut \/ ReadLatest \/ Disconnect \/ Release
  <2>1. /\ UNCHANGED <<event, latest, reader, captured, outlived, taken, times>>
        /\ since' \in {since, 0}
    BY <1>8 DEF AsyncRead, Woken, TimesOut, ReadLatest, Calls, Disconnect, Disconnects, Release
  <2>2. caller'.pc = "take" => event
    <3>1. CASE Woken
      BY <3>1 DEF Woken
    <3>2. CASE AsyncRead \/ Disconnect
      BY <3>2 DEF AsyncRead, Disconnect
    <3>3. CASE TimesOut \/ Release
      BY <3>3, CallerMoves DEF TimesOut, Release, CallerSteps
    <3>4. CASE ReadLatest
      BY <1>3, <3>4 DEF ReadLatest
    <3>5. QED
      BY <1>8, <3>1, <3>2, <3>3, <3>4
  <2>3. c' = c /\ n' = n
    BY <1>5, <2>1
  <2>4. since' <= captured'
    BY <1>2, <1>3, <2>1
  <2> HIDE DEF n, c
  <2>5. QED
    BY <1>3, <1>4, <2>1, <2>2, <2>3, <2>4
<1>9. CASE Read
  <2>1. /\ UNCHANGED <<latest, reader, captured, outlived, taken, times>>
        /\ since' = captured /\ event' = FALSE /\ caller'.pc = "wait"
    BY <1>9 DEF Read, Calls
  <2>2. c' = c /\ n' = n
    BY <1>5, <2>1
  <2>3. since' <= captured'
    BY <1>2, <2>1
  <2> HIDE DEF n, c
  <2>4. QED
    BY <1>3, <1>4, <2>1, <2>2, <2>3
<1>10. CASE Take
  <2>1. /\ caller.pc = "take" /\ caller'.pc = "idle" /\ event' = FALSE /\ since' = 0
        /\ UNCHANGED <<latest, reader, captured, outlived>>
        /\ \/ latest = NoFrame /\ UNCHANGED <<taken, times>>
           \/ latest # NoFrame /\ taken' = latest /\ latest = taken /\ times' = times + 1
           \/ latest # NoFrame /\ taken' = latest /\ latest # taken /\ times' = 1
    BY <1>10, CallerMoves DEF Take, Taken, Calls
  <2>2. c' = c /\ n' = n
    BY <1>5, <2>1
  <2>3. event
    BY <1>3, <2>1
  <2>4. 0 <= captured
    BY <1>2
  <2> HIDE DEF n, c
  <2>5. CASE latest = NoFrame /\ UNCHANGED <<taken, times>>
    BY <1>3, <1>4, <2>1, <2>2, <2>4, <2>5
  <2>6. CASE latest # NoFrame /\ taken' = latest /\ latest = taken /\ times' = times + 1
    <3>1. times + 1 + n <= 2 + c
      BY <1>3, <2>3, <2>6
    <3>2. times + 1 <= 2 + c
      BY <1>1, <1>2, <3>1
    <3>3. QED
      BY <1>4, <2>1, <2>2, <2>4, <2>6, <3>1, <3>2
  <2>7. CASE latest # NoFrame /\ taken' = latest /\ latest # taken /\ times' = 1
    <3>1. 1 + n <= 2 + c /\ 1 <= 2 + c
      BY <1>1
    <3>2. QED
      BY <1>4, <2>1, <2>2, <2>4, <2>7, <3>1
  <2>8. QED
    BY <2>1, <2>5, <2>6, <2>7
<1>11. CASE Joined \/ JoinTimesOut \/ Disconnected
  <2>1. /\ latest' = NoFrame /\ caller'.pc # "take"
        /\ UNCHANGED <<captured, times, since>>
        /\ outlived' = outlived \/ outlived' = outlived \union {thread}
    BY <1>11, CallerMoves DEF Joined, JoinTimesOut, Disconnected, Disconnects, Clear, CallerSteps
  <2>2. c' \in Nat /\ c <= c'
    <3>1. CASE outlived' = outlived
      <4>1. c' = c
        BY <3>1
      <4>2. QED
        BY <1>1, <4>1
    <3>2. CASE outlived' = outlived \union {thread}
      <4>1. c' = c \/ c' = c + 1
        BY <1>1, <3>2, FS_AddElement
      <4> HIDE DEF c
      <4>2. QED
        BY <1>1, <4>1
    <3>3. QED
      BY <2>1, <3>1, <3>2
  <2> HIDE DEF n, c
  <2>3. times <= 2 + c'
    <3>1. times <= 2 + c
      BY <1>3
    <3>2. times \in Nat /\ c \in Nat /\ c' \in Nat /\ c <= c'
      BY <1>1, <1>2, <2>2
    <3>3. \A x, y, z \in Nat : x <= 2 + y /\ y <= z => x <= 2 + z
      OBVIOUS
    <3>4. QED
      BY <3>1, <3>2, <3>3, Zenon
  <2>4. QED
    BY <1>3, <1>4, <2>1, <2>3
<1>12. CASE UNCHANGED vars
  <2>1. UNCHANGED <<event, latest, reader, captured, outlived, taken, times, since, caller>>
    BY <1>12 DEF vars, History
  <2>2. c' = c /\ n' = n
    BY <1>5, <2>1
  <2> HIDE DEF n, c
  <2>3. QED
    BY <1>3, <1>4, <2>1, <2>2
<1>13. QED
  BY <1>6, <1>7, <1>8, <1>9, <1>10, <1>11, <1>12 DEF Next, Call, Stopping

-----------------------------------------------------------------------------
LEMMA CameraInvHolds == Spec => []CameraInv
<1>1. Init => CameraInv
  <2> SUFFICES ASSUME Init
               PROVE  CameraInv
    OBVIOUS
  <2> USE DEF Init
  <2>1. MaxConnects \in Nat /\ MaxFrames \in Nat /\ MaxFailures \in Nat /\ NoFrame.number = 0
    BY CameraAssumption, FrameFacts
  <2>2. reader \in [Threads -> Readers]
    <3>1. [pc |-> "new", failures |-> 0, device |-> 0, frame |-> NoFrame] \in Readers
      BY <2>1 DEF Readers, Steps
    <3>2. QED
      BY <3>1
  <2>3. CameraTypes
    BY <2>1, <2>2 DEF CameraTypes, CallerSteps, CallNames
  <2>4. EventType
    BY DEF EventType
  <2>5. Connected
    BY DEF Connected
  <2>6. Running
    BY <2>1 DEF Running, Threads
  <2>7. Stored
    BY <2>1 DEF Stored, OwnFrames
  <2>8. Alone
    BY DEF Alone
  <2>9. Counted
    BY FS_EmptySet DEF Counted, AtMostTwice
  <2>10. QED
    BY <2>3, <2>4, <2>5, <2>6, <2>7, <2>8, <2>9 DEF CameraInv
<1>2. CameraInv /\ [Next]_vars => CameraInv'
  BY TypesKept, ConnectedKept, RunningKept, StoredKept, AloneKept, CountedKept DEF CameraInv
<1>3. QED
  BY <1>1, <1>2, PTL DEF Spec

(* A call returns a frame of its own connection, or one that a thread which *)
(* outlived its join stored; and while no thread has outlived its join the  *)
(* event that _read_loop sets is set over a stored frame only, so that      *)
(* "Event set but no frame available" cannot be raised.  For any number of  *)
(* connections, frames and failures.                                        *)
THEOREM PublishedIsSound == Spec => []PublishedSound
<1>1. CameraInv => PublishedSound
  <2> SUFFICES ASSUME CameraInv
               PROVE  PublishedSound
    OBVIOUS
  <2>1. TypeOK
    <3>1. \A t \in Threads : reader[t] \in Readers
      BY DEF CameraInv, CameraTypes
    <3>2. QED
      BY <3>1 DEF CameraInv, CameraTypes, EventType, TypeOK, Readers, CallerSteps
  <2>2. OwnFrames /\ EventMeansFrame
    BY DEF CameraInv, Stored, Alone, EventMeansFrame
  <2>3. QED
    BY <2>1, <2>2 DEF PublishedSound
<1>2. QED
  BY <1>1, CameraInvHolds, PTL

(* async_read returns a frame at most twice, and once more for each thread  *)
(* that outlived its join; read() never returns a frame older than the last *)
(* one captured when it cleared the event.                                  *)
THEOREM ReturnedIsFresh == Spec => []ReturnedFresh
<1>1. CameraInv => ReturnedFresh
  <2> SUFFICES ASSUME CameraInv
               PROVE  ReturnedFresh
    OBVIOUS
  <2>1. ASSUME caller.pc = "take", caller.call = "read", outlived = {}
        PROVE  latest.number >= since
    BY <2>1 DEF CameraInv, Counted, Alone
  <2>2. AtMostTwice
    BY DEF CameraInv, Counted
  <2>3. QED
    BY <2>1, <2>2 DEF ReturnedFresh, ReadsNewest
<1>2. QED
  BY <1>1, CameraInvHolds, PTL

(* Whichever of the three calls returns them, the frames of a connection    *)
(* never go back in time.                                                   *)
THEOREM FramesNeverGoBack == Spec => NeverBack
<1>1. CameraInv /\ [Next]_vars =>
        [out # NoFrame /\ out' # NoFrame /\ outlived = {} => out'.number >= out.number]_vars
  <2> SUFFICES ASSUME CameraInv, [Next]_vars, out # NoFrame, out' # NoFrame, outlived = {}
               PROVE  out'.number >= out.number
    OBVIOUS
  <2>1. out.number \in Nat
    BY FrameFacts DEF CameraInv, CameraTypes
  <2>2. latest # NoFrame => latest.number >= out.number
    BY DEF CameraInv, Alone
  <2>3. CASE out' = out
    BY <2>1, <2>3
  <2>4. CASE out' = latest
    BY <2>2, <2>4
  <2>5. out' = out \/ out' = latest
    <3>1. ASSUME NEW t \in Threads, ReadLoop(t)
          PROVE  out' = out
      BY <3>1, ReaderSteps DEF CameraInv, Reads, History
    <3>2. ~Connect
      BY DEF Connect
    <3>3. CASE AsyncRead \/ Read \/ Woken \/ TimesOut \/ Take \/ ReadLatest
      BY <3>3 DEF AsyncRead, Read, Woken, TimesOut, Take, Taken, ReadLatest
    <3>4. CASE Disconnect \/ Stopping \/ UNCHANGED vars
      BY <3>4 DEF Disconnect, Stopping, Joined, JoinTimesOut, Release, Disconnected, Disconnects,
           vars, History
    <3>5. QED
      BY <3>1, <3>2, <3>3, <3>4 DEF Next, Call
  <2>6. QED
    BY <2>3, <2>4, <2>5
<1>2. QED
  BY <1>1, CameraInvHolds, PTL DEF Spec, NeverBack
=============================================================================
