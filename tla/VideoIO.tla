------------------------------- MODULE VideoIO -------------------------------
(***************************************************************************)
(* The raw video queue of libobs (libobs/media-io/video-io.c).             *)
(*                                                                         *)
(* The graphics thread hands rendered frames to a ring of CacheSize slots  *)
(* with video_output_lock_frame / video_output_unlock_frame and fills the  *)
(* slot between the two calls, with no lock held.  The video thread takes  *)
(* the oldest slot, again without holding data_mutex, calls every          *)
(* connected input (raw outputs and encoders) and then drops one tick of   *)
(* the slot's count.  A slot stands for `count' ticks of the video clock:  *)
(* more than one when the graphics thread lagged, or when the ring was     *)
(* full and the tick was charged to the newest slot (`skipped').           *)
(*                                                                         *)
(* One action is one critical section of data_mutex or input_mutex, or one *)
(* access to an unlocked flag.                                             *)
(***************************************************************************)
EXTENDS Integers, Sequences, FiniteSets

CONSTANTS
  ConfigCacheSize,  \* the cache_size the caller of video_output_open asks for
  Inputs,           \* the (callback, param) pairs that may connect
  NoInput,          \* "no callback is running"
  MaxCount,         \* bound: most ticks one frame of the graphics thread covers
  MaxTicks          \* bound: ticks of the video clock in a behaviour

MAX_CACHE_SIZE == 16

ASSUME CacheAssumption == ConfigCacheSize \in Nat \ {0}
ASSUME InputAssumption == NoInput \notin Inputs
ASSUME TickAssumption  == MaxCount \in Nat \ {0} /\ MaxTicks \in Nat

\* init_cache clamps the size it was asked for to the array it has.
CacheSize == IF ConfigCacheSize > MAX_CACHE_SIZE THEN MAX_CACHE_SIZE
                                                 ELSE ConfigCacheSize
Slots == 0 .. CacheSize - 1

VARIABLES
  cache,         \* [Slots -> [ts, count, skipped]], the ring
  available,     \* available_frames: free slots
  firstAdded,    \* first_added: the oldest slot, the one being delivered
  lastAdded,     \* last_added: the newest slot
  sem,           \* update_semaphore
  stop,          \* video->stop
  inputs,        \* the sequence of connected inputs (video->inputs)
  skippedFrames, \* video->skipped_frames
  gpc,           \* the graphics thread: top, frame, locked, exit
  clock,         \* video_time, in ticks: the timestamp of the next frame
  vpc,           \* the video thread: wait, check, again, peek, call, finish, done
  frameIdx,      \* frame_info of video_output_cur_frame, as a slot number
  inputIdx,      \* i of the loop over the inputs
  calling,       \* the input whose callback is running, or NoInput
  spc,           \* the thread in stop_video: run, flagged, posted, joined, closed
  delivered,     \* history: ticks delivered so far
  offered,       \* history: inputs the frame being delivered was offered to
  erased,        \* history: inputs erased from within a callback this turn
  skipsDue       \* history: skipped ticks still owed to skippedFrames or in it

ring  == <<cache, available, firstAdded, lastAdded>>
vloop == <<vpc, frameIdx, inputIdx, calling>>
hist  == <<delivered, offered, erased, skipsDue>>
vars  == <<ring, sem, stop, inputs, skippedFrames, gpc, clock, vloop, spc, hist>>

\* ++index == cache_size ? 0 : index
Advance(s) == IF s + 1 = CacheSize THEN 0 ELSE s + 1

EmptySlot == [ts |-> 0, count |-> 0, skipped |-> 0]

\* os_sem_init(0), bzalloc and init_cache: everything is zero, all slots free.
Init ==
  /\ cache = [s \in Slots |-> EmptySlot]
  /\ available = CacheSize
  /\ firstAdded = 0 /\ lastAdded = 0
  /\ sem = 0
  /\ stop = FALSE
  /\ inputs = <<>>
  /\ skippedFrames = 0
  /\ gpc = "top" /\ clock = 0
  /\ vpc = "wait" /\ frameIdx = 0 /\ inputIdx = 1 /\ calling = NoInput
  /\ spc = "run"
  /\ delivered = 0 /\ offered = {} /\ erased = 0 /\ skipsDue = 0

-----------------------------------------------------------------------------
(* The graphics thread.                                                    *)

\* while (!video_output_stopped(...)): the flag is read once per frame.
GraphicsLoop ==
  /\ gpc = "top"
  /\ gpc' = IF stop THEN "exit" ELSE "frame"
  /\ UNCHANGED <<ring, sem, stop, inputs, skippedFrames, clock, vloop, spc, hist>>

\* No frame came out of the GPU this time round.
NoFrame ==
  /\ gpc = "frame"
  /\ gpc' = "top"
  /\ UNCHANGED <<ring, sem, stop, inputs, skippedFrames, clock, vloop, spc, hist>>

\* Mutants: the index moves even if the ring is empty; it never moves.
NextSlotAlways == Advance(lastAdded)
NextSlotNever  == lastAdded

\* The slot that the next frame goes to: the ring does not move when empty.
NextSlot == IF available # CacheSize THEN Advance(lastAdded) ELSE lastAdded

\* video_output_lock_frame when a slot is free: the slot is claimed, not yet
\* counted as taken.
LockFrame(count) ==
  /\ available # 0
  /\ lastAdded' = NextSlot
  /\ cache' = [cache EXCEPT ![NextSlot] =
                 [ts |-> clock, count |-> count, skipped |-> 0]]
  /\ gpc' = "locked"
  /\ UNCHANGED skipsDue

\* video_output_lock_frame when the ring is full: the newest frame is shown
\* for `count' more ticks and the ticks are remembered as skipped.
SkipFrame(count) ==
  /\ available = 0
  /\ cache' = [cache EXCEPT ![lastAdded] =
                 [ts      |-> @.ts,
                  count   |-> @.count + count,
                  skipped |-> @.skipped + count]]
  /\ gpc' = "top"
  /\ skipsDue' = skipsDue + count
  /\ UNCHANGED lastAdded

\* output_video_data: timestamps are those of the vframe_info queue, each the
\* previous one plus the previous count (video_sleep).
OutputFrame(count) ==
  /\ gpc = "frame"
  /\ clock + count =< MaxTicks
  /\ clock' = clock + count
  /\ LockFrame(count) \/ SkipFrame(count)
  /\ UNCHANGED <<available, firstAdded, sem, stop, inputs, skippedFrames,
                 vloop, spc, delivered, offered, erased>>

\* Mutant: the video thread is not woken up.
UnlockUnposted ==
  /\ gpc = "locked"
  /\ available' = available - 1
  /\ gpc' = "top"
  /\ UNCHANGED <<cache, firstAdded, lastAdded, sem, stop, inputs, skippedFrames,
                 clock, vloop, spc, hist>>

\* video_output_unlock_frame, after the pixels were copied into the slot.
UnlockFrame ==
  /\ gpc = "locked"
  /\ available' = available - 1
  /\ sem' = sem + 1
  /\ gpc' = "top"
  /\ UNCHANGED <<cache, firstAdded, lastAdded, stop, inputs, skippedFrames,
                 clock, vloop, spc, hist>>

-----------------------------------------------------------------------------
(* The video thread.                                                       *)

SemWait ==
  /\ vpc = "wait" /\ sem > 0
  /\ sem' = sem - 1
  /\ vpc' = "check"
  /\ UNCHANGED <<ring, stop, inputs, skippedFrames, gpc, clock, frameIdx,
                 inputIdx, calling, spc, hist>>

\* if (video->stop) break;
CheckStop ==
  /\ vpc = "check"
  /\ vpc' = IF stop THEN "done" ELSE "again"
  /\ UNCHANGED <<ring, sem, stop, inputs, skippedFrames, gpc, clock, frameIdx,
                 inputIdx, calling, spc, hist>>

\* while (!video->stop && !video_output_cur_frame(video))
CheckAgain ==
  /\ vpc = "again"
  /\ vpc' = IF stop THEN "wait" ELSE "peek"
  /\ UNCHANGED <<ring, sem, stop, inputs, skippedFrames, gpc, clock, frameIdx,
                 inputIdx, calling, spc, hist>>

\* frame_info = &video->cache[video->first_added], then input_mutex is taken
\* and stays held while vpc = "call".
PeekFrame ==
  /\ vpc = "peek"
  /\ frameIdx' = firstAdded
  /\ vpc' = "call" /\ inputIdx' = 1
  /\ offered' = {} /\ erased' = 0
  /\ UNCHANGED <<ring, sem, stop, inputs, skippedFrames, gpc, clock, calling,
                 spc, delivered, skipsDue>>

\* One turn of the loop over the inputs: the callback runs unless the frame
\* could not be scaled for this input.
CallInput ==
  /\ vpc = "call" /\ calling = NoInput
  /\ inputIdx =< Len(inputs)
  /\ offered' = offered \union {inputs[inputIdx]}
  /\ \/ calling' = inputs[inputIdx] /\ UNCHANGED inputIdx
     \/ inputIdx' = inputIdx + 1 /\ UNCHANGED calling
  /\ UNCHANGED <<ring, sem, stop, inputs, skippedFrames, gpc, clock, vpc,
                 frameIdx, spc, delivered, erased, skipsDue>>

Connected == {inputs[i] : i \in 1 .. Len(inputs)}

\* video_get_input_idx of a connected input, and da_erase at an index.
IndexOf(in) == CHOOSE i \in 1 .. Len(inputs) : inputs[i] = in
Erase(i) ==
  [j \in 1 .. Len(inputs) - 1 |-> IF j < i THEN inputs[j] ELSE inputs[j + 1]]

\* A callback disconnects itself (an encoder that fails in receive_video calls
\* full_stop): input_mutex is recursive, so the array shrinks under the loop.
SelfDisconnect ==
  /\ vpc = "call" /\ calling \in Connected
  /\ inputs' = Erase(IndexOf(calling))
  /\ erased' = erased + 1
  /\ UNCHANGED <<ring, sem, stop, skippedFrames, gpc, clock, vloop, spc,
                 delivered, offered, skipsDue>>

ReturnInput ==
  /\ vpc = "call" /\ calling # NoInput
  /\ calling' = NoInput
  /\ inputIdx' = inputIdx + 1
  /\ UNCHANGED <<ring, sem, stop, inputs, skippedFrames, gpc, clock, vpc,
                 frameIdx, spc, hist>>

EndCalls ==
  /\ vpc = "call" /\ calling = NoInput
  /\ inputIdx > Len(inputs)
  /\ vpc' = "finish"
  /\ UNCHANGED <<ring, sem, stop, inputs, skippedFrames, gpc, clock, frameIdx,
                 inputIdx, calling, spc, hist>>

\* Mutant: the last skipped tick is not counted.
SkipsLate == cache[frameIdx].count - 1 # 0 /\ cache[frameIdx].skipped > 1

\* The slot goes on and one of its ticks was a skipped one.
SkipsNow == cache[frameIdx].count - 1 # 0 /\ cache[frameIdx].skipped > 0

\* The last critical section of video_output_cur_frame: one tick of the slot
\* is used up; a slot with none left is given back.
FinishTurn ==
  LET left == cache[frameIdx].count - 1
      done == left = 0
      skip == SkipsNow
  IN
  /\ vpc = "finish"
  /\ cache' = [cache EXCEPT ![frameIdx] =
                 [ts      |-> @.ts + 1,
                  count   |-> left,
                  skipped |-> IF skip THEN @.skipped - 1 ELSE @.skipped]]
  /\ skippedFrames' = IF skip THEN skippedFrames + 1 ELSE skippedFrames
  /\ firstAdded' = IF done THEN Advance(firstAdded) ELSE firstAdded
  /\ available'  = IF done THEN available + 1 ELSE available
  /\ lastAdded'  = IF done /\ available' = CacheSize THEN firstAdded'
                                                     ELSE lastAdded
  /\ vpc' = IF done THEN "wait" ELSE "again"
  /\ delivered' = cache[frameIdx].ts + 1
  /\ UNCHANGED <<sem, stop, inputs, gpc, clock, frameIdx, inputIdx, calling,
                 spc, offered, erased, skipsDue>>

-----------------------------------------------------------------------------
(* Other threads: outputs and encoders connect and disconnect.             *)

\* Mutant: connect and disconnect do not take input_mutex.
InputMutexIgnored == TRUE

InputMutexFree == vpc # "call"

\* video_output_connect; creating the scaler may fail.  skipped_frames is
\* reset under input_mutex but incremented under data_mutex: a reset that meets
\* the increment may be lost.
Connect(in) ==
  /\ InputMutexFree /\ spc = "run"
  /\ in \notin Connected
  /\ inputs' = Append(inputs, in) \/ inputs' = inputs
  /\ \/ inputs # <<>> /\ UNCHANGED skippedFrames
     \/ inputs = <<>> /\ skippedFrames' = 0
     \/ inputs = <<>> /\ vpc = "finish" /\ SkipsNow /\ UNCHANGED skippedFrames
  /\ skipsDue' = skipsDue - (skippedFrames - skippedFrames')
  /\ UNCHANGED <<ring, sem, stop, gpc, clock, vloop, spc, delivered, offered,
                 erased>>

Disconnect(in) ==
  /\ InputMutexFree /\ spc # "closed"
  /\ in \in Connected
  /\ inputs' = Erase(IndexOf(in))
  /\ UNCHANGED <<ring, sem, stop, skippedFrames, gpc, clock, vloop, spc, hist>>

(* stop_video and video_output_close, on the thread that resets or shuts   *)
(* down the video.                                                         *)

StopFlag ==
  /\ spc = "run"
  /\ stop' = TRUE
  /\ spc' = "flagged"
  /\ UNCHANGED <<ring, sem, inputs, skippedFrames, gpc, clock, vloop, hist>>

\* Mutant: video_output_stop forgets to wake the video thread up.
StopUnposted ==
  /\ spc = "flagged"
  /\ spc' = "posted"
  /\ UNCHANGED <<ring, sem, stop, inputs, skippedFrames, gpc, clock, vloop, hist>>

StopPost ==
  /\ spc = "flagged"
  /\ sem' = sem + 1
  /\ spc' = "posted"
  /\ UNCHANGED <<ring, stop, inputs, skippedFrames, gpc, clock, vloop, hist>>

\* Mutant: video_output_stop does not join the thread.
LeaveVideoThread ==
  /\ spc = "posted"
  /\ spc' = "joined"
  /\ UNCHANGED <<ring, sem, stop, inputs, skippedFrames, gpc, clock, vloop, hist>>

\* pthread_join of the video thread in video_output_stop.
JoinVideoThread ==
  /\ spc = "posted" /\ vpc = "done"
  /\ spc' = "joined"
  /\ UNCHANGED <<ring, sem, stop, inputs, skippedFrames, gpc, clock, vloop, hist>>

\* pthread_join of the graphics thread in stop_video, then obs_free_video ->
\* video_output_close frees the inputs, the slots and the semaphore.
JoinGraphicsAndClose ==
  /\ spc = "joined" /\ gpc = "exit"
  /\ spc' = "closed"
  /\ inputs' = <<>>
  /\ UNCHANGED <<ring, sem, stop, skippedFrames, gpc, clock, vloop, hist>>

-----------------------------------------------------------------------------
GraphicsThread ==
  \/ GraphicsLoop
  \/ NoFrame
  \/ \E c \in 1 .. MaxCount : OutputFrame(c)
  \/ UnlockFrame

VideoThread ==
  \/ SemWait \/ CheckStop \/ CheckAgain \/ PeekFrame
  \/ CallInput \/ SelfDisconnect \/ ReturnInput \/ EndCalls \/ FinishTurn

Stopper == StopFlag \/ StopPost \/ JoinVideoThread \/ JoinGraphicsAndClose

Next ==
  \/ GraphicsThread
  \/ VideoThread
  \/ \E in \in Inputs : Connect(in) \/ Disconnect(in)
  \/ Stopper

Spec == Init /\ [][Next]_vars

\* Each of the two threads runs on, callbacks return, and a stop that was
\* begun is carried through.
FairSpec ==
  /\ Spec
  /\ WF_vars(GraphicsThread)
  /\ WF_vars(VideoThread)
  /\ WF_vars(StopPost \/ JoinVideoThread \/ JoinGraphicsAndClose)
-----------------------------------------------------------------------------
(* Properties.                                                             *)

Pending == CacheSize - available

\* The slot k places after the oldest one, for k in 0 .. CacheSize.
SlotAt(k) == IF firstAdded + k >= CacheSize THEN firstAdded + k - CacheSize
                                            ELSE firstAdded + k

\* Slot s waits for delivery (or is being delivered): it is one of the Pending
\* slots that start at firstAdded.
Held(s) ==
  IF firstAdded + Pending =< CacheSize
  THEN firstAdded =< s /\ s < firstAdded + Pending
  ELSE firstAdded =< s \/ s < firstAdded + Pending - CacheSize

\* ... or it is the slot the graphics thread has locked.
Taken(s) == Held(s) \/ (gpc = "locked" /\ s = lastAdded)

\* The video thread holds a wake-up it has not used up yet.
Busy == vpc \in {"again", "peek", "call", "finish"}

SlotType == [ts : Nat, count : Int, skipped : Nat]

TypeOK ==
  /\ cache \in [Slots -> SlotType]
  /\ available \in Int
  /\ firstAdded \in Slots /\ lastAdded \in Slots
  /\ sem \in Nat
  /\ stop \in BOOLEAN
  /\ inputs \in Seq(Inputs)
  /\ skippedFrames \in Nat
  /\ gpc \in {"top", "frame", "locked", "exit"}
  /\ clock \in Nat
  /\ vpc \in {"wait", "check", "again", "peek", "call", "finish", "done"}
  /\ frameIdx \in Slots /\ inputIdx \in Nat \ {0}
  /\ calling \in Inputs \union {NoInput}
  /\ spc \in {"run", "flagged", "posted", "joined", "closed"}
  /\ delivered \in Nat /\ offered \subseteq Inputs
  /\ erased \in Nat /\ skipsDue \in Int

\* The graphics thread fills the slot it locked, and the video thread reads
\* the slot it is delivering, both outside data_mutex: video_output_lock_frame
\* never claims the slot whose frame is with the inputs.
NoTear ==
  gpc = "locked" /\ vpc \in {"call", "finish"} => lastAdded # frameIdx

\* A frame is given back (count reaching 0) only after each of the ticks it
\* was charged for as skipped went into skipped_frames: a slot waiting for
\* delivery, or being filled, always has more ticks left than skipped ones.
SkippedBelowCount ==
  \A s \in Slots : Taken(s) => cache[s].skipped < cache[s].count

\* update_semaphore and available_frames are updated in different places
\* (unlock_frame, os_sem_wait, video_output_cur_frame): until the stop, every
\* taken slot has exactly one wake-up, so none is stranded and the thread
\* never runs on an empty ring.
WakeupsMatchSlots ==
  /\ ~stop => Pending = sem + (IF vpc = "check" \/ Busy THEN 1 ELSE 0)
  /\ vpc \in {"peek", "call", "finish"} => Pending > 0

\* skipped_frames plus the skips still waiting in the ring is what was skipped
\* since the counter was last reset, also when the ring refills during a turn.
PendingSkips[k \in 0 .. CacheSize] ==
  IF k = 0 THEN 0
  ELSE PendingSkips[k - 1] +
         (IF k =< Pending THEN cache[SlotAt(k - 1)].skipped ELSE 0)

SkipsAccounted == skippedFrames + PendingSkips[CacheSize] = skipsDue

\* video_output_disconnect waits for the callbacks of the current frame
\* (input_mutex): once it returned, the input is not called any more.  Only a
\* callback that disconnected itself is still running while disconnected.
CalledIsConnected ==
  calling # NoInput => calling \in Connected \/ erased > 0

\* Every connected input is offered each tick, except that an input erased by
\* its own callback makes the loop step over one other input for that tick.
OfferedToAll ==
  vpc = "call" /\ calling = NoInput /\ inputIdx > Len(inputs) =>
    Cardinality(Connected \ offered) =< erased

\* The slots and the inputs are freed only after both threads have ended, and
\* no callback is running from the moment video_output_stop has returned.
NoUseAfterClose ==
  /\ spc \in {"joined", "closed"} => calling = NoInput
  /\ spc = "closed" => vpc = "done" /\ gpc = "exit"

\* The inductive invariant behind the properties above.  Ring: where the two
\* indices are, also between lock_frame and unlock_frame.
RingInv ==
  /\ lastAdded = SlotAt(IF gpc = "locked" THEN Pending
                        ELSE IF Pending = 0 THEN 0 ELSE Pending - 1)
  /\ available \in 0 .. CacheSize
  /\ gpc = "locked" => available > 0
  /\ vpc \in {"call", "finish"} => frameIdx = firstAdded

\* Ticks: the taken slots cover the ticks from delivered to clock without gap
\* or overlap, the oldest slot first.
TickInv ==
  /\ \A s \in Slots : Taken(s) =>
       /\ cache[s].ts + cache[s].count =< clock
       /\ cache[s].ts + cache[s].count =
            (IF s = lastAdded THEN clock ELSE cache[Advance(s)].ts)
  /\ delivered = (IF Taken(firstAdded) THEN cache[firstAdded].ts ELSE clock)

\* The ring stays well formed whatever the two threads do between their
\* critical sections: this is what video_output_lock_frame relies on when it
\* moves last_added, and video_output_cur_frame when it moves it back.
RingWellFormed == RingInv /\ TickInv

\* The flag is set before the wake-up of video_output_stop is posted.
StopInv == spc # "run" => stop

IndInv ==
  /\ TypeOK
  /\ StopInv
  /\ WakeupsMatchSlots
  /\ RingInv
  /\ TickInv
  /\ SkippedBelowCount

\* What the queue promises its inputs: the ticks 0, 1, 2, ... in order, each
\* one once, none before the graphics thread produced it; a full ring delays
\* and repeats pictures but never loses or repeats a timestamp.
Ticks == INSTANCE TickQueue WITH handed <- clock
ImplementsTickQueue == Ticks!Spec

\* Unless the video is stopped, every tick handed over is delivered.
AllDelivered ==
  \A n \in 1 .. MaxTicks : clock >= n ~> delivered >= n \/ stop

\* Stopping the video always ends, whatever the two threads were doing.
StopCompletes == stop ~> spc = "closed"
=============================================================================
