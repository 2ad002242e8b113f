---------------------------- MODULE VideoIOProofs ----------------------------
(***************************************************************************)
(* Proofs about VideoIO, for every cache size, every set of inputs and     *)
(* every number of ticks.                                                  *)
(***************************************************************************)
EXTENDS VideoIO, TLAPS, WellFoundedInduction, FiniteSetTheorems

\* The ring has at least one slot, and slot numbers are the naturals below it.
LEMMA CacheSizeType == CacheSize \in Nat \ {0}
  BY CacheAssumption DEF CacheSize, MAX_CACHE_SIZE

\* Advance stays in the ring.
LEMMA AdvanceType == \A s \in Slots : Advance(s) \in Slots
  BY CacheSizeType DEF Slots, Advance

\* Erasing one of the connected inputs leaves a sequence of inputs.
LEMMA EraseType ==
  ASSUME inputs \in Seq(Inputs), NEW in \in Connected
  PROVE  Erase(IndexOf(in)) \in Seq(Inputs)
  <1>1. Len(inputs) - 1 \in Nat
    BY DEF Connected
  <1>2. \A j \in 1 .. Len(inputs) - 1 : Erase(IndexOf(in))[j] \in Inputs
    BY DEF Erase
  <1>3. Erase(IndexOf(in)) = [j \in 1 .. Len(inputs) - 1 |-> Erase(IndexOf(in))[j]]
    BY DEF Erase
  <1>4. QED BY <1>1, <1>2, <1>3

\* Charging a tick to the newest slot keeps the ring's type.
LEMMA SkipType ==
  ASSUME TypeOK, NEW c \in Nat, SkipFrame(c)
  PROVE  cache' \in [Slots -> SlotType]
  <1> DEFINE r == [ts      |-> cache[lastAdded].ts,
                   count   |-> cache[lastAdded].count + c,
                   skipped |-> cache[lastAdded].skipped + c]
  <1>1. cache[lastAdded] \in SlotType
    BY DEF TypeOK
  <1>2. r \in SlotType
    BY <1>1 DEF SlotType
  <1>3. cache' = [cache EXCEPT ![lastAdded] = r]
    BY DEF SkipFrame
  <1> HIDE DEF r
  <1>4. QED BY <1>2, <1>3 DEF TypeOK

\* So does using up one tick of the oldest slot.
LEMMA FinishType ==
  ASSUME TypeOK, FinishTurn
  PROVE  cache' \in [Slots -> SlotType]
  <1> DEFINE r == [ts      |-> cache[frameIdx].ts + 1,
                   count   |-> cache[frameIdx].count - 1,
                   skipped |-> IF SkipsNow THEN cache[frameIdx].skipped - 1
                                           ELSE cache[frameIdx].skipped]
  <1>1. cache[frameIdx] \in SlotType
    BY DEF TypeOK
  <1>2. r \in SlotType
    BY <1>1 DEF SlotType, SkipsNow
  <1>3. cache' = [cache EXCEPT ![frameIdx] = r]
    BY DEF FinishTurn
  <1> HIDE DEF r
  <1>4. QED BY <1>2, <1>3 DEF TypeOK

\* Every step keeps the types.
LEMMA TypeStep ==
  ASSUME TypeOK, [Next]_vars
  PROVE  TypeOK'
  <1> USE DEF TypeOK
  <1>1. CASE GraphicsLoop
    BY <1>1 DEF GraphicsLoop, ring, vloop, hist
  <1>2. CASE NoFrame
    BY <1>2 DEF NoFrame, ring, vloop, hist
  <1>3. ASSUME NEW c \in 1 .. MaxCount, OutputFrame(c) PROVE TypeOK'
    <2>1. c \in Nat /\ clock + c \in Nat
      BY TickAssumption
    <2>2. CASE LockFrame(c)
      BY <1>3, <2>1, <2>2, AdvanceType
      DEF OutputFrame, LockFrame, NextSlot, SlotType, vloop
    <2>3. CASE SkipFrame(c)
      <3>1. cache' \in [Slots -> SlotType]
        BY <2>1, <2>3, SkipType
      <3>2. QED BY <1>3, <2>1, <2>3, <3>1 DEF OutputFrame, SkipFrame, vloop
    <2>4. QED BY <1>3, <2>2, <2>3 DEF OutputFrame
  <1>4. CASE UnlockFrame
    BY <1>4 DEF UnlockFrame, ring, vloop, hist
  <1>5. CASE SemWait
    BY <1>5 DEF SemWait, ring, vloop, hist
  <1>6. CASE CheckStop
    BY <1>6 DEF CheckStop, ring, vloop, hist
  <1>7. CASE CheckAgain
    BY <1>7 DEF CheckAgain, ring, vloop, hist
  <1>8. CASE PeekFrame
    BY <1>8 DEF PeekFrame, ring, vloop, hist
  <1>9. CASE CallInput
    BY <1>9 DEF CallInput, ring, vloop, hist
  <1>10. CASE SelfDisconnect
    BY <1>10, EraseType DEF SelfDisconnect, ring, vloop, hist
  <1>11. CASE ReturnInput
    BY <1>11 DEF ReturnInput, ring, vloop, hist
  <1>12. CASE EndCalls
    BY <1>12 DEF EndCalls, ring, vloop, hist
  <1>13. CASE FinishTurn
    <2>1. cache' \in [Slots -> SlotType]
      BY <1>13, FinishType
    <2>2. cache[frameIdx].ts + 1 \in Nat
      BY DEF SlotType
    <2>3. QED
      BY <1>13, <2>1, <2>2, AdvanceType DEF FinishTurn, ring, vloop, hist
  <1>14. ASSUME NEW in \in Inputs, Connect(in) PROVE TypeOK'
    <2>1. inputs' \in Seq(Inputs)
      BY <1>14 DEF Connect
    <2>2. skippedFrames' \in Nat
      BY <1>14 DEF Connect
    <2>3. skipsDue' \in Int
      BY <1>14, <2>2 DEF Connect
    <2>4. QED BY <1>14, <2>1, <2>2, <2>3 DEF Connect, ring, vloop, hist
  <1>15. ASSUME NEW in \in Inputs, Disconnect(in) PROVE TypeOK'
    BY <1>15, EraseType DEF Disconnect, ring, vloop, hist
  <1>16. CASE StopFlag
    BY <1>16 DEF StopFlag, ring, vloop, hist
  <1>17. CASE StopPost
    BY <1>17 DEF StopPost, ring, vloop, hist
  <1>18. CASE JoinVideoThread
    BY <1>18 DEF JoinVideoThread, ring, vloop, hist
  <1>19. CASE JoinGraphicsAndClose
    BY <1>19 DEF JoinGraphicsAndClose, ring, vloop, hist
  <1>20. CASE UNCHANGED vars
    BY <1>20 DEF vars, ring, vloop, hist
  <1>21. QED
    BY <1>1, <1>2, <1>3, <1>4, <1>5, <1>6, <1>7, <1>8, <1>9, <1>10, <1>11,
       <1>12, <1>13, <1>14, <1>15, <1>16, <1>17, <1>18, <1>19, <1>20
    DEF Next, GraphicsThread, VideoThread, Stopper

LEMMA TypeInit == Init => TypeOK
  BY CacheSizeType DEF Init, EmptySlot, Slots, SlotType, TypeOK

\* Type correctness of every reachable state of the video queue.
THEOREM TypeCorrect == Spec => []TypeOK
  <1>1. TypeOK /\ [Next]_vars => TypeOK'
    BY TypeStep
  <1>2. QED BY <1>1, TypeInit, PTL DEF Spec

-----------------------------------------------------------------------------
(* The inductive invariant.                                                *)

LEMMA IndInit == Init => IndInv
  <1> SUFFICES ASSUME Init PROVE IndInv
    OBVIOUS
  <1>1. 0 \in Slots /\ \A s \in Slots : ~Taken(s)
    BY CacheSizeType DEF Init, Taken, Held, Pending, Slots
  <1>2. StopInv /\ WakeupsMatchSlots
    BY CacheSizeType DEF Init, StopInv, WakeupsMatchSlots, Busy, Pending
  <1>3. RingInv
    BY CacheSizeType DEF Init, RingInv, SlotAt, Pending
  <1>4. TickInv
    BY <1>1 DEF Init, TickInv
  <1>5. SkippedBelowCount
    BY <1>1 DEF SkippedBelowCount
  <1>6. QED BY <1>2, <1>3, <1>4, <1>5, TypeInit DEF IndInv

\* A step that leaves the ring, the ticks and the lock alone keeps what is said
\* about the slots.
LEMMA RingUntouched ==
  ASSUME TickInv, SkippedBelowCount,
         UNCHANGED <<ring, clock, delivered>>,
         gpc = "locked" <=> gpc' = "locked"
  PROVE  TickInv' /\ SkippedBelowCount'
  <1>1. \A s : Taken(s) <=> Taken(s)'
    BY DEF Taken, Held, Pending, ring
  <1>2. QED
    BY <1>1 DEF TickInv, SkippedBelowCount, ring

\* Which slots are taken: the graphics thread locks the first free one ...
LEMMA LockTaken ==
  ASSUME TypeOK, RingInv, NEW c, gpc = "frame", LockFrame(c),
         UNCHANGED <<available, firstAdded>>
  PROVE  /\ ~Taken(lastAdded')
         /\ \A s \in Slots : Taken(s)' <=> Taken(s) \/ s = lastAdded'
         /\ Pending = 0 => lastAdded' = firstAdded
         /\ Pending # 0 => /\ Taken(lastAdded) /\ Taken(firstAdded)
                           /\ lastAdded' = Advance(lastAdded)
                           /\ lastAdded' # firstAdded
  <1>1. /\ available \in 1 .. CacheSize /\ available' = available
        /\ firstAdded \in Slots /\ firstAdded' = firstAdded
        /\ lastAdded \in Slots
        /\ lastAdded = SlotAt(IF Pending = 0 THEN 0 ELSE Pending - 1)
    BY DEF TypeOK, RingInv, LockFrame
  <1>2. lastAdded' = SlotAt(Pending)
    BY <1>1, CacheSizeType
    DEF LockFrame, NextSlot, Advance, Pending, SlotAt, Slots
  <1>3. \A s \in Slots : Held(s)' <=> Held(s)
    BY <1>1 DEF Held, Pending
  <1>4. /\ \A s \in Slots : Taken(s)' <=> Held(s) \/ s = lastAdded'
        /\ \A s \in Slots : Taken(s) <=> Held(s)
    BY <1>3 DEF Taken, LockFrame
  <1>5. lastAdded' \in Slots /\ ~Held(lastAdded')
    BY <1>1, <1>2, CacheSizeType DEF Held, SlotAt, Pending, Slots
  <1>6. Pending = 0 => lastAdded' = firstAdded
    BY <1>1, <1>2, CacheSizeType DEF SlotAt, Slots
  <1>7. ASSUME Pending # 0
        PROVE  /\ Held(lastAdded) /\ Held(firstAdded)
               /\ lastAdded' = Advance(lastAdded)
               /\ lastAdded' # firstAdded
    BY <1>1, <1>2, <1>7, CacheSizeType
    DEF Held, SlotAt, Pending, Slots, Advance
  <1>8. QED BY <1>1, <1>4, <1>5, <1>6, <1>7

\* ... and unlocking it makes it the newest of the slots that are waiting.
LEMMA UnlockTaken ==
  ASSUME TypeOK, RingInv, UnlockFrame
  PROVE  \A s \in Slots : Taken(s)' <=> Taken(s)
  BY CacheSizeType
  DEF TypeOK, RingInv, UnlockFrame, Taken, Held, Pending, SlotAt, Slots

\* The oldest slot leaves the ring when its last tick is used up.
LEMMA FinishTaken ==
  ASSUME TypeOK, RingInv, Pending > 0, FinishTurn
  PROVE  /\ Taken(firstAdded) /\ frameIdx = firstAdded
         /\ cache[frameIdx].count # 1 =>
              \A s \in Slots : Taken(s)' <=> Taken(s)
         /\ cache[frameIdx].count = 1 =>
              /\ \A s \in Slots : Taken(s)' <=> Taken(s) /\ s # firstAdded
              /\ lastAdded # firstAdded => Taken(Advance(firstAdded))
              /\ lastAdded # firstAdded => lastAdded' = lastAdded
              /\ lastAdded = firstAdded => ~Taken(firstAdded)'
  <1> USE CacheSizeType
  <1>1. /\ available \in 0 .. CacheSize - 1 /\ gpc' = gpc
        /\ gpc = "locked" => available > 0
        /\ firstAdded \in Slots /\ lastAdded \in Slots
        /\ frameIdx = firstAdded
        /\ lastAdded = SlotAt(IF gpc = "locked" THEN Pending ELSE Pending - 1)
    BY DEF TypeOK, RingInv, FinishTurn, Pending
  <1>2. Taken(firstAdded)
    BY <1>1 DEF Taken, Held, Pending, Slots
  <1>3. ASSUME cache[frameIdx].count # 1
        PROVE  \A s \in Slots : Taken(s)' <=> Taken(s)
    <2>1. cache[frameIdx].count \in Int
      BY DEF TypeOK, SlotType
    <2>2. UNCHANGED <<available, firstAdded, lastAdded, gpc>>
      BY <1>3, <2>1 DEF FinishTurn
    <2>3. QED BY <2>2 DEF Taken, Held, Pending
  <1>4. ASSUME cache[frameIdx].count = 1
        PROVE  /\ \A s \in Slots : Taken(s)' <=> Taken(s) /\ s # firstAdded
               /\ lastAdded # firstAdded => Taken(Advance(firstAdded))
               /\ lastAdded # firstAdded => lastAdded' = lastAdded
               /\ lastAdded = firstAdded => ~Taken(firstAdded)'
    <2>1. /\ firstAdded' = Advance(firstAdded)
          /\ available' = available + 1
          /\ lastAdded' = IF available + 1 = CacheSize THEN Advance(firstAdded)
                                                      ELSE lastAdded
      BY <1>4 DEF FinishTurn
    <2>2. lastAdded # firstAdded => lastAdded' = lastAdded
      BY <1>1, <2>1 DEF SlotAt, Slots, Pending, Advance
    <2>3. lastAdded = firstAdded => available + 1 = CacheSize /\ gpc # "locked"
      BY <1>1 DEF SlotAt, Slots, Pending
    <2>4. \A s \in Slots : Held(s)' <=> Held(s) /\ s # firstAdded
      BY <1>1, <2>1 DEF Held, Pending, Slots, Advance
    <2>5. lastAdded # firstAdded => Taken(Advance(firstAdded))
      BY <1>1, <2>3 DEF Taken, Held, SlotAt, Slots, Pending, Advance
    <2>6. gpc = "locked" => lastAdded # firstAdded
      BY <2>3
    <2>7. lastAdded = firstAdded => ~Taken(firstAdded)'
      BY <1>1, <2>1, <2>3 DEF Taken, Held, Pending, Slots, Advance
    <2>8. \A s \in Slots : Taken(s)' <=> Taken(s) /\ s # firstAdded
      BY <1>1, <2>2, <2>4, <2>6 DEF Taken
    <2>9. QED BY <2>2, <2>5, <2>7, <2>8
  <1>5. QED BY <1>1, <1>2, <1>3, <1>4

\* No taken slot but the newest is followed by the oldest.
LEMMA Successor ==
  ASSUME TypeOK, RingInv, NEW s \in Slots, Taken(s), s # lastAdded
  PROVE  Taken(Advance(s)) /\ Advance(s) # firstAdded
  BY CacheSizeType
  DEF TypeOK, RingInv, Taken, Held, Pending, SlotAt, Slots, Advance

\* Wake-ups and the stop flag.
LEMMA WakeStep ==
  ASSUME TypeOK, StopInv, WakeupsMatchSlots, RingInv, [Next]_vars
  PROVE  StopInv' /\ WakeupsMatchSlots'
  <1> USE DEF TypeOK, StopInv, WakeupsMatchSlots, Pending, Busy
  <1>1. CASE GraphicsLoop \/ NoFrame
    BY <1>1 DEF GraphicsLoop, NoFrame, ring, vloop, hist
  <1>2. ASSUME NEW c \in 1 .. MaxCount, OutputFrame(c)
        PROVE  StopInv' /\ WakeupsMatchSlots'
    BY <1>2 DEF OutputFrame, vloop
  <1>3. CASE UnlockFrame
    BY <1>3, CacheSizeType DEF UnlockFrame, RingInv, vloop
  <1>4. CASE SemWait \/ CheckStop \/ CheckAgain
    BY <1>4, CacheSizeType DEF SemWait, CheckStop, CheckAgain, RingInv, ring
  <1>5. CASE PeekFrame \/ CallInput \/ SelfDisconnect \/ ReturnInput \/ EndCalls
    BY <1>5 DEF PeekFrame, CallInput, SelfDisconnect, ReturnInput, EndCalls,
                ring, vloop, hist
  <1>6. CASE FinishTurn
    BY <1>6, CacheSizeType DEF FinishTurn, RingInv
  <1>7. ASSUME NEW in \in Inputs, Connect(in) \/ Disconnect(in)
        PROVE  StopInv' /\ WakeupsMatchSlots'
    BY <1>7 DEF Connect, Disconnect, ring, vloop, hist
  <1>8. CASE StopFlag \/ StopPost \/ JoinVideoThread \/ JoinGraphicsAndClose
    BY <1>8 DEF StopFlag, StopPost, JoinVideoThread, JoinGraphicsAndClose,
                ring, vloop, hist
  <1>9. CASE UNCHANGED vars
    BY <1>9 DEF vars, ring, vloop, hist
  <1>10. QED
    BY <1>1, <1>2, <1>3, <1>4, <1>5, <1>6, <1>7, <1>8, <1>9
    DEF Next, GraphicsThread, VideoThread, Stopper

\* Steps that touch neither the ring, nor the lock, nor the frame being
\* delivered.
LEMMA OtherSteps ==
  ASSUME \/ GraphicsLoop \/ NoFrame \/ SemWait \/ CheckStop \/ CheckAgain
         \/ CallInput \/ SelfDisconnect \/ ReturnInput \/ EndCalls
         \/ StopFlag \/ StopPost \/ JoinVideoThread \/ JoinGraphicsAndClose
         \/ (\E in \in Inputs : Connect(in) \/ Disconnect(in))
         \/ UNCHANGED vars
  PROVE  /\ UNCHANGED <<ring, clock, delivered, frameIdx>>
         /\ gpc = "locked" <=> gpc' = "locked"
         /\ vpc' \in {"call", "finish"} => vpc \in {"call", "finish"}
  BY DEF GraphicsLoop, NoFrame, SemWait, CheckStop, CheckAgain, CallInput,
         SelfDisconnect, ReturnInput, EndCalls, StopFlag, StopPost,
         JoinVideoThread, JoinGraphicsAndClose, Connect, Disconnect, vars,
         ring, vloop, hist

\* Where the indices are.
LEMMA RingStep ==
  ASSUME TypeOK, WakeupsMatchSlots, RingInv, [Next]_vars
  PROVE  RingInv'
  <1>1. CASE UNCHANGED <<ring, frameIdx>> /\ (gpc = "locked" <=> gpc' = "locked")
             /\ (vpc' \in {"call", "finish"} => vpc \in {"call", "finish"})
    BY <1>1 DEF RingInv, SlotAt, Pending, ring
  <1>2. ASSUME NEW c \in 1 .. MaxCount, OutputFrame(c) PROVE RingInv'
    <2>1. CASE LockFrame(c)
      BY <1>2, <2>1, CacheSizeType
      DEF OutputFrame, LockFrame, NextSlot, Advance, RingInv, SlotAt, Pending,
          TypeOK, Slots, vloop
    <2>2. CASE SkipFrame(c)
      BY <1>2, <2>2 DEF OutputFrame, SkipFrame, RingInv, SlotAt, Pending, vloop
    <2>3. QED BY <1>2, <2>1, <2>2 DEF OutputFrame
  <1>3. CASE UnlockFrame
    BY <1>3, CacheSizeType
    DEF UnlockFrame, RingInv, SlotAt, Pending, TypeOK, Slots, vloop
  <1>4. CASE PeekFrame
    BY <1>4 DEF PeekFrame, RingInv, SlotAt, Pending, ring
  <1>5. CASE FinishTurn
    <2>1. /\ available \in 0 .. CacheSize - 1
          /\ firstAdded \in Slots /\ lastAdded \in Slots
          /\ gpc = "locked" => available > 0
          /\ lastAdded = SlotAt(IF gpc = "locked" THEN Pending ELSE Pending - 1)
      BY <1>5, CacheSizeType
      DEF FinishTurn, WakeupsMatchSlots, RingInv, Pending, TypeOK
    <2>2. gpc' = gpc /\ vpc' \notin {"call", "finish"}
      BY <1>5 DEF FinishTurn
    <2>3. CASE cache[frameIdx].count - 1 = 0
      <3>1. /\ firstAdded' = Advance(firstAdded)
            /\ available' = available + 1
            /\ lastAdded' = IF available + 1 = CacheSize THEN Advance(firstAdded)
                                                        ELSE lastAdded
        BY <1>5, <2>3 DEF FinishTurn
      <3>2. QED
        BY <2>1, <2>2, <3>1, CacheSizeType
        DEF RingInv, SlotAt, Pending, Advance, Slots
    <2>4. CASE cache[frameIdx].count - 1 # 0
      <3>1. UNCHANGED <<available, firstAdded, lastAdded>>
        BY <1>5, <2>4 DEF FinishTurn
      <3>2. QED
        BY <2>1, <2>2, <3>1 DEF RingInv, SlotAt, Pending
    <2>5. QED BY <2>3, <2>4
  <1>6. QED
    BY <1>1, <1>2, <1>3, <1>4, <1>5, OtherSteps
    DEF Next, GraphicsThread, VideoThread, Stopper

\* What the slots hold.
LEMMA TickStep ==
  ASSUME TypeOK, WakeupsMatchSlots, RingInv, TickInv, SkippedBelowCount,
         [Next]_vars
  PROVE  TickInv' /\ SkippedBelowCount'
  <1>1. CASE UNCHANGED <<ring, clock, delivered>>
             /\ (gpc = "locked" <=> gpc' = "locked")
    BY <1>1, RingUntouched
  <1>2. ASSUME NEW c \in 1 .. MaxCount, OutputFrame(c)
        PROVE  TickInv' /\ SkippedBelowCount'
    <2>1. /\ c \in Nat \ {0} /\ clock \in Nat /\ clock' = clock + c
          /\ gpc = "frame"
          /\ UNCHANGED <<available, firstAdded, delivered>>
          /\ firstAdded \in Slots /\ lastAdded \in Slots
          /\ \A s \in Slots : cache[s] \in SlotType
          /\ cache \in [Slots -> SlotType]
      BY <1>2, TickAssumption DEF OutputFrame, TypeOK
    <2>2. CASE LockFrame(c)
      <3>1. /\ ~Taken(lastAdded')
            /\ \A s \in Slots : Taken(s)' <=> Taken(s) \/ s = lastAdded'
            /\ Pending = 0 => lastAdded' = firstAdded
            /\ Pending # 0 => /\ Taken(lastAdded) /\ Taken(firstAdded)
                              /\ lastAdded' = Advance(lastAdded)
                              /\ lastAdded' # firstAdded
        BY <2>1, <2>2, LockTaken
      <3>2. /\ lastAdded' \in Slots
            /\ cache'[lastAdded'] = [ts |-> clock, count |-> c, skipped |-> 0]
            /\ \A s \in Slots : s # lastAdded' => cache'[s] = cache[s]
        BY <2>1, <2>2, AdvanceType DEF LockFrame, NextSlot
      <3>3. ASSUME NEW s \in Slots, Taken(s)
            PROVE  /\ s # lastAdded' /\ cache'[s] = cache[s]
                   /\ cache'[s].ts + cache'[s].count =< clock'
                   /\ cache'[s].ts + cache'[s].count = cache'[Advance(s)].ts
        <4>1. s # lastAdded' /\ cache'[s] = cache[s]
          BY <3>1, <3>2, <3>3
        <4>2. cache[s].ts + cache[s].count =< clock
          BY <3>3 DEF TickInv
        <4>3. CASE s = lastAdded
          <5>1. Pending # 0
            BY <2>1, <3>3, CacheSizeType DEF Taken, Held, Pending, TypeOK, Slots
          <5>2. QED
            BY <2>1, <3>1, <3>2, <3>3, <4>1, <4>2, <4>3, <5>1
            DEF TickInv, SlotType
        <4>4. CASE s # lastAdded
          <5>1. Taken(Advance(s))
            BY <3>3, <4>4, Successor
          <5>2. Advance(s) # lastAdded' /\ Advance(s) \in Slots
            BY <3>1, <5>1, AdvanceType
          <5>3. cache'[Advance(s)] = cache[Advance(s)]
            BY <3>2, <5>2
          <5>4. QED
            BY <2>1, <3>3, <4>1, <4>2, <4>4, <5>3 DEF TickInv, SlotType
        <4>5. QED BY <4>3, <4>4
      <3>4. delivered' = IF Taken(firstAdded)' THEN cache'[firstAdded'].ts
                                              ELSE clock'
        <4>1. CASE Pending = 0
          <5>1. ~Taken(firstAdded) /\ delivered = clock
            BY <2>1, <3>1, <4>1 DEF TickInv
          <5>2. Taken(firstAdded)' /\ cache'[firstAdded'].ts = clock
            BY <2>1, <3>1, <3>2, <4>1 DEF Taken, LockFrame
          <5>3. QED BY <2>1, <5>1, <5>2
        <4>2. CASE Pending # 0
          <5>1. Taken(firstAdded) /\ firstAdded # lastAdded'
            BY <3>1, <4>2
          <5>2. Taken(firstAdded)'
            BY <2>1, <5>1 DEF Taken, Held, Pending
          <5>3. QED BY <2>1, <3>2, <5>1, <5>2 DEF TickInv
        <4>3. QED BY <4>1, <4>2
      <3>5. TickInv'
        BY <2>1, <3>1, <3>2, <3>3, <3>4 DEF TickInv
      <3>6. SkippedBelowCount'
        BY <2>1, <3>1, <3>2, <3>3 DEF SkippedBelowCount
      <3>7. QED BY <3>5, <3>6
    <2>3. CASE SkipFrame(c)
      <3>1. /\ lastAdded' = lastAdded /\ gpc' = "top" /\ available = 0
            /\ cache'[lastAdded] = [ts      |-> cache[lastAdded].ts,
                                    count   |-> cache[lastAdded].count + c,
                                    skipped |-> cache[lastAdded].skipped + c]
            /\ \A s \in Slots : s # lastAdded => cache'[s] = cache[s]
        BY <2>1, <2>3 DEF SkipFrame
      <3>2. \A s \in Slots : Taken(s) /\ Taken(s)'
        BY <2>1, <3>1, CacheSizeType DEF Taken, Held, Pending, Slots
      <3>3. \A s \in Slots : cache'[s].ts = cache[s].ts
        BY <2>1, <3>1 DEF SlotType
      <3>4. TickInv'
        BY <2>1, <3>1, <3>2, <3>3, AdvanceType DEF TickInv, SlotType
      <3>5. SkippedBelowCount'
        BY <2>1, <3>1, <3>2 DEF SkippedBelowCount, SlotType
      <3>6. QED BY <3>4, <3>5
    <2>4. QED BY <1>2, <2>2, <2>3 DEF OutputFrame
  <1>3. CASE UnlockFrame
    <2>1. \A s \in Slots : Taken(s)' <=> Taken(s)
      BY <1>3, UnlockTaken
    <2>2. UNCHANGED <<cache, firstAdded, lastAdded, clock, delivered>>
      BY <1>3 DEF UnlockFrame, hist
    <2>3. Taken(firstAdded)' <=> Taken(firstAdded)
      BY <2>1, <2>2 DEF TypeOK, Taken, Held
    <2>4. QED
      BY <2>1, <2>2, <2>3 DEF TickInv, SkippedBelowCount
  <1>4. CASE PeekFrame
    BY <1>4, RingUntouched DEF PeekFrame
  <1>5. CASE FinishTurn
    <2>1. Pending > 0
      BY <1>5 DEF FinishTurn, WakeupsMatchSlots
    <2>2. /\ Taken(firstAdded) /\ frameIdx = firstAdded
          /\ cache[frameIdx].count # 1 =>
               \A s \in Slots : Taken(s)' <=> Taken(s)
          /\ cache[frameIdx].count = 1 =>
               /\ \A s \in Slots : Taken(s)' <=> Taken(s) /\ s # firstAdded
               /\ lastAdded # firstAdded => Taken(Advance(firstAdded))
               /\ lastAdded # firstAdded => lastAdded' = lastAdded
               /\ lastAdded = firstAdded => ~Taken(firstAdded)'
      BY <1>5, <2>1, FinishTaken
    <2>3. /\ firstAdded \in Slots /\ lastAdded \in Slots
          /\ \A s \in Slots : cache[s] \in SlotType
          /\ clock' = clock /\ clock \in Nat
          /\ delivered' = cache[firstAdded].ts + 1
          /\ \A s \in Slots : s # firstAdded => cache'[s] = cache[s]
          /\ cache'[firstAdded].ts = cache[firstAdded].ts + 1
          /\ cache'[firstAdded].count = cache[firstAdded].count - 1
          /\ cache'[firstAdded].skipped =
               IF cache[firstAdded].count - 1 # 0 /\ cache[firstAdded].skipped > 0
               THEN cache[firstAdded].skipped - 1 ELSE cache[firstAdded].skipped
      BY <1>5, <2>2 DEF FinishTurn, SkipsNow, TypeOK
    <2>4. /\ cache[firstAdded].skipped < cache[firstAdded].count
          /\ cache[firstAdded].ts + cache[firstAdded].count =< clock
          /\ cache[firstAdded].ts + cache[firstAdded].count =
               IF firstAdded = lastAdded THEN clock
                                         ELSE cache[Advance(firstAdded)].ts
      BY <2>2, <2>3 DEF TickInv, SkippedBelowCount
    <2>5. \A s \in Slots : Taken(s) /\ s # lastAdded =>
            /\ cache'[Advance(s)] = cache[Advance(s)]
            /\ Advance(s) # firstAdded
      BY <2>3, Successor, AdvanceType
    <2>6. CASE cache[frameIdx].count # 1
      <3>1. UNCHANGED <<firstAdded, lastAdded>>
        BY <1>5, <2>2, <2>3, <2>6 DEF FinishTurn, SlotType
      <3>2. Taken(firstAdded)'
        BY <1>5, <2>2, <2>3, <2>6 DEF FinishTurn, Taken, Held, Pending, SlotType
      <3>3. TickInv'
        BY <2>2, <2>3, <2>4, <2>5, <2>6, <3>1, <3>2 DEF TickInv, SlotType
      <3>4. SkippedBelowCount'
        BY <2>2, <2>3, <2>4, <2>6, <3>1 DEF SkippedBelowCount, SlotType
      <3>5. QED BY <3>3, <3>4
    <2>7. CASE cache[frameIdx].count = 1
      <3>1. firstAdded' = Advance(firstAdded)
        BY <1>5, <2>7 DEF FinishTurn
      <3>2. \A s \in Slots : Taken(s)' => Taken(s) /\ cache'[s] = cache[s]
        BY <2>2, <2>3, <2>7
      <3>3. SkippedBelowCount'
        BY <3>2 DEF SkippedBelowCount
      <3>4. CASE lastAdded = firstAdded
        <4>1. \A s \in Slots : ~Taken(s)'
          <5>1. \A s \in Slots : Taken(s) => s = firstAdded
            BY <2>1, <3>4, CacheSizeType
            DEF Taken, Held, RingInv, SlotAt, Pending, Slots, TypeOK
          <5>2. QED BY <2>2, <2>7, <5>1
        <4>2. QED
          BY <2>2, <2>3, <2>4, <2>7, <3>3, <3>4, <4>1 DEF TickInv
      <3>5. CASE lastAdded # firstAdded
        <4>1. lastAdded' = lastAdded /\ Taken(Advance(firstAdded))
              /\ Advance(firstAdded) # firstAdded
          BY <2>2, <2>3, <2>7, <3>5, Successor
        <4>2. Taken(firstAdded)'
          <5>1. Advance(firstAdded) \in Slots
            BY <2>3, AdvanceType
          <5>2. QED
            BY <2>2, <2>7, <3>1, <4>1, <5>1 DEF Taken, Held
        <4>3. cache'[Advance(firstAdded)] = cache[Advance(firstAdded)]
          BY <2>2, <2>3, <2>5, <3>5
        <4>4. QED
          BY <2>2, <2>3, <2>4, <2>5, <2>7, <3>1, <3>2, <3>3, <3>5, <4>1, <4>2,
             <4>3
          DEF TickInv
      <3>6. QED BY <3>4, <3>5
    <2>8. QED BY <2>6, <2>7
  <1>6. QED
    BY <1>1, <1>2, <1>3, <1>4, <1>5, OtherSteps
    DEF Next, GraphicsThread, VideoThread, Stopper

LEMMA IndStep == IndInv /\ [Next]_vars => IndInv'
  BY TypeStep, WakeStep, RingStep, TickStep DEF IndInv

LEMMA Inductive == Spec => []IndInv
  BY IndInit, IndStep, PTL DEF Spec

-----------------------------------------------------------------------------
(* What follows from the invariant.                                        *)

\* The slot that lock_frame claims lies Pending places after the oldest one,
\* so it is another slot whenever a frame is with the inputs.
LEMMA LockedApart == IndInv => NoTear
  <1> SUFFICES ASSUME IndInv, gpc = "locked", vpc \in {"call", "finish"}
               PROVE  lastAdded # frameIdx
    BY DEF NoTear
  <1>1. Pending > 0 /\ available > 0 /\ available =< CacheSize
    BY DEF IndInv, WakeupsMatchSlots, RingInv
  <1>2. lastAdded = SlotAt(Pending) /\ frameIdx = firstAdded
    BY DEF IndInv, RingInv
  <1>3. firstAdded \in Slots /\ available \in Int
    BY DEF IndInv, TypeOK
  <1>4. QED BY <1>1, <1>2, <1>3, CacheSizeType DEF SlotAt, Pending, Slots

\* The graphics thread never fills the slot that video_output_cur_frame is
\* reading, whatever the size of the ring.
THEOREM NoTearCorrect == Spec => []NoTear
  BY Inductive, LockedApart, PTL

\* Every skipped tick is counted before its slot is given back.
THEOREM SkippedBelowCountCorrect == Spec => []SkippedBelowCount
  <1>1. IndInv => SkippedBelowCount
    BY DEF IndInv
  <1>2. QED BY <1>1, Inductive, PTL

\* Until the stop, update_semaphore and the video thread together hold one
\* wake-up for each slot in use.
THEOREM WakeupsMatchSlotsCorrect == Spec => []WakeupsMatchSlots
  <1>1. IndInv => WakeupsMatchSlots
    BY DEF IndInv
  <1>2. QED BY <1>1, Inductive, PTL

\* The two indices and available_frames always describe one run of slots that
\* covers the ticks from the next one to deliver to the clock.
THEOREM RingWellFormedCorrect == Spec => []RingWellFormed
  <1>1. IndInv => RingWellFormed
    BY DEF IndInv, RingWellFormed
  <1>2. QED BY <1>1, Inductive, PTL

-----------------------------------------------------------------------------
(* Skipped ticks are all counted.  PendingSkips is a sum over the places   *)
(* of the ring, so its steps rest on lemmas about sums, and these on       *)
(* induction over the natural numbers, which is stated for sets because    *)
(* the provers cannot instantiate a theorem about an operator.             *)

LEMMA SetInduction ==
  ASSUME NEW T, 0 \in T, \A n \in Nat : n \in T => n + 1 \in T
  PROVE  \A n \in Nat : n \in T
  <1> SUFFICES ASSUME NEW n \in Nat, n \notin T PROVE FALSE
    OBVIOUS
  <1> DEFINE Rest == {k \in Nat : k \notin T}
             Less == OpToRel(<, Nat)
  <1>1. Rest # {} /\ Rest \subseteq Nat
    OBVIOUS
  <1>2. IsWellFoundedOn(Less, Nat)
    BY NatLessThanWellFounded
  <1>3. \A a, b \in Nat : a < b => <<a, b>> \in Less
    BY Zenon DEF OpToRel
  <1> HIDE DEF Rest, Less
  <1>4. PICK m \in Rest : \A k \in Rest : <<k, m>> \notin Less
    BY <1>1, <1>2, WFMin
  <1>5. m \in Nat /\ m \notin T
    BY DEF Rest
  <1>6. m # 0 /\ m - 1 \in Nat /\ m - 1 < m /\ (m - 1) + 1 = m
    BY <1>5
  <1>7. m - 1 \notin Rest
    BY <1>3, <1>4, <1>5, <1>6
  <1>8. m - 1 \in T
    BY <1>6, <1>7 DEF Rest
  <1> QED BY <1>5, <1>6, <1>8

\* The functions that give the sum of the first k values of v, for k up to n.
Sums(v, n) ==
  {f \in [0 .. n -> Int] : f[0] = 0 /\ \A k \in 1 .. n : f[k] = f[k - 1] + v[k]}

\* It gives integers, each from the one before.
LEMMA SumFacts ==
  ASSUME NEW v \in [Nat -> Int], NEW n \in Nat, NEW f \in Sums(v, n)
  PROVE  /\ f[0] = 0 /\ \A m \in 0 .. n : f[m] \in Int
         /\ \A m \in Nat : m + 1 =< n => f[m + 1] = f[m] + v[m + 1]
  <1>1. ASSUME NEW m \in Nat, m + 1 =< n PROVE f[m + 1] = f[m] + v[m + 1]
    <2>1. m + 1 \in 1 .. n /\ (m + 1) - 1 = m
      BY <1>1
    <2> QED BY <2>1 DEF Sums
  <1> QED BY <1>1 DEF Sums

\* Such a function exists.
LEMMA SumExists ==
  ASSUME NEW v \in [Nat -> Int], NEW n \in Nat
  PROVE  Sums(v, n) # {}
  <1> DEFINE T == {m \in Nat : Sums(v, m) # {}}
  <1>1. 0 \in T
    <2>1. [k \in 0 .. 0 |-> 0] \in Sums(v, 0)
      BY DEF Sums
    <2> QED BY <2>1
  <1>2. ASSUME NEW m \in Nat, m \in T PROVE m + 1 \in T
    <2>1. PICK f : f \in Sums(v, m)
      BY <1>2
    <2> DEFINE g == [k \in 0 .. m + 1 |-> IF k = m + 1 THEN f[m] + v[m + 1] ELSE f[k]]
    <2>2. f \in [0 .. m -> Int] /\ f[0] = 0 /\ v[m + 1] \in Int
          /\ \A k \in 1 .. m : f[k] = f[k - 1] + v[k]
      BY <2>1 DEF Sums
    <2>3. g \in [0 .. m + 1 -> Int] /\ g[0] = 0 /\ g[m] = f[m]
          /\ g[m + 1] = f[m] + v[m + 1] /\ \A k \in 0 .. m : g[k] = f[k]
      BY <2>2
    <2> HIDE DEF g
    <2>4. \A k \in 1 .. m + 1 : g[k] = g[k - 1] + v[k]
      <3> TAKE k \in 1 .. m + 1
      <3>1. CASE k = m + 1
        BY <2>3, <3>1
      <3>2. CASE k \in 1 .. m
        BY <2>2, <2>3, <3>2
      <3> QED BY <3>1, <3>2
    <2>5. g \in Sums(v, m + 1)
      BY <2>3, <2>4 DEF Sums
    <2> QED BY <2>5
  <1> HIDE DEF T
  <1>3. n \in T
    BY <1>1, <1>2, SetInduction
  <1> QED BY <1>3 DEF T

\* A value that grows by d makes the sum grow by d.
LEMMA SumBump ==
  ASSUME NEW v \in [Nat -> Int], NEW w \in [Nat -> Int], NEW n \in Nat,
         NEW f \in Sums(v, n), NEW g \in Sums(w, n),
         NEW i \in 1 .. n, NEW d \in Int, w[i] = v[i] + d,
         \A k \in 1 .. n : k # i => w[k] = v[k]
  PROVE  g[n] = f[n] + d
  <1> DEFINE T == {m \in Nat : m =< n => g[m] = f[m] + (IF i =< m THEN d ELSE 0)}
  <1>1. 0 \in T
    BY SumFacts
  <1>2. ASSUME NEW m \in Nat, m \in T PROVE m + 1 \in T
    <2> SUFFICES ASSUME m + 1 =< n
                 PROVE  g[m + 1] = f[m + 1] + (IF i =< m + 1 THEN d ELSE 0)
      OBVIOUS
    <2>1. g[m + 1] = g[m] + w[m + 1] /\ f[m + 1] = f[m] + v[m + 1]
      BY SumFacts
    <2>2. g[m] = f[m] + (IF i =< m THEN d ELSE 0)
      BY <1>2
    <2>3. w[m + 1] = v[m + 1] + (IF i = m + 1 THEN d ELSE 0)
      <3>1. v[m + 1] \in Int
        OBVIOUS
      <3> QED BY <3>1
    <2>4. f[m] \in Int /\ v[m + 1] \in Int
      BY SumFacts
    <2> QED BY <2>1, <2>2, <2>3, <2>4
  <1> HIDE DEF T
  <1>3. n \in T
    BY <1>1, <1>2, SetInduction
  <1> QED BY <1>3 DEF T

\* A value of 0 that goes at the front leaves the sum as it is.
LEMMA SumShift ==
  ASSUME NEW v \in [Nat -> Int], NEW w \in [Nat -> Int], NEW n \in Nat \ {0},
         NEW f \in Sums(v, n), NEW g \in Sums(w, n),
         v[1] = 0, w[n] = 0, \A k \in 1 .. n - 1 : w[k] = v[k + 1]
  PROVE  g[n] = f[n]
  <1> DEFINE T == {m \in Nat : m < n => g[m] = f[m + 1]}
  <1>1. 0 \in T
    BY SumFacts
  <1>2. ASSUME NEW m \in Nat, m \in T PROVE m + 1 \in T
    <2> SUFFICES ASSUME m + 1 < n PROVE g[m + 1] = f[(m + 1) + 1]
      OBVIOUS
    <2>1. g[m + 1] = g[m] + w[m + 1]
      BY SumFacts
    <2>2. f[(m + 1) + 1] = f[m + 1] + v[(m + 1) + 1]
      BY SumFacts
    <2>3. g[m] = f[m + 1] /\ w[m + 1] = v[(m + 1) + 1]
      BY <1>2
    <2> QED BY <2>1, <2>2, <2>3
  <1> HIDE DEF T
  <1>3. n - 1 \in T
    BY <1>1, <1>2, SetInduction
  <1>4. g[n - 1] = f[n]
    BY <1>3 DEF T
  <1> QED BY <1>4 DEF Sums

\* The skipped ticks of the slot k places from the oldest.
Skips == [k \in Nat |-> IF k \in 1 .. Pending THEN cache[SlotAt(k - 1)].skipped ELSE 0]

\* The places of the ring are slots.
LEMMA SlotAtType ==
  TypeOK /\ RingInv => \A k \in 1 .. CacheSize : SlotAt(k - 1) \in Slots
  BY CacheSizeType DEF TypeOK, SlotAt, Slots

\* The recursive function PendingSkips exists, and is their sum.
LEMMA SkipsSum ==
  TypeOK /\ RingInv => Skips \in [Nat -> Int] /\ PendingSkips \in Sums(Skips, CacheSize)
  <1> SUFFICES ASSUME TypeOK, RingInv
               PROVE  Skips \in [Nat -> Int] /\ PendingSkips \in Sums(Skips, CacheSize)
    OBVIOUS
  <1> DEFINE Def(f) ==
        f = [k \in 0 .. CacheSize |->
               IF k = 0 THEN 0
               ELSE f[k - 1] +
                      (IF k =< Pending THEN cache[SlotAt(k - 1)].skipped ELSE 0)]
  <1>1. Pending \in 0 .. CacheSize
    BY CacheSizeType DEF Pending, RingInv, TypeOK
  <1>2. Skips \in [Nat -> Int]
    <2>1. \A k \in 1 .. Pending : SlotAt(k - 1) \in Slots
      <3> HIDE DEF Def
      <3>1. \A k \in 1 .. Pending : k \in 1 .. CacheSize
        BY <1>1, CacheSizeType
      <3> QED BY <3>1, SlotAtType
    <2>2. \A s \in Slots : cache[s].skipped \in Int
      BY DEF TypeOK, SlotType
    <2> QED BY <1>1, <2>1, <2>2 DEF Skips
  <1>3. ASSUME NEW f \in Sums(Skips, CacheSize) PROVE Def(f)
    <2>1. \A k \in 1 .. CacheSize :
            Skips[k] = IF k =< Pending THEN cache[SlotAt(k - 1)].skipped ELSE 0
      BY <1>1 DEF Skips
    <2> QED BY <2>1, CacheSizeType DEF Sums
  <1>4. PICK s : s \in Sums(Skips, CacheSize)
    BY <1>2, SumExists, CacheSizeType
  <1>5. Def(s)
    BY <1>3, <1>4
  <1>6. PendingSkips = CHOOSE f : Def(f)
    BY DEF PendingSkips
  <1>7. Def(PendingSkips)
    <2> HIDE DEF Def
    <2> QED BY <1>5, <1>6
  <1>8. ASSUME NEW p, Def(p) PROVE p \in Sums(Skips, CacheSize)
    <2> DEFINE T == {m \in Nat : m =< CacheSize => p[m] \in Int}
    <2>1. /\ p = [k \in 0 .. CacheSize |-> p[k]] /\ p[0] = 0
          /\ \A k \in 1 .. CacheSize : p[k] = p[k - 1] + Skips[k]
      BY <1>1, <1>8, CacheSizeType DEF Skips
    <2> HIDE DEF Def
    <2>2. 0 \in T
      BY <2>1
    <2>3. ASSUME NEW m \in Nat, m \in T PROVE m + 1 \in T
      <3> SUFFICES ASSUME m + 1 =< CacheSize PROVE p[m + 1] \in Int
        OBVIOUS
      <3>1. m + 1 \in 1 .. CacheSize /\ (m + 1) - 1 = m
        BY CacheSizeType
      <3>2. p[m + 1] = p[m] + Skips[m + 1]
        BY <2>1, <3>1
      <3>3. Skips[m + 1] \in Int
        BY <1>2
      <3>4. p[m] \in Int
        BY <2>3, CacheSizeType
      <3> QED BY <3>2, <3>3, <3>4
    <2> HIDE DEF T
    <2>4. \A m \in Nat : m \in T
      BY <2>2, <2>3, SetInduction
    <2>5. \A m \in 0 .. CacheSize : p[m] \in Int
      BY <2>4, CacheSizeType DEF T
    <2> QED BY <2>1, <2>5 DEF Sums
  <1> HIDE DEF Def
  <1> QED BY <1>2, <1>7, <1>8

\* A slot that is locked has no skipped ticks, as video_output_lock_frame left it.
LockedUnskipped == gpc = "locked" => cache[lastAdded].skipped = 0

\* A step keeps that: the video thread is never on the locked slot.
LEMMA LockedStep ==
  IndInv /\ LockedUnskipped /\ [Next]_vars => LockedUnskipped'
  <1> SUFFICES ASSUME IndInv, LockedUnskipped, [Next]_vars, gpc' = "locked"
               PROVE  cache'[lastAdded'].skipped = 0
    BY DEF LockedUnskipped
  <1>1. ASSUME NEW c \in 1 .. MaxCount, OutputFrame(c)
        PROVE  cache'[lastAdded'].skipped = 0
    <2>1. LockFrame(c)
      BY <1>1 DEF OutputFrame, SkipFrame
    <2>2. NextSlot \in Slots /\ cache \in [Slots -> SlotType]
      BY AdvanceType DEF NextSlot, IndInv, TypeOK
    <2> QED BY <2>1, <2>2 DEF LockFrame
  <1>2. CASE FinishTurn
    <2>1. gpc = "locked" /\ cache[lastAdded].skipped = 0
      BY <1>2 DEF FinishTurn, LockedUnskipped
    <2>2. lastAdded # frameIdx /\ frameIdx = firstAdded
      BY <1>2, <2>1, LockedApart DEF NoTear, FinishTurn, IndInv, RingInv
    <2>3. Pending > 0
      BY <1>2 DEF FinishTurn, IndInv, WakeupsMatchSlots
    <2>4. cache[frameIdx].count = 1 => lastAdded' = lastAdded
      BY <1>2, <2>2, <2>3, FinishTaken DEF IndInv
    <2>5. cache[frameIdx].count # 1 => lastAdded' = lastAdded
      <3>1. cache[frameIdx].count \in Int
        BY DEF IndInv, TypeOK, SlotType
      <3> QED BY <1>2, <3>1 DEF FinishTurn
    <2>6. lastAdded \in Slots /\ cache \in [Slots -> SlotType]
      BY DEF IndInv, TypeOK
    <2> QED BY <1>2, <2>1, <2>2, <2>4, <2>5, <2>6 DEF FinishTurn
  <1>3. CASE PeekFrame \/ UnlockFrame
    BY <1>3 DEF PeekFrame, UnlockFrame, LockedUnskipped, ring
  <1>4. CASE UNCHANGED <<ring, clock, delivered, frameIdx>>
             /\ (gpc = "locked" <=> gpc' = "locked")
    BY <1>4 DEF LockedUnskipped, ring
  <1> QED
    BY <1>1, <1>2, <1>3, <1>4, OtherSteps
    DEF Next, GraphicsThread, VideoThread, Stopper

\* Before and after a step PendingSkips is the sum of what it should be.
LEMMA SumsOfStep ==
  ASSUME IndInv, [Next]_vars
  PROVE  /\ Skips \in [Nat -> Int] /\ PendingSkips \in Sums(Skips, CacheSize)
         /\ Skips' \in [Nat -> Int] /\ PendingSkips' \in Sums(Skips', CacheSize)
         /\ PendingSkips[CacheSize] \in Int
  <1>1. IndInv'
    BY IndStep
  <1>2. (TypeOK /\ RingInv => Skips \in [Nat -> Int]
                              /\ PendingSkips \in Sums(Skips, CacheSize))'
    BY SkipsSum, PTL
  <1>3. Skips \in [Nat -> Int] /\ PendingSkips \in Sums(Skips, CacheSize)
    BY SkipsSum DEF IndInv
  <1>4. Skips' \in [Nat -> Int] /\ PendingSkips' \in Sums(Skips, CacheSize)'
    BY <1>1, <1>2 DEF IndInv
  <1>5. Sums(Skips, CacheSize)' = Sums(Skips', CacheSize)
    BY DEF Sums, CacheSize, MAX_CACHE_SIZE
  <1>6. PendingSkips[CacheSize] \in Int
    BY <1>3, CacheSizeType, SumFacts
  <1> QED BY <1>3, <1>4, <1>5, <1>6

\* A step that leaves the skips of the waiting slots alone keeps the sum.
LEMMA SkipsKept ==
  ASSUME IndInv, [Next]_vars, \A k \in 1 .. CacheSize : Skips'[k] = Skips[k]
  PROVE  PendingSkips'[CacheSize] = PendingSkips[CacheSize]
  <1>1. PendingSkips'[CacheSize] = PendingSkips[CacheSize] + 0
    <2>1. Skips[1] \in Int /\ 1 \in 1 .. CacheSize /\ 0 \in Int /\ CacheSize \in Nat
      BY SumsOfStep, CacheSizeType
    <2>2. Skips'[1] = Skips[1] + 0
      BY <2>1
    <2> QED BY <2>1, <2>2, SumsOfStep, SumBump
  <1> QED BY <1>1, SumsOfStep

\* The places of the ring that are waiting.
LEMMA PlaceHeld ==
  ASSUME TypeOK, RingInv
  PROVE  /\ Pending \in 0 .. CacheSize
         /\ \A k \in 1 .. Pending : SlotAt(k - 1) \in Slots /\ Held(SlotAt(k - 1))
         /\ \A k \in 1 .. CacheSize : SlotAt(k - 1) = firstAdded => k = 1
         /\ \A k \in 1 .. CacheSize : \A j \in 1 .. CacheSize :
              SlotAt(k - 1) = SlotAt(j - 1) => k = j
         /\ SlotAt(0) = firstAdded
  <1>1. available \in 0 .. CacheSize /\ firstAdded \in Slots
    BY DEF TypeOK, RingInv
  <1>2. Pending \in 0 .. CacheSize
    BY <1>1, CacheSizeType DEF Pending
  <1>3. \A k \in 1 .. Pending : SlotAt(k - 1) \in Slots /\ Held(SlotAt(k - 1))
    BY <1>1, <1>2, CacheSizeType DEF SlotAt, Slots, Held
  <1>4. \A k \in 1 .. CacheSize : \A j \in 1 .. CacheSize :
          SlotAt(k - 1) = SlotAt(j - 1) => k = j
    BY <1>1, CacheSizeType DEF SlotAt, Slots
  <1>5. SlotAt(0) = firstAdded
    BY <1>1, CacheSizeType DEF SlotAt, Slots
  <1>6. \A k \in 1 .. CacheSize : SlotAt(k - 1) = firstAdded => k = 1
    BY <1>1, CacheSizeType DEF SlotAt, Slots
  <1> QED BY <1>2, <1>3, <1>4, <1>5, <1>6

\* Locking a slot adds nothing: the slot does not wait yet.
LEMMA LockSkips ==
  ASSUME IndInv, NEW c \in 1 .. MaxCount, OutputFrame(c), LockFrame(c), [Next]_vars
  PROVE  PendingSkips'[CacheSize] = PendingSkips[CacheSize]
  <1>1. TypeOK /\ RingInv
    BY DEF IndInv
  <1>2. gpc = "frame" /\ UNCHANGED <<available, firstAdded>>
    BY DEF OutputFrame
  <1>3. ~Taken(lastAdded')
    BY <1>1, <1>2, LockTaken
  <1>4. \A s \in Slots : s # lastAdded' => cache'[s] = cache[s]
    BY <1>1 DEF LockFrame, TypeOK
  <1>5. \A k \in 1 .. Pending : SlotAt(k - 1) \in Slots /\ SlotAt(k - 1) # lastAdded'
    BY <1>1, <1>3, PlaceHeld DEF Taken
  <1>6. Pending' = Pending /\ \A k : SlotAt(k)' = SlotAt(k)
    BY <1>2 DEF Pending, SlotAt
  <1>7. \A k \in 1 .. Pending :
          cache'[SlotAt(k - 1)'].skipped = cache[SlotAt(k - 1)].skipped
    BY <1>4, <1>5, <1>6
  <1>8. \A k \in 1 .. CacheSize : Skips'[k] = Skips[k]
    BY <1>6, <1>7 DEF Skips
  <1> QED BY <1>8, SkipsKept

\* Unlocking it adds a slot with no skipped ticks.
LEMMA UnlockSkips ==
  ASSUME IndInv, LockedUnskipped, UnlockFrame, [Next]_vars
  PROVE  PendingSkips'[CacheSize] = PendingSkips[CacheSize]
  <1>1. TypeOK /\ RingInv
    BY DEF IndInv
  <1>2. /\ cache' = cache /\ firstAdded' = firstAdded /\ available' = available - 1
        /\ cache[lastAdded].skipped = 0 /\ lastAdded = SlotAt(Pending)
    BY <1>1 DEF UnlockFrame, LockedUnskipped, RingInv
  <1>3. Pending' = Pending + 1 /\ Pending \in 0 .. CacheSize /\ available \in Int
        /\ \A k : SlotAt(k)' = SlotAt(k)
    BY <1>1, <1>2, CacheSizeType, PlaceHeld DEF Pending, SlotAt, TypeOK
  <1>4. ASSUME NEW k \in 1 .. CacheSize PROVE Skips'[k] = Skips[k]
    <2>1. Skips[k] = IF k =< Pending THEN cache[SlotAt(k - 1)].skipped ELSE 0
      BY <1>3 DEF Skips
    <2>2. Skips'[k] = IF k =< Pending + 1 THEN cache[SlotAt(k - 1)].skipped ELSE 0
      BY <1>2, <1>3 DEF Skips
    <2>3. k = Pending + 1 => cache[SlotAt(k - 1)].skipped = 0
      BY <1>2, <1>3
    <2> QED BY <1>3, <2>1, <2>2, <2>3
  <1> QED BY <1>4, SkipsKept

\* A tick that finds the ring full is charged to the newest slot.
LEMMA SkipSkips ==
  ASSUME IndInv, NEW c \in 1 .. MaxCount, OutputFrame(c), SkipFrame(c), [Next]_vars
  PROVE  PendingSkips'[CacheSize] = PendingSkips[CacheSize] + c
  <1>1. TypeOK /\ RingInv
    BY DEF IndInv
  <1>2. /\ available = 0 /\ gpc = "frame" /\ UNCHANGED <<available, firstAdded>>
        /\ Pending = CacheSize /\ lastAdded = SlotAt(CacheSize - 1)
    BY <1>1, CacheSizeType DEF OutputFrame, SkipFrame, Pending, RingInv
  <1>3. lastAdded \in Slots /\ cache \in [Slots -> SlotType]
    BY <1>1 DEF TypeOK
  <1>4. /\ \A s \in Slots : s # lastAdded => cache'[s] = cache[s]
        /\ cache'[lastAdded].skipped = cache[lastAdded].skipped + c
    BY <1>3 DEF SkipFrame
  <1>5. Pending' = Pending /\ \A k : SlotAt(k)' = SlotAt(k)
    BY <1>2 DEF Pending, SlotAt
  <1>6. \A k \in 1 .. CacheSize :
          /\ Skips[k] = cache[SlotAt(k - 1)].skipped
          /\ Skips'[k] = cache'[SlotAt(k - 1)].skipped
    BY <1>2, <1>5 DEF Skips
  <1>7. \A k \in 1 .. CacheSize :
          SlotAt(k - 1) \in Slots /\ (k # CacheSize => SlotAt(k - 1) # lastAdded)
    <2>1. CacheSize \in 1 .. CacheSize
      BY CacheSizeType
    <2> QED BY <1>1, <1>2, <2>1, PlaceHeld
  <1>8. \A k \in 1 .. CacheSize : k # CacheSize => Skips'[k] = Skips[k]
    BY <1>4, <1>6, <1>7
  <1>9. Skips'[CacheSize] = Skips[CacheSize] + c
    BY <1>2, <1>4, <1>6, CacheSizeType
  <1>10. CacheSize \in Nat /\ CacheSize \in 1 .. CacheSize /\ c \in Int
    BY CacheSizeType
  <1> QED BY <1>8, <1>9, <1>10, SumsOfStep, SumBump

\* A turn of the video thread moves one of them into skipped_frames, or gives
\* back a slot that has none left.
LEMMA FinishSkips ==
  ASSUME IndInv, FinishTurn, [Next]_vars
  PROVE  skippedFrames' + PendingSkips'[CacheSize]
           = skippedFrames + PendingSkips[CacheSize]
  <1>1. TypeOK /\ RingInv
    BY DEF IndInv
  <1>2. Pending > 0 /\ Pending \in 1 .. CacheSize
    BY <1>1, CacheSizeType, PlaceHeld DEF FinishTurn, IndInv, WakeupsMatchSlots
  <1>3. frameIdx = firstAdded /\ Taken(firstAdded) /\ firstAdded \in Slots
    BY <1>1, <1>2, FinishTaken DEF TypeOK
  <1>4. /\ cache[firstAdded].skipped \in Nat /\ cache[firstAdded].count \in Int
        /\ cache[firstAdded].skipped < cache[firstAdded].count
        /\ cache \in [Slots -> SlotType] /\ skippedFrames \in Nat
    BY <1>1, <1>3 DEF IndInv, SkippedBelowCount, TypeOK, SlotType
  <1>5. \A s \in Slots : s # firstAdded => cache'[s] = cache[s]
    BY <1>3, <1>4 DEF FinishTurn
  <1>6. Skips[1] = cache[firstAdded].skipped
    BY <1>1, <1>2, PlaceHeld DEF Skips
  <1>7. CASE cache[firstAdded].count # 1
    <2>1. /\ UNCHANGED <<firstAdded, available>>
          /\ cache'[firstAdded].skipped = IF cache[firstAdded].skipped > 0
               THEN cache[firstAdded].skipped - 1 ELSE cache[firstAdded].skipped
          /\ skippedFrames' = IF cache[firstAdded].skipped > 0
               THEN skippedFrames + 1 ELSE skippedFrames
      BY <1>3, <1>4, <1>7 DEF FinishTurn, SkipsNow
    <2>2. Pending' = Pending /\ \A k : SlotAt(k)' = SlotAt(k)
      BY <2>1 DEF Pending, SlotAt
    <2>3. \A k \in 1 .. CacheSize : k # 1 => Skips'[k] = Skips[k]
      <3> SUFFICES ASSUME NEW k \in 1 .. CacheSize, k # 1 PROVE Skips'[k] = Skips[k]
        OBVIOUS
      <3>1. SlotAt(k - 1) # firstAdded
        BY <1>1, PlaceHeld
      <3>2. k =< Pending => SlotAt(k - 1) \in Slots
        BY <1>1, <1>2, PlaceHeld
      <3> QED BY <1>5, <2>2, <3>1, <3>2 DEF Skips
    <2>4. Skips'[1] = cache'[firstAdded].skipped
      <3>1. SlotAt(0) = firstAdded
        BY <1>1, PlaceHeld
      <3> QED BY <1>2, <2>2, <3>1 DEF Skips
    <2>5. 1 \in 1 .. CacheSize /\ CacheSize \in Nat
      BY CacheSizeType
    <2>6. CASE cache[firstAdded].skipped > 0
      <3>1. Skips'[1] = Skips[1] + (-1)
        BY <1>4, <1>6, <2>1, <2>4, <2>6
      <3>2. PendingSkips'[CacheSize] = PendingSkips[CacheSize] + (-1)
        BY <2>3, <2>5, <3>1, SumsOfStep, SumBump
      <3> QED BY <1>4, <2>1, <2>6, <3>2, SumsOfStep
    <2>7. CASE cache[firstAdded].skipped = 0
      <3>1. Skips'[1] = Skips[1]
        BY <1>6, <2>1, <2>4, <2>7
      <3>2. PendingSkips'[CacheSize] = PendingSkips[CacheSize]
        BY <2>3, <3>1, SkipsKept
      <3> QED BY <2>1, <2>7, <3>2
    <2> QED BY <1>4, <2>6, <2>7
  <1>8. CASE cache[firstAdded].count = 1
    <2>1. /\ firstAdded' = Advance(firstAdded) /\ available' = available + 1
          /\ skippedFrames' = skippedFrames
      BY <1>3, <1>8 DEF FinishTurn, SkipsNow
    <2>2. Pending' = Pending - 1
      BY <1>1, <2>1, CacheSizeType DEF Pending, TypeOK
    <2>3. \A k \in 1 .. CacheSize - 1 : SlotAt(k - 1)' = SlotAt(k)
      BY <1>3, <2>1, CacheSizeType DEF SlotAt, Slots, Advance
    <2>4. Skips[1] = 0
      BY <1>4, <1>6, <1>8
    <2>5. Skips'[CacheSize] = 0
      BY <1>2, <2>2, CacheSizeType DEF Skips
    <2>6. \A k \in 1 .. CacheSize - 1 : Skips'[k] = Skips[k + 1]
      <3> SUFFICES ASSUME NEW k \in 1 .. CacheSize - 1 PROVE Skips'[k] = Skips[k + 1]
        OBVIOUS
      <3>1. k + 1 \in 1 .. CacheSize /\ (k + 1) - 1 = k
        BY CacheSizeType
      <3>2. Skips[k + 1] = IF k + 1 =< Pending THEN cache[SlotAt(k)].skipped ELSE 0
        BY <1>2, <3>1 DEF Skips
      <3>3. Skips'[k] = IF k + 1 =< Pending THEN cache'[SlotAt(k)].skipped ELSE 0
        BY <1>2, <2>2, <2>3 DEF Skips
      <3>4. k + 1 =< Pending => SlotAt(k) \in Slots /\ SlotAt(k) # firstAdded
        <4>1. (k + 1) - 1 = k /\ k + 1 # 1
          OBVIOUS
        <4> QED BY <1>1, <1>2, <3>1, <4>1, PlaceHeld
      <3> QED BY <1>5, <3>2, <3>3, <3>4
    <2>7. PendingSkips'[CacheSize] = PendingSkips[CacheSize]
      BY <2>4, <2>5, <2>6, CacheSizeType, SumsOfStep, SumShift
    <2> QED BY <2>1, <2>7
  <1> QED BY <1>7, <1>8

\* All the other steps leave the ring alone, and Connect what is due.
LEMMA CountedSteps ==
  ASSUME TypeOK,
         \/ GraphicsLoop \/ NoFrame \/ SemWait \/ CheckStop \/ CheckAgain
         \/ PeekFrame \/ CallInput \/ SelfDisconnect \/ ReturnInput \/ EndCalls
         \/ StopFlag \/ StopPost \/ JoinVideoThread \/ JoinGraphicsAndClose
         \/ (\E in \in Inputs : Connect(in) \/ Disconnect(in))
         \/ UNCHANGED vars
  PROVE  UNCHANGED ring /\ skipsDue' = skipsDue - (skippedFrames - skippedFrames')
  <1>1. CASE UNCHANGED <<ring, skippedFrames, skipsDue>>
    BY <1>1 DEF TypeOK
  <1>2. ASSUME NEW in \in Inputs, Connect(in)
        PROVE  UNCHANGED ring /\ skipsDue' = skipsDue - (skippedFrames - skippedFrames')
    BY <1>2 DEF Connect
  <1> QED
    BY <1>1, <1>2
    DEF GraphicsLoop, NoFrame, SemWait, CheckStop, CheckAgain, PeekFrame, CallInput,
        SelfDisconnect, ReturnInput, EndCalls, StopFlag, StopPost,
        JoinVideoThread, JoinGraphicsAndClose, Disconnect, vars, hist

\* No step loses a skipped tick or counts one twice.
LEMMA SkipsStep ==
  IndInv /\ LockedUnskipped /\ SkipsAccounted /\ [Next]_vars => SkipsAccounted'
  <1> SUFFICES ASSUME IndInv, LockedUnskipped, SkipsAccounted, [Next]_vars
               PROVE  skippedFrames' + PendingSkips'[CacheSize] = skipsDue'
    BY DEF SkipsAccounted, CacheSize, MAX_CACHE_SIZE
  <1>1. /\ skippedFrames + PendingSkips[CacheSize] = skipsDue
        /\ PendingSkips[CacheSize] \in Int /\ PendingSkips'[CacheSize] \in Int
        /\ skippedFrames \in Nat /\ skippedFrames' \in Nat /\ skipsDue \in Int
    <2>1. IndInv'
      BY IndStep
    <2>2. PendingSkips'[CacheSize] \in Int
      BY SumsOfStep, CacheSizeType, SumFacts
    <2> QED BY <2>1, <2>2, SumsOfStep DEF SkipsAccounted, IndInv, TypeOK
  <1>2. ASSUME NEW c \in 1 .. MaxCount, OutputFrame(c)
        PROVE  skippedFrames' + PendingSkips'[CacheSize] = skipsDue'
    <2>1. skippedFrames' = skippedFrames
      BY <1>2 DEF OutputFrame
    <2>2. CASE LockFrame(c)
      BY <1>1, <1>2, <2>1, <2>2, LockSkips DEF LockFrame
    <2>3. CASE SkipFrame(c)
      <3>1. skipsDue' = skipsDue + c
        BY <2>3 DEF SkipFrame
      <3> QED BY <1>1, <1>2, <2>1, <2>3, <3>1, SkipSkips
    <2> QED BY <1>2, <2>2, <2>3 DEF OutputFrame
  <1>3. CASE UnlockFrame
    <2>1. UNCHANGED <<skippedFrames, skipsDue>>
      BY <1>3 DEF UnlockFrame, hist
    <2> QED BY <1>1, <1>3, <2>1, UnlockSkips
  <1>4. CASE FinishTurn
    <2>1. skipsDue' = skipsDue
      BY <1>4 DEF FinishTurn
    <2> QED BY <1>1, <1>4, <2>1, FinishSkips
  <1>5. CASE UNCHANGED ring /\ skipsDue' = skipsDue - (skippedFrames - skippedFrames')
    <2>1. Skips' = Skips
      BY <1>5 DEF Skips, Pending, SlotAt, ring
    <2>2. PendingSkips'[CacheSize] = PendingSkips[CacheSize]
      BY <2>1, SkipsKept
    <2> QED BY <1>1, <1>5, <2>2
  <1>6. TypeOK
    BY DEF IndInv
  <1> QED
    BY <1>2, <1>3, <1>4, <1>5, <1>6, CountedSteps
    DEF Next, GraphicsThread, VideoThread, Stopper

\* skipped_frames and the skips still in the ring together are what was skipped
\* since the counter was reset: no tick that video_output_lock_frame charges to a
\* full ring is lost or counted twice, whatever the size of the ring.
THEOREM SkipsAccountedCorrect == Spec => []SkipsAccounted
  <1>1. Init => LockedUnskipped /\ SkipsAccounted
    <2> SUFFICES ASSUME Init PROVE SkipsAccounted
      BY DEF Init, LockedUnskipped
    <2>1. IndInv
      BY IndInit
    <2>2. Skips \in [Nat -> Int] /\ PendingSkips \in Sums(Skips, CacheSize)
      BY <2>1, SkipsSum DEF IndInv
    <2>3. \A k \in Nat : Skips[k] = 0
      BY CacheSizeType DEF Skips, Pending, Init
    <2>4. PendingSkips[CacheSize] = 0
      <3> DEFINE T == {m \in Nat : m =< CacheSize => PendingSkips[m] = 0}
      <3>1. 0 \in T
        BY <2>2, CacheSizeType, SumFacts
      <3>2. ASSUME NEW m \in Nat, m \in T PROVE m + 1 \in T
        <4> SUFFICES ASSUME m + 1 =< CacheSize PROVE PendingSkips[m + 1] = 0
          OBVIOUS
        <4>1. PendingSkips[m + 1] = PendingSkips[m] + Skips[m + 1]
          BY <2>2, CacheSizeType, SumFacts
        <4> QED BY <2>3, <3>2, <4>1, CacheSizeType
      <3> HIDE DEF T
      <3>3. CacheSize \in T
        BY <3>1, <3>2, SetInduction, CacheSizeType
      <3> QED BY <3>3, CacheSizeType DEF T
    <2> QED BY <2>4 DEF Init, SkipsAccounted
  <1>2. IndInv /\ LockedUnskipped /\ SkipsAccounted /\ [Next]_vars
          => LockedUnskipped' /\ SkipsAccounted'
    BY LockedStep, SkipsStep
  <1> QED BY <1>1, <1>2, Inductive, PTL DEF Spec

\* A turn of the video thread delivers the tick TickQueue says is next.
LEMMA DeliverStep ==
  ASSUME IndInv, FinishTurn
  PROVE  Ticks!Deliver
  <1>1. Pending > 0
    BY DEF FinishTurn, IndInv, WakeupsMatchSlots
  <1>2. /\ frameIdx = firstAdded /\ Taken(firstAdded) /\ firstAdded \in Slots
    BY <1>1, FinishTaken DEF IndInv, TypeOK
  <1>3. cache[firstAdded] \in SlotType /\ clock \in Nat
    BY <1>2 DEF IndInv, TypeOK
  <1>4. /\ delivered = cache[firstAdded].ts
        /\ cache[firstAdded].ts + cache[firstAdded].count =< clock
        /\ cache[firstAdded].skipped < cache[firstAdded].count
    BY <1>2 DEF IndInv, TickInv, SkippedBelowCount
  <1>5. delivered' = cache[firstAdded].ts + 1 /\ clock' = clock
    BY <1>2 DEF FinishTurn
  <1>6. QED BY <1>3, <1>4, <1>5 DEF Ticks!Deliver, SlotType

\* The ring implements the queue of ticks: every connected consumer sees each
\* timestamp once and in order, whether or not frames were skipped.
THEOREM Refinement == Spec => ImplementsTickQueue
  <1>1. Init => Ticks!Init
    BY DEF Init, Ticks!Init
  <1>2. IndInv /\ [Next]_vars => [Ticks!Next]_<<clock, delivered>>
    <2> SUFFICES ASSUME IndInv, [Next]_vars
                 PROVE  Ticks!Next \/ UNCHANGED <<clock, delivered>>
      OBVIOUS
    <2>1. ASSUME NEW c \in 1 .. MaxCount, OutputFrame(c) PROVE Ticks!Hand
      <3>1. clock \in Nat /\ c \in Nat \ {0}
        BY TickAssumption DEF IndInv, TypeOK
      <3>2. clock' = clock + c /\ UNCHANGED delivered
        BY <2>1 DEF OutputFrame
      <3>3. QED BY <3>1, <3>2 DEF Ticks!Hand
    <2>2. CASE FinishTurn
      BY <2>2, DeliverStep DEF Ticks!Next
    <2>3. CASE PeekFrame \/ UnlockFrame
      BY <2>3 DEF PeekFrame, UnlockFrame, hist
    <2>4. QED
      BY <2>1, <2>2, <2>3, OtherSteps
      DEF Next, GraphicsThread, VideoThread, Stopper, Ticks!Next
  <1>3. QED BY <1>1, <1>2, Inductive, PTL DEF Spec, ImplementsTickQueue, Ticks!Spec

-----------------------------------------------------------------------------
(* The callbacks: which inputs the loop of video_output_cur_frame calls    *)
(* while callbacks erase entries of the array it walks, and that no        *)
(* callback runs once the video thread was joined.                         *)

(* How many entries of the array the loop has come past; the one whose     *)
(* callback is running counts.                                             *)
Behind == IF calling = NoInput THEN inputIdx - 1 ELSE inputIdx

Passed(seq, n) == {seq[i] : i \in {j \in 1 .. Len(seq) : j =< n}}

(* Connected inputs that this frame will not be offered to any more.       *)
SteppedOver == Passed(inputs, Behind) \ offered

CallsInv ==
  /\ vpc # "call" => calling = NoInput
  /\ CalledIsConnected
  /\ vpc = "call" =>
       IsFiniteSet(SteppedOver) /\ Cardinality(SteppedOver) =< erased
  /\ spc \in {"joined", "closed"} => vpc = "done"
  /\ spc = "closed" => gpc = "exit"

(* Fewer stepped over and no fewer erased keeps the bound.                 *)
LEMMA FewerSteppedOver ==
  ASSUME NEW S, NEW T, NEW m \in Nat, NEW n \in Nat,
         IsFiniteSet(S), Cardinality(S) =< m, T \subseteq S, m =< n
  PROVE  IsFiniteSet(T) /\ Cardinality(T) =< n
<1>1. IsFiniteSet(T) /\ Cardinality(T) =< Cardinality(S)
  BY FS_Subset, T \in SUBSET S
<1>2. Cardinality(S) \in Nat /\ Cardinality(T) \in Nat
  BY <1>1, FS_CardinalityType
<1> QED BY <1>1, <1>2

(* Erasing an entry moves at most one entry the loop has not reached       *)
(* behind it.                                                              *)
LEMMA ErasePassed ==
  ASSUME NEW i \in 1 .. Len(inputs), NEW n \in Nat, inputs \in Seq(Inputs)
  PROVE  Passed(Erase(i), n) \subseteq Passed(inputs, n) \cup {inputs[n + 1]}
<1> SUFFICES ASSUME NEW j \in 1 .. Len(Erase(i)), j =< n
             PROVE  Erase(i)[j] \in Passed(inputs, n) \cup {inputs[n + 1]}
  BY DEF Passed
<1>1. Len(inputs) \in Nat /\ j \in 1 .. Len(inputs) - 1
  BY DEF Erase
<1>2. Erase(i)[j] = inputs[j] \/ Erase(i)[j] = inputs[j + 1]
  BY <1>1 DEF Erase
<1>3. j \in 1 .. Len(inputs) /\ j + 1 \in 1 .. Len(inputs)
  BY <1>1
<1>4. inputs[j] \in Passed(inputs, n)
  BY <1>3 DEF Passed
<1>5. inputs[j + 1] \in Passed(inputs, n) \cup {inputs[n + 1]}
  <2>1. CASE j + 1 =< n
    BY <1>3, <2>1 DEF Passed
  <2>2. CASE j + 1 > n
    <3>1. j + 1 = n + 1
      BY <1>1, <2>2
    <3> QED BY <3>1
  <2> QED BY <1>1, <2>1, <2>2
<1> QED BY <1>2, <1>4, <1>5

LEMMA CallsInit == Init => CallsInv
  BY DEF Init, CallsInv, CalledIsConnected

(* A callback that erases its input.                                       *)
LEMMA SelfDisconnectCalls ==
  ASSUME TypeOK, CallsInv, SelfDisconnect
  PROVE  CallsInv'
<1>1. /\ vpc = "call" /\ calling \in Connected /\ calling # NoInput
      /\ vpc' = vpc /\ calling' = calling /\ inputIdx' = inputIdx
      /\ offered' = offered /\ erased' = erased + 1
      /\ spc' = spc /\ gpc' = gpc
      /\ inputs' = Erase(IndexOf(calling))
  BY InputAssumption DEF SelfDisconnect, vloop, Connected, TypeOK
<1>2. IndexOf(calling) \in 1 .. Len(inputs)
  BY <1>1 DEF Connected, IndexOf
<1>3. /\ inputIdx \in Nat /\ inputs \in Seq(Inputs) /\ erased \in Nat
  BY DEF TypeOK
<1>4. Behind = inputIdx /\ Behind' = inputIdx
  BY <1>1 DEF Behind
<1>5. SteppedOver' \subseteq SteppedOver \cup {inputs[inputIdx + 1]}
  <2>1. Passed(inputs', inputIdx)
          \subseteq Passed(inputs, inputIdx) \cup {inputs[inputIdx + 1]}
    BY <1>1, <1>2, <1>3, ErasePassed
  <2>2. SteppedOver' = Passed(inputs', inputIdx) \ offered
    BY <1>1, <1>4 DEF SteppedOver
  <2>3. SteppedOver = Passed(inputs, inputIdx) \ offered
    BY <1>4 DEF SteppedOver
  <2> QED BY <2>1, <2>2, <2>3
<1>6. IsFiniteSet(SteppedOver) /\ Cardinality(SteppedOver) =< erased
  BY <1>1 DEF CallsInv
<1>7. /\ IsFiniteSet(SteppedOver \cup {inputs[inputIdx + 1]})
      /\ Cardinality(SteppedOver \cup {inputs[inputIdx + 1]}) =< erased + 1
  <2>1. Cardinality(SteppedOver) \in Nat
    BY <1>6, FS_CardinalityType
  <2>2. /\ IsFiniteSet(SteppedOver \cup {inputs[inputIdx + 1]})
        /\ Cardinality(SteppedOver \cup {inputs[inputIdx + 1]})
             \in {Cardinality(SteppedOver), Cardinality(SteppedOver) + 1}
    BY <1>6, FS_AddElement
  <2> QED BY <1>3, <1>6, <2>1, <2>2
<1>8. IsFiniteSet(SteppedOver') /\ Cardinality(SteppedOver') =< erased + 1
  BY <1>3, <1>5, <1>7, FewerSteppedOver
<1>9. CalledIsConnected'
  BY <1>1, <1>3 DEF CalledIsConnected
<1> QED BY <1>1, <1>8, <1>9 DEF CallsInv

LEMMA CallsStep == TypeOK /\ CallsInv /\ [Next]_vars => CallsInv'
<1> SUFFICES ASSUME TypeOK, CallsInv, [Next]_vars PROVE CallsInv'
  OBVIOUS
<1>0. inputIdx \in Nat \ {0} /\ erased \in Nat /\ inputs \in Seq(Inputs)
  BY DEF TypeOK
<1>1. ASSUME UNCHANGED <<inputs, calling, inputIdx, offered, erased>>,
             vpc' = "call" => vpc = "call",
             vpc' = "call" \/ calling = NoInput,
             spc' \in {"joined", "closed"} => vpc' = "done",
             spc' = "closed" => gpc' = "exit"
      PROVE  CallsInv'
  <2>1. Behind' = Behind /\ SteppedOver' = SteppedOver
    BY <1>1 DEF Behind, SteppedOver
  <2>2. CalledIsConnected'
    BY <1>1 DEF CallsInv, CalledIsConnected, Connected
  <2> QED BY <1>1, <2>1, <2>2 DEF CallsInv
<1>2. CASE GraphicsThread
  <2>1. /\ UNCHANGED <<inputs, vloop, spc, offered, erased>>
        /\ gpc = "exit" => gpc' = "exit"
    BY <1>2 DEF GraphicsThread, GraphicsLoop, NoFrame, OutputFrame, LockFrame,
                SkipFrame, UnlockFrame, hist
  <2> QED BY <1>1, <2>1 DEF CallsInv, vloop
<1>3. CASE SemWait \/ CheckStop \/ CheckAgain \/ EndCalls \/ FinishTurn
  <2>1. /\ UNCHANGED <<inputs, calling, inputIdx, offered, erased, spc, gpc>>
        /\ vpc # "done" /\ vpc' # "call"
        /\ calling = NoInput
    BY <1>3 DEF SemWait, CheckStop, CheckAgain, EndCalls, FinishTurn, CallsInv,
                hist
  <2> QED BY <1>1, <2>1 DEF CallsInv
<1>4. CASE PeekFrame
  <2>1. /\ vpc = "peek" /\ vpc' = "call" /\ calling' = calling
        /\ inputIdx' = 1 /\ spc' = spc /\ gpc' = gpc
    BY <1>4 DEF PeekFrame
  <2>2. calling' = NoInput
    BY <2>1 DEF CallsInv
  <2>3. SteppedOver' = {}
    <3>1. Behind' = 0
      BY <2>1, <2>2 DEF Behind
    <3> QED BY <3>1 DEF SteppedOver, Passed
  <2>4. IsFiniteSet(SteppedOver') /\ Cardinality(SteppedOver') =< erased'
    BY <1>4, <2>3, FS_EmptySet DEF PeekFrame
  <2> QED BY <2>1, <2>2, <2>4 DEF CallsInv, CalledIsConnected
<1>5. CASE CallInput
  <2>1. /\ vpc = "call" /\ vpc' = vpc /\ calling = NoInput
        /\ inputs' = inputs /\ erased' = erased /\ spc' = spc /\ gpc' = gpc
        /\ inputIdx \in 1 .. Len(inputs)
        /\ offered' = offered \cup {inputs[inputIdx]}
    BY <1>0, <1>5 DEF CallInput
  <2>2. calling' = inputs[inputIdx] \/ calling' = NoInput
    BY <1>5, <2>1 DEF CallInput
  <2>3. CalledIsConnected'
    BY <2>1, <2>2 DEF CalledIsConnected, Connected
  <2>4. /\ Behind = inputIdx - 1
        /\ Behind' \in Int /\ Behind' =< inputIdx
    <3>1. inputs[inputIdx] # NoInput
      BY <1>0, <2>1, InputAssumption
    <3> QED BY <1>0, <1>5, <2>1, <3>1 DEF CallInput, Behind
  <2>5. SteppedOver' \subseteq SteppedOver
    <3> SUFFICES ASSUME NEW j \in 1 .. Len(inputs), j =< inputIdx,
                        inputs[j] \notin offered'
                 PROVE  inputs[j] \in SteppedOver
      BY <1>0, <2>1, <2>4 DEF SteppedOver, Passed
    <3>1. j # inputIdx /\ inputs[j] \notin offered
      BY <2>1
    <3>2. j =< Behind
      BY <1>0, <2>4, <3>1
    <3> QED BY <3>1, <3>2 DEF SteppedOver, Passed
  <2>6. IsFiniteSet(SteppedOver') /\ Cardinality(SteppedOver') =< erased'
    BY <1>0, <2>1, <2>5, FewerSteppedOver DEF CallsInv
  <2> QED BY <2>1, <2>3, <2>6 DEF CallsInv
<1>6. CASE SelfDisconnect
  BY <1>6, SelfDisconnectCalls
<1>7. CASE ReturnInput
  <2>1. /\ vpc = "call" /\ vpc' = vpc /\ calling # NoInput /\ calling' = NoInput
        /\ inputIdx' = inputIdx + 1
        /\ UNCHANGED <<inputs, offered, erased, spc, gpc>>
    BY <1>7 DEF ReturnInput, hist
  <2>2. Behind' = Behind /\ SteppedOver' = SteppedOver
    BY <1>0, <2>1 DEF Behind, SteppedOver
  <2> QED BY <2>1, <2>2 DEF CallsInv, CalledIsConnected
<1>8. ASSUME NEW in \in Inputs, Connect(in) \/ Disconnect(in) PROVE CallsInv'
  <2>1. /\ vpc # "call" /\ UNCHANGED <<vpc, calling, spc, gpc>>
    BY <1>8 DEF Connect, Disconnect, InputMutexFree, vloop
  <2> QED BY <2>1 DEF CallsInv, CalledIsConnected
<1>9. CASE StopFlag \/ StopPost \/ JoinVideoThread
  <2>1. /\ UNCHANGED <<inputs, vloop, offered, erased, gpc>>
        /\ spc' \in {"joined", "closed"} => vpc = "done"
        /\ spc' # "closed"
    BY <1>9 DEF StopFlag, StopPost, JoinVideoThread, hist
  <2> QED BY <1>1, <2>1 DEF CallsInv, vloop
<1>10. CASE JoinGraphicsAndClose
  <2>1. /\ spc = "joined" /\ gpc = "exit" /\ UNCHANGED <<vpc, calling, gpc>>
    BY <1>10 DEF JoinGraphicsAndClose, vloop
  <2> QED BY <2>1 DEF CallsInv, CalledIsConnected
<1>11. CASE UNCHANGED vars
  BY <1>1, <1>11 DEF vars, vloop, hist, CallsInv
<1> QED BY <1>2, <1>3, <1>4, <1>5, <1>6, <1>7, <1>8, <1>9, <1>10, <1>11
        DEF Next, VideoThread, Stopper

LEMMA CallsInductive == Spec => []CallsInv
<1> QED BY CallsInit, CallsStep, TypeCorrect, PTL DEF Spec

-----------------------------------------------------------------------------
(* video_output_disconnect waits for the callbacks of the current frame    *)
(* (input_mutex): a disconnected input is not called, unless it            *)
(* disconnected itself.                                                    *)
THEOREM CalledIsConnectedCorrect == Spec => []CalledIsConnected
<1>1. CallsInv => CalledIsConnected
  BY DEF CallsInv
<1> QED BY <1>1, CallsInductive, PTL

(* Each callback that erases itself from video->inputs makes the loop of   *)
(* video_output_cur_frame step over at most one other input.               *)
THEOREM OfferedToAllCorrect == Spec => []OfferedToAll
<1>1. TypeOK /\ CallsInv => OfferedToAll
  <2> SUFFICES ASSUME TypeOK, CallsInv, vpc = "call", calling = NoInput,
                      inputIdx > Len(inputs)
               PROVE  Cardinality(Connected \ offered) =< erased
    BY DEF OfferedToAll
  <2>1. Behind = inputIdx - 1 /\ inputIdx \in Nat /\ erased \in Nat
    BY DEF Behind, TypeOK
  <2>2. Connected \ offered \subseteq SteppedOver
    BY <2>1 DEF Connected, SteppedOver, Passed, TypeOK
  <2> QED BY <2>1, <2>2, FewerSteppedOver DEF CallsInv
<1> QED BY <1>1, TypeCorrect, CallsInductive, PTL

(* video_output_stop joins the video thread and stop_video the graphics    *)
(* thread before video_output_close frees what they use.                   *)
THEOREM NoUseAfterCloseCorrect == Spec => []NoUseAfterClose
<1>1. CallsInv => NoUseAfterClose
  BY DEF CallsInv, NoUseAfterClose
<1> QED BY <1>1, CallsInductive, PTL
=============================================================================
