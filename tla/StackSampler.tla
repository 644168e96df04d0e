---------------------------- MODULE StackSampler ----------------------------
(***************************************************************************)
(* The stack sampler of the block canary: StackSampler.kt.                 *)
(*                                                                         *)
(* Two threads share it.  The main thread calls startDump and stopDump     *)
(* around every message of its looper; the thread "block-canary-sampler"   *)
(* runs mRunnable, which records the main thread's stack and posts itself  *)
(* again while mShouldSample is set.  Nothing but the AtomicBoolean and    *)
(* the handler's own queue orders the two, so each access to either is a   *)
(* step of its own here.                                                   *)
(*                                                                         *)
(* Time is counted in ticks.  The clock saturates at MaxTime: a callback   *)
(* posted beyond it is due at MaxTime, so the end of the clock never stops *)
(* the sampler.                                                            *)
(***************************************************************************)
EXTENDS Naturals, Sequences

CONSTANTS
    mSampleInterval,    \* delay between two samples of one chain, in ticks
    mMaxCount,          \* how many samples mStackMap keeps (100 in the code)
    MaxTime             \* bound of the clock

ASSUME SamplerAssumption ==
    /\ mSampleInterval \in Nat \ {0}
    /\ mMaxCount \in Nat \ {0}
    /\ MaxTime \in Nat

VARIABLES
    now,            \* the clock
    mShouldSample,  \* the AtomicBoolean
    callbacks,      \* due times of mRunnable in mHandler's queue, oldest first
    mStackMap,      \* keys of the LinkedHashMap in insertion order
    mainPc,         \* where the main thread is inside startDump or stopDump
    samplerPc       \* where the sampler thread is inside mRunnable.run

samplerVars == <<now, mShouldSample, callbacks, mStackMap, mainPc, samplerPc>>

Time == 0..MaxTime

-----------------------------------------------------------------------------
(* The handler (android.os.Handler): every delay is the same and the clock *)
(* never goes back, so appending keeps the queue sorted by due time.       *)

After(t, delay) == IF t + delay <= MaxTime THEN t + delay ELSE MaxTime

PostDelayed(q) == Append(q, After(now, mSampleInterval))

RemoveCallbacks(q) == <<>>

(* LinkedHashMap with the eviction of mRunnable: the eldest entry goes     *)
(* when the map is full; a key that is present keeps its place.            *)
Recorded(map, t) ==
    LET kept == IF Len(map) = mMaxCount THEN Tail(map) ELSE map
    IN  IF \E i \in DOMAIN kept : kept[i] = t THEN kept ELSE Append(kept, t)

-----------------------------------------------------------------------------
SamplerInit ==
    /\ now = 0
    /\ mShouldSample = FALSE
    /\ callbacks = <<>>
    /\ mStackMap = <<>>
    /\ mainPc = "idle"
    /\ samplerPc = "idle"

Tick ==
    /\ now < MaxTime
    /\ now' = now + 1
    /\ UNCHANGED <<mShouldSample, callbacks, mStackMap, mainPc, samplerPc>>

(* startDump.  Only the main thread writes mShouldSample, so the get and   *)
(* the set that follows it are one step.                                   *)
StartDump ==
    /\ mainPc = "idle"
    /\ \/ mShouldSample /\ UNCHANGED <<mShouldSample, mainPc>>
       \/ ~mShouldSample /\ mShouldSample' = TRUE /\ mainPc' = "startRemove"
    /\ UNCHANGED <<now, callbacks, mStackMap, samplerPc>>

(* Mutant: posts first and removes afterwards.                             *)
StartRemovesAfterPosting ==
    /\ mainPc = "startRemove"
    /\ callbacks' = PostDelayed(callbacks)
    /\ mainPc' = "stopRemove"
    /\ UNCHANGED <<now, mShouldSample, mStackMap, samplerPc>>

StartRemoves ==
    /\ mainPc = "startRemove"
    /\ callbacks' = RemoveCallbacks(callbacks)
    /\ mainPc' = "startPost"
    /\ UNCHANGED <<now, mShouldSample, mStackMap, samplerPc>>

StartPosts ==
    /\ mainPc = "startPost"
    /\ callbacks' = PostDelayed(callbacks)
    /\ mainPc' = "idle"
    /\ UNCHANGED <<now, mShouldSample, mStackMap, samplerPc>>

(* stopDump.                                                               *)
StopDump ==
    /\ mainPc = "idle"
    /\ \/ ~mShouldSample /\ UNCHANGED <<mShouldSample, mainPc>>
       \/ mShouldSample /\ mShouldSample' = FALSE /\ mainPc' = "stopRemove"
    /\ UNCHANGED <<now, callbacks, mStackMap, samplerPc>>

(* Mutant: stopDump only clears the flag.                                  *)
StopRemovesNothing ==
    /\ mainPc = "stopRemove"
    /\ mainPc' = "idle"
    /\ UNCHANGED <<now, mShouldSample, callbacks, mStackMap, samplerPc>>

StopRemoves ==
    /\ mainPc = "stopRemove"
    /\ callbacks' = RemoveCallbacks(callbacks)
    /\ mainPc' = "idle"
    /\ UNCHANGED <<now, mShouldSample, mStackMap, samplerPc>>

(* mRunnable on the sampler thread: the looper hands it over, it reads the *)
(* main thread's stack, records it under the lock of mStackMap, reads      *)
(* mShouldSample and, if that was set, posts itself.                       *)
RunTaken ==
    /\ samplerPc = "idle"
    /\ callbacks # <<>>
    /\ Head(callbacks) <= now
    /\ callbacks' = Tail(callbacks)
    /\ samplerPc' = "record"
    /\ UNCHANGED <<now, mShouldSample, mStackMap, mainPc>>

RunRecords ==
    /\ samplerPc = "record"
    /\ mStackMap' = Recorded(mStackMap, now)
    /\ samplerPc' = "check"
    /\ UNCHANGED <<now, mShouldSample, callbacks, mainPc>>

(* Mutant: posts the next sample without looking at mShouldSample.         *)
RunChecksNothing ==
    /\ samplerPc = "check"
    /\ samplerPc' = "post"
    /\ UNCHANGED <<now, mShouldSample, callbacks, mStackMap, mainPc>>

RunChecks ==
    /\ samplerPc = "check"
    /\ samplerPc' = IF mShouldSample THEN "post" ELSE "idle"
    /\ UNCHANGED <<now, mShouldSample, callbacks, mStackMap, mainPc>>

RunPosts ==
    /\ samplerPc = "post"
    /\ callbacks' = PostDelayed(callbacks)
    /\ samplerPc' = "idle"
    /\ UNCHANGED <<now, mShouldSample, mStackMap, mainPc>>

MainStep == StartRemoves \/ StartPosts \/ StopRemoves
RunStep == RunTaken \/ RunRecords \/ RunChecks \/ RunPosts

SamplerNext == Tick \/ StartDump \/ StopDump \/ MainStep \/ RunStep

SamplerSafety == SamplerInit /\ [][SamplerNext]_samplerVars

(* Both threads keep running and time passes; nobody has to call startDump *)
(* or stopDump.                                                            *)
SamplerSpec ==
    /\ SamplerSafety
    /\ WF_samplerVars(Tick)
    /\ WF_samplerVars(MainStep)
    /\ WF_samplerVars(RunStep)

-----------------------------------------------------------------------------
SamplerTypeOK ==
    /\ now \in Time
    /\ mShouldSample \in BOOLEAN
    /\ callbacks \in Seq(Time)
    /\ mStackMap \in Seq(Time)
    /\ mainPc \in {"idle", "startRemove", "startPost", "stopRemove"}
    /\ samplerPc \in {"idle", "record", "check", "post"}

(* A chain of samples is a pending callback, or a run that may still post  *)
(* the next one.                                                           *)
InFlight == IF samplerPc = "idle" THEN 0 ELSE 1
Chains == Len(callbacks) + InFlight

(* removeCallbacks in startDump and stopDump bounds what a run that is     *)
(* racing with them can leave behind: however start and stop follow each   *)
(* other, at most two chains of samples ever run at once.  Two there can   *)
(* be, for all that startDump's test is there to "avoid starting twice": a *)
(* run that is under way across a stop and the next start posts a second   *)
(* callback.                                                               *)
AtMostTwoChains == Chains <= 2

(* Once stopDump has returned, at most one run is still to come: the one   *)
(* that had read mShouldSample before it was cleared.                      *)
OneStrayAfterStop == ~mShouldSample /\ mainPc = "idle" => Chains <= 1

(* Sampling never dies while it is on: after startDump has returned, a     *)
(* callback is pending or a run is under way that will post one.           *)
SamplingStaysAlive ==
    mShouldSample /\ mainPc = "idle" => callbacks # <<>> \/ samplerPc # "idle"

(* mStackMap keeps at most mMaxCount samples, in time order, so its first  *)
(* key, the one mRunnable evicts, is the oldest sample.                    *)
StacksBoundedInOrder ==
    /\ Len(mStackMap) <= mMaxCount
    /\ \A i, j \in DOMAIN mStackMap : i < j => mStackMap[i] < mStackMap[j]

(* If sampling is stopped for good, the sampler thread comes to rest.      *)
StoppedSamplerRests ==
    <>[](~mShouldSample /\ mainPc = "idle")
        => <>[](callbacks = <<>> /\ samplerPc = "idle")
=============================================================================
