-------------------------- MODULE NodeAccessProofs --------------------------
(***************************************************************************)
(* Proofs about the two ways the engine reaches its node.                  *)
(*                                                                         *)
(* LatestScheduler and HeadStream, for every number of blocks, endpoints,  *)
(* sessions and buffer places: the scheduler by itself keeps its inductive *)
(* invariant SchedulerInv and implements HeadFeed; the websocket client    *)
(* and the select loop use it as LatestScheduler describes it, so all that *)
(* is proved of it holds of the composition; and no head is emitted twice. *)
(*                                                                         *)
(* RpcClient, for every pool of providers, every set of callers and every  *)
(* request they may make: a signed transaction is put on the wire at most  *)
(* once, a call takes the provider it should, and the minute budgets and   *)
(* the cooldowns stay within their limits.                                 *)
(***************************************************************************)
EXTENDS HeadStream, RpcClient, SequenceTheorems, WellFoundedInduction, TLAPS

-----------------------------------------------------------------------------
(* The scheduler.                                                          *)


\* What the handler had is older than the slot, which is older than what
\* Submit is about to store.
HeadsOrdered ==
    /\ pending # None => handling < pending
    /\ subPc = "store" => pending < latest /\ handling < latest

SchedulerInv == SchedulerTypeOK /\ NoLostWakeup /\ NewestKept /\ Accounted /\ HeadsOrdered

LEMMA StepAfterValues ==
    StepAfter["idle"] = "store" /\ StepAfter["store"] = "wake" /\ StepAfter["wake"] = "idle"
  BY DEF StepAfter

LEMMA SubmitBeginInv ==
    ASSUME SchedulerInv, NEW b \in 1..MaxBlock, SubmitBegin(b)
    PROVE  SchedulerInv'
<1> USE DEF SchedulerInv, SchedulerTypeOK, SubmitBegin, runVars, None
<1>1. CASE ~IsNewer(b)
  BY <1>1 DEF NoLostWakeup, NewestKept, Accounted, HeadsOrdered
<1>2. CASE IsNewer(b)
  <2>0. b > latest /\ subPc = "idle" /\ subPc' = "store" /\ latest' = b /\ trigger' = b
    BY <1>2, StepAfterValues DEF IsNewer
  <2>1. SchedulerTypeOK'
    BY <1>2, <2>0, MaxBlockAssumption
  <2>2. NoLostWakeup' /\ NewestKept'
    BY <1>2, <2>0 DEF NoLostWakeup, NewestKept
  <2>3. Accounted'
    BY <1>2, <2>0 DEF Accounted
  <2>4. HeadsOrdered'
    BY <1>2, <2>0, MaxBlockAssumption DEF HeadsOrdered
  <2> QED
    BY <2>1, <2>2, <2>3, <2>4
<1> QED
  BY <1>1, <1>2

LEMMA SubmitInv ==
    ASSUME SchedulerInv, Submit
    PROVE  SchedulerInv'
<1> USE DEF SchedulerInv, SchedulerTypeOK, runVars, None
<1>1. CASE SubmitStore
  <2>0. subPc = "store" /\ subPc' = "wake" /\ pending' = latest /\ trigger = latest
    BY <1>1, StepAfterValues DEF SubmitStore, SlotAfterStore, NewestKept
  <2>1. SchedulerTypeOK'
    BY <1>1, <2>0 DEF SubmitStore, Replaced
  <2>2. NoLostWakeup' /\ NewestKept' /\ HeadsOrdered'
    BY <1>1, <2>0 DEF SubmitStore, NoLostWakeup, NewestKept, HeadsOrdered
  <2>3. Accounted'
    BY <1>1, <2>0 DEF SubmitStore, Replaced, Accounted, HeadsOrdered
  <2> QED
    BY <2>1, <2>2, <2>3
<1>2. CASE SubmitWake
  BY <1>2, StepAfterValues DEF SubmitWake, NoLostWakeup, NewestKept, Accounted, HeadsOrdered
<1> QED
  BY <1>1, <1>2 DEF Submit

LEMMA RunInv ==
    ASSUME SchedulerInv, Run
    PROVE  SchedulerInv'
<1> USE DEF SchedulerInv, SchedulerTypeOK, submitVars, None
<1>1. CASE RunWake
  BY <1>1 DEF RunWake, NoLostWakeup, NewestKept, Accounted, HeadsOrdered
<1>2. CASE Take
  <2>1. CASE pending = None
    BY <1>2, <2>1 DEF Take, NoLostWakeup, NewestKept, Accounted, HeadsOrdered
  <2>2. CASE pending # None
    BY <1>2, <2>2 DEF Take, NoLostWakeup, NewestKept, Accounted, HeadsOrdered
  <2> QED
    BY <2>1, <2>2
<1>3. CASE HandlerReturns
  BY <1>3 DEF HandlerReturns, NoLostWakeup, NewestKept, Accounted, HeadsOrdered
<1> QED
  BY <1>1, <1>2, <1>3 DEF Run

LEMMA SchedulerInvStep == SchedulerInv /\ [SchedulerNext]_schedulerVars => SchedulerInv'
<1> SUFFICES ASSUME SchedulerInv, [SchedulerNext]_schedulerVars PROVE SchedulerInv' OBVIOUS
<1>1. CASE UNCHANGED schedulerVars
  BY <1>1 DEF schedulerVars, submitVars, runVars, SchedulerInv, SchedulerTypeOK, NoLostWakeup,
     NewestKept, Accounted, HeadsOrdered
<1> QED
  BY <1>1, SubmitBeginInv, SubmitInv, RunInv DEF SchedulerNext

LEMMA SchedulerInvAlways == SchedulerSpec => []SchedulerInv
<1>1. SchedulerInit => SchedulerInv
  <2> SUFFICES ASSUME SchedulerInit PROVE SchedulerInv OBVIOUS
  <2>1. SchedulerTypeOK
    <3>1. latest \in 0..MaxBlock /\ pending \in 0..latest /\ trigger \in 0..latest
      BY MaxBlockAssumption DEF SchedulerInit, None
    <3>2. handling \in 0..latest /\ coalesced \in Nat /\ accepted \in Nat /\ started \in Nat
      BY DEF SchedulerInit
    <3> QED
      BY <3>1, <3>2 DEF SchedulerInit, SchedulerTypeOK
  <2>2. NoLostWakeup /\ NewestKept /\ HeadsOrdered
    BY DEF SchedulerInit, NoLostWakeup, NewestKept, HeadsOrdered, None
  <2>3. Accounted
    BY DEF SchedulerInit, Accounted, None
  <2> QED
    BY <2>1, <2>2, <2>3 DEF SchedulerInv
<1> QED
  BY <1>1, SchedulerInvStep, PTL DEF SchedulerSpec

\* Submit and Run cannot both go to sleep with a head in the slot: wherever
\* Submit is between its store and its non-blocking send, Run is awake, has a
\* token, or gets one.
THEOREM NoWakeupLost == SchedulerSpec => []NoLostWakeup
  BY SchedulerInvAlways, PTL DEF SchedulerInv

\* Coalescing never loses the newest head.
THEOREM NewestIsKept == SchedulerSpec => []NewestKept
  BY SchedulerInvAlways, PTL DEF SchedulerInv

\* blocks_coalesced counts exactly the accepted heads no handler saw.
THEOREM CoalescedIsExact == SchedulerSpec => []Accounted
  BY SchedulerInvAlways, PTL DEF SchedulerInv

\* latest.go implements HeadFeed: its handler sees strictly increasing heads,
\* each accepted before, and no step of it is anything else.
THEOREM SchedulerImplementsFeed == SchedulerSpec => ImplementsFeed
<1>1. SchedulerInit => Feed!Init
  BY DEF SchedulerInit, Feed!Init
<1>2. SchedulerInv /\ [SchedulerNext]_schedulerVars => [Feed!Next]_Feed!feedVars
  <2> SUFFICES ASSUME SchedulerInv, [SchedulerNext]_schedulerVars
               PROVE  [Feed!Next]_Feed!feedVars
    OBVIOUS
  <2> USE DEF Feed!feedVars
  <2>1. ASSUME NEW b \in 1..MaxBlock, SubmitBegin(b) PROVE [Feed!Next]_Feed!feedVars
    BY <2>1, MaxBlockAssumption
    DEF SubmitBegin, IsNewer, runVars, Feed!Next, Feed!Observe, SchedulerInv, SchedulerTypeOK
  <2>2. CASE Take
    BY <2>2 DEF Take, Feed!Next, Feed!Handle, SchedulerInv, SchedulerTypeOK, HeadsOrdered, None
  <2>3. CASE UNCHANGED schedulerVars \/ Submit \/ RunWake \/ HandlerReturns
    BY <2>3 DEF schedulerVars, runVars, Submit, SubmitStore, SubmitWake, RunWake, HandlerReturns
  <2> QED
    BY <2>1, <2>2, <2>3 DEF SchedulerNext, Run
<1> QED
  BY <1>1, <1>2, SchedulerInvAlways, PTL DEF SchedulerSpec, ImplementsFeed, Feed!Spec

-----------------------------------------------------------------------------
(* The head stream.                                                        *)


\* Every head on its way to the scheduler passed the check of lastBlock.
HeadsTyped ==
    /\ chainHead \in 0..MaxBlock /\ lastBlock \in 0..MaxBlock
    /\ readerBlock \in [Sessions -> Nat]
    /\ readerPc \in [Sessions -> {"off", "read", "emit"}]
    /\ \A s \in Sessions : readerPc[s] = "emit" => readerBlock[s] \in 1..lastBlock
    /\ events \in Seq(1..MaxBlock)
    /\ \A i \in DOMAIN events : events[i] <= lastBlock

StreamInv == HeadsTyped /\ NoDuplicateHead

\* A step that leaves readers and channel alone.
LEMMA StreamFrame ==
    ASSUME StreamInv, chainHead' \in 0..MaxBlock, UNCHANGED <<readerVars, events>>
    PROVE  StreamInv'
  BY DEF StreamInv, HeadsTyped, NoDuplicateHead, readerVars

LEMMA ReadHeadInv ==
    ASSUME StreamInv, NEW s \in Sessions, NEW b \in 1..MaxBlock, ReadHead(s, b)
    PROVE  StreamInv'
<1>1. /\ readerBlock'[s] = b /\ readerPc'[s] = "emit" /\ lastBlock' = b
      /\ \A r \in Sessions \ {s} : readerBlock'[r] = readerBlock[r] /\ readerPc'[r] = readerPc[r]
  BY DEF ReadHead, StreamInv, HeadsTyped
<1>2. b > lastBlock /\ lastBlock \in Nat /\ UNCHANGED <<events, chainHead>>
  BY MaxBlockAssumption DEF ReadHead, IsNewHead, StreamInv, HeadsTyped
<1>3. \A r \in Sessions \ {s} : readerPc[r] = "emit" => readerBlock[r] \in 1..lastBlock
  BY DEF StreamInv, HeadsTyped
<1>4. \A i \in DOMAIN events : events[i] \in Nat /\ events[i] <= lastBlock
  BY MaxBlockAssumption DEF StreamInv, HeadsTyped
<1>5. HeadsTyped'
  <2>1. /\ readerBlock' \in [Sessions -> Nat]
        /\ readerPc' \in [Sessions -> {"off", "read", "emit"}]
    BY MaxBlockAssumption DEF ReadHead, StreamInv, HeadsTyped
  <2>2. \A r \in Sessions : readerPc'[r] = "emit" => readerBlock'[r] \in 1..lastBlock'
    BY <1>1, <1>2, <1>3
  <2>3. \A i \in DOMAIN events' : events'[i] <= lastBlock'
    BY <1>1, <1>2, <1>4
  <2> QED
    BY <1>1, <1>2, <2>1, <2>2, <2>3 DEF StreamInv, HeadsTyped
<1>6. NoDuplicateHead'
  <2>1. \A r \in Sessions \ {s} : readerPc'[r] = "emit" => readerBlock'[r] # b
    BY <1>1, <1>2, <1>3
  <2>2. \A i \in DOMAIN events : events[i] # b
    BY <1>2, <1>4
  <2> QED
    BY <1>1, <1>2, <2>1, <2>2 DEF StreamInv, NoDuplicateHead
<1> QED
  BY <1>5, <1>6 DEF StreamInv

LEMMA EmitHeadInv ==
    ASSUME StreamInv, NEW s \in Sessions, EmitHead(s)
    PROVE  StreamInv'
<1> DEFINE n == Len(events)
<1>1. /\ readerPc'[s] = "read" /\ UNCHANGED <<readerBlock, lastBlock, chainHead>>
      /\ \A r \in Sessions \ {s} : readerPc'[r] = readerPc[r]
  BY DEF EmitHead, StreamInv, HeadsTyped
<1>2. readerBlock[s] \in 1..lastBlock /\ readerBlock[s] \in 1..MaxBlock
  BY MaxBlockAssumption DEF EmitHead, StreamInv, HeadsTyped
<1>3. /\ events' \in Seq(1..MaxBlock) /\ DOMAIN events' = 1..(n + 1) /\ DOMAIN events = 1..n
      /\ n \in Nat /\ events'[n + 1] = readerBlock[s] /\ \A i \in 1..n : events'[i] = events[i]
  BY <1>2 DEF EmitHead, StreamInv, HeadsTyped
<1>4. HeadsTyped'
  <2>1. readerPc' \in [Sessions -> {"off", "read", "emit"}]
    BY DEF EmitHead, StreamInv, HeadsTyped
  <2>2. \A i \in DOMAIN events' : events'[i] <= lastBlock'
    <3>1. readerBlock[s] <= lastBlock
      BY <1>2 DEF StreamInv, HeadsTyped
    <3>2. \A i \in 1..n : events[i] <= lastBlock
      BY <1>3 DEF StreamInv, HeadsTyped
    <3> QED
      BY <1>1, <1>3, <3>1, <3>2
  <2> QED
    BY <1>1, <1>3, <2>1, <2>2 DEF StreamInv, HeadsTyped
<1>5. NoDuplicateHead'
  <2>1. readerPc[s] = "emit"
    BY DEF EmitHead
  <2>2. \A i \in 1..n : events[i] # readerBlock[s]
    BY <1>3, <2>1 DEF StreamInv, NoDuplicateHead
  <2>3. \A i, j \in DOMAIN events' : i # j => events'[i] # events'[j]
    <3>1. \A i, j \in 1..n : i # j => events[i] # events[j]
      BY <1>3 DEF StreamInv, NoDuplicateHead
    <3> QED
      BY <1>3, <2>2, <3>1
  <2>4. \A r \in Sessions \ {s} : readerPc[r] = "emit" =>
          readerBlock[r] # readerBlock[s] /\ \A i \in 1..n : readerBlock[r] # events[i]
    BY <1>3, <2>1 DEF StreamInv, NoDuplicateHead
  <2>5. \A r \in Sessions, i \in DOMAIN events' : readerPc'[r] = "emit" => readerBlock'[r] # events'[i]
    BY <1>1, <1>3, <2>4
  <2>6. \A r, q \in Sessions : readerPc'[r] = "emit" /\ readerPc'[q] = "emit" /\ r # q =>
          readerBlock'[r] # readerBlock'[q]
    BY <1>1 DEF StreamInv, NoDuplicateHead
  <2> QED
    BY <2>3, <2>5, <2>6 DEF NoDuplicateHead
<1> QED
  BY <1>4, <1>5 DEF StreamInv

LEMMA MainEventInv ==
    ASSUME StreamInv, MainEvent
    PROVE  StreamInv' /\ Head(events) \in 1..MaxBlock
<1> DEFINE n == Len(events)
<1>1. events \in Seq(1..MaxBlock) /\ events # <<>> /\ UNCHANGED <<readerVars, chainHead>>
  BY DEF MainEvent, StreamInv, HeadsTyped
<1>2. /\ events' \in Seq(1..MaxBlock) /\ n \in Nat /\ DOMAIN events = 1..n
      /\ DOMAIN events' = 1..(n - 1) /\ \A i \in 1..(n - 1) : events'[i] = events[i + 1]
      /\ Head(events) \in 1..MaxBlock
  <2>1. events' = Tail(events)
    BY DEF MainEvent
  <2>2. /\ Head(events) \in 1..MaxBlock /\ Tail(events) \in Seq(1..MaxBlock)
        /\ Len(Tail(events)) = n - 1 /\ \A i \in 1..(n - 1) : Tail(events)[i] = events[i + 1]
    BY <1>1, HeadTailProperties
  <2>3. n \in Nat /\ DOMAIN events = 1..n /\ DOMAIN Tail(events) = 1..Len(Tail(events))
    BY <1>1, <2>2
  <2> QED
    BY <2>1, <2>2, <2>3
<1>3. \A i \in 1..(n - 1) : i + 1 \in 1..n
  BY <1>2
<1>4. HeadsTyped'
  BY <1>1, <1>2, <1>3 DEF StreamInv, HeadsTyped, readerVars
<1>5. NoDuplicateHead'
  <2>1. \A i, j \in 1..(n - 1) : i # j => i + 1 # j + 1
    BY <1>2
  <2>2. \A i, j \in DOMAIN events' : i # j => events'[i] # events'[j]
    <3>1. ASSUME NEW i \in 1..(n - 1), NEW j \in 1..(n - 1), i # j
          PROVE  events'[i] # events'[j]
      <4>1. i + 1 \in 1..n /\ j + 1 \in 1..n /\ i + 1 # j + 1
        BY <3>1, <1>3, <2>1
      <4>2. events[i + 1] # events[j + 1]
        BY <1>2, <4>1 DEF StreamInv, NoDuplicateHead
      <4> QED
        BY <1>2, <4>2
    <3> QED
      BY <1>2, <3>1
  <2>3. \A s \in Sessions, i \in DOMAIN events' : readerPc[s] = "emit" => readerBlock[s] # events'[i]
    BY <1>2, <1>3 DEF StreamInv, NoDuplicateHead
  <2> QED
    BY <1>1, <2>2, <2>3 DEF StreamInv, NoDuplicateHead, readerVars
<1> QED
  BY <1>2, <1>4, <1>5 DEF StreamInv

LEMMA StreamStep == StreamInv /\ [StreamNext]_streamVars => StreamInv'
<1> SUFFICES ASSUME StreamInv, [StreamNext]_streamVars PROVE StreamInv' OBVIOUS
<1>1. CASE NewBlock
  BY <1>1, StreamFrame, MaxBlockAssumption DEF NewBlock, StreamInv, HeadsTyped
<1>2. CASE UNCHANGED streamVars \/ (\E e \in EndpointRing : Rest(e)) \/ SchedulerStep
  BY <1>2, StreamFrame DEF streamVars, Rest, SchedulerStep, StreamInv, HeadsTyped
<1>3. CASE ChooseEndpoint \/ DialFailed \/ Disconnect
  BY <1>3, StreamFrame DEF ChooseEndpoint, DialFailed, Disconnect, StreamInv, HeadsTyped
<1>4. CASE Connect
  <2>1. /\ readerPc' \in [Sessions -> {"off", "read", "emit"}]
        /\ \A s \in Sessions : readerPc'[s] = "emit" => readerPc[s] = "emit"
        /\ UNCHANGED <<readerBlock, lastBlock, events, chainHead>>
    BY <1>4 DEF Connect, StreamInv, HeadsTyped
  <2> QED
    BY <2>1 DEF StreamInv, HeadsTyped, NoDuplicateHead
<1>5. ASSUME NEW s \in Sessions, NEW b \in 1..MaxBlock, ReadHead(s, b) PROVE StreamInv'
  BY <1>5, ReadHeadInv
<1>6. ASSUME NEW s \in Sessions, EmitHead(s) PROVE StreamInv'
  BY <1>6, EmitHeadInv
<1>7. ASSUME NEW s \in Sessions, ReadFailed(s) PROVE StreamInv'
  <2>1. /\ readerPc' \in [Sessions -> {"off", "read", "emit"}]
        /\ \A r \in Sessions : readerPc'[r] = "emit" => readerPc[r] = "emit"
        /\ UNCHANGED <<readerBlock, lastBlock, events, chainHead>>
    BY <1>7 DEF ReadFailed, StreamInv, HeadsTyped
  <2> QED
    BY <2>1 DEF StreamInv, HeadsTyped, NoDuplicateHead
<1>8. CASE MainEvent
  BY <1>8, MainEventInv
<1>9. CASE MainPoll \/ PollFailed \/ \E b \in 1..MaxBlock : PollAnswered(b)
  BY <1>9, StreamFrame DEF MainPoll, PollFailed, PollAnswered, StreamInv, HeadsTyped
<1> QED
  BY <1>1, <1>2, <1>3, <1>4, <1>5, <1>6, <1>7, <1>8, <1>9
  DEF StreamNext, SessionStep, ReaderStep, MainStep

LEMMA StreamInvAlways == StreamSpec => []StreamInv
<1>1. StreamInit => StreamInv
  BY MaxBlockAssumption DEF StreamInit, StreamInv, HeadsTyped, NoDuplicateHead
<1> QED
  BY <1>1, StreamStep, PTL DEF StreamSpec

\* No head is emitted twice by the websocket client, whatever sessions come,
\* go and overlap: the check and the update of lastBlock are one critical
\* section.
THEOREM NoHeadTwice == StreamSpec => []NoDuplicateHead
  BY StreamInvAlways, PTL DEF StreamInv

\* The composition only uses the scheduler as latest.go offers it.
THEOREM StreamDrivesScheduler == StreamSpec => SchedulerSpec
<1>1. StreamInit => SchedulerInit
  BY DEF StreamInit
<1>2. StreamInv /\ [StreamNext]_streamVars => [SchedulerNext]_schedulerVars
  <2> SUFFICES ASSUME StreamInv, [StreamNext]_streamVars PROVE [SchedulerNext]_schedulerVars OBVIOUS
  <2>1. CASE MainEvent
    BY <2>1, MainEventInv DEF MainEvent, SchedulerNext
  <2>2. ASSUME NEW b \in 1..MaxBlock, PollAnswered(b) PROVE SchedulerNext
    BY <2>2 DEF PollAnswered, SchedulerNext
  <2>3. CASE SchedulerStep
    BY <2>3 DEF SchedulerStep, SchedulerNext
  <2>4. CASE UNCHANGED streamVars \/ NewBlock \/ (\E e \in EndpointRing : Rest(e)) \/ MainPoll \/ PollFailed
    BY <2>4 DEF streamVars, NewBlock, Rest, MainPoll, PollFailed
  <2>5. CASE SessionStep \/ ReaderStep
    BY <2>5 DEF SessionStep, ChooseEndpoint, DialFailed, Connect, Disconnect, ReaderStep, ReadHead,
       EmitHead, ReadFailed
  <2> QED
    BY <2>1, <2>2, <2>3, <2>4, <2>5 DEF StreamNext, MainStep
<1> QED
  BY <1>1, <1>2, StreamInvAlways, PTL DEF StreamSpec, SchedulerSpec

\* With heads arriving out of order, twice and from polls, the market cycle
\* still sees strictly increasing heads.
THEOREM StreamImplementsFeed == StreamSpec => ImplementsFeed
  BY StreamDrivesScheduler, SchedulerImplementsFeed, PTL

\* The newest head the select loop accepted is never lost on its way to the
\* market cycle.
THEOREM StreamKeepsNewest == StreamSpec => []NewestKept
  BY StreamDrivesScheduler, NewestIsKept, PTL

-----------------------------------------------------------------------------
(* The RPC client.                                                         *)

Stages == {"idle", "admit", "choose", "send", "waiting", "flight", "failover"}

\* The call state the argument needs.  A single-shot call never enters the
\* retry loop (admit, choose, failover), and has sent nothing before flight.
CallShape ==
    /\ pc \in [Callers -> Stages]
    /\ DOMAIN request = Callers
    /\ sends \in [Callers -> Nat]
OnceInv ==
    /\ CallShape
    /\ \A c \in Callers : SingleShot(request[c]) =>
        \/ pc[c] \in {"send", "waiting"} /\ sends[c] = 0
        \/ pc[c] = "flight" /\ sends[c] = 1

\* A returning call leaves nothing behind that could count as a broadcast.
LEMMA ReturnKeeps ==
    ASSUME OnceInv, NEW c \in Callers, Return(c)
    PROVE  OnceInv'
<1>1. CallShape'
    BY DEF OnceInv, CallShape, Return, Goto, Stages
<1>2. ASSUME NEW d \in Callers, SingleShot(request'[d])
      PROVE  \/ pc'[d] \in {"send", "waiting"} /\ sends'[d] = 0
             \/ pc'[d] = "flight" /\ sends'[d] = 1
    <2>1. d # c
        BY <1>2 DEF OnceInv, CallShape, Return, SingleShot, Idle
    <2> QED  BY <1>2, <2>1 DEF OnceInv, CallShape, Return, Goto
<1> QED  BY <1>1, <1>2 DEF OnceInv, SingleShot

\* A call outside the single-shot path may change its stage freely.
LEMMA ReadMoves ==
    ASSUME OnceInv, NEW c \in Callers, NEW stage \in Stages, Goto(c, stage),
           ~SingleShot(request[c]), UNCHANGED <<request, sends>>
    PROVE  OnceInv'
<1>1. CallShape'
    BY DEF OnceInv, CallShape, Goto
<1>2. ASSUME NEW d \in Callers, SingleShot(request'[d])
      PROVE  \/ pc'[d] \in {"send", "waiting"} /\ sends'[d] = 0
             \/ pc'[d] = "flight" /\ sends'[d] = 1
    <2>1. d # c
        BY <1>2
    <2> QED  BY <1>2, <2>1 DEF OnceInv, CallShape, Goto
<1> QED  BY <1>1, <1>2 DEF OnceInv, SingleShot

LEMMA BeginKeeps ==
    ASSUME OnceInv, NEW c \in Callers, NEW r, Begin(c, r)
    PROVE  OnceInv'
<1>1. CallShape'
    BY DEF OnceInv, CallShape, Begin, Goto, Stages
<1>2. ASSUME NEW d \in Callers, SingleShot(request'[d])
      PROVE  \/ pc'[d] \in {"send", "waiting"} /\ sends'[d] = 0
             \/ pc'[d] = "flight" /\ sends'[d] = 1
    <2>1. CASE d = c
        BY <1>2, <2>1 DEF OnceInv, CallShape, Begin, Goto
    <2>2. CASE d # c
        BY <1>2, <2>2 DEF OnceInv, CallShape, Begin, Goto
    <2> QED  BY <2>1, <2>2
<1> QED  BY <1>1, <1>2 DEF OnceInv, SingleShot

\* The one step that puts a request on the wire: it leaves the stage it needs.
LEMMA SendKeeps ==
    ASSUME OnceInv, NEW c \in Callers, Send(c)
    PROVE  OnceInv'
<1>1. CallShape'
    BY DEF OnceInv, CallShape, Send, Goto, Stages
<1>2. ASSUME NEW d \in Callers, SingleShot(request'[d])
      PROVE  \/ pc'[d] \in {"send", "waiting"} /\ sends'[d] = 0
             \/ pc'[d] = "flight" /\ sends'[d] = 1
    <2>1. SingleShot(request[d])
        BY <1>2 DEF Send
    <2>2. CASE d = c
        BY <2>1, <2>2 DEF OnceInv, CallShape, Send, Goto
    <2>3. CASE d # c
        BY <2>1, <2>3 DEF OnceInv, CallShape, Send, Goto
    <2> QED  BY <2>2, <2>3
<1> QED  BY <1>1, <1>2 DEF OnceInv, SingleShot

LEMMA ChooseSendKeeps ==
    ASSUME OnceInv, NEW c \in Callers, ChooseSend(c)
    PROVE  OnceInv'
<1>1. CallShape'
    BY DEF OnceInv, CallShape, ChooseSend, Goto, Stages
<1>2. ASSUME NEW d \in Callers, SingleShot(request'[d])
      PROVE  \/ pc'[d] \in {"send", "waiting"} /\ sends'[d] = 0
             \/ pc'[d] = "flight" /\ sends'[d] = 1
    <2>1. SingleShot(request[d]) /\ sends' = sends
        BY <1>2 DEF ChooseSend
    <2>2. CASE d = c
        BY <2>1, <2>2 DEF OnceInv, CallShape, ChooseSend, Goto
    <2>3. CASE d # c
        BY <2>1, <2>3 DEF OnceInv, CallShape, ChooseSend, Goto
    <2> QED  BY <2>2, <2>3
<1> QED  BY <1>1, <1>2 DEF OnceInv, SingleShot

\* Every step of the client keeps the invariant.
LEMMA OnceStep ==
    ASSUME OnceInv, [Next]_vars
    PROVE  OnceInv'
<1>1. ASSUME UNCHANGED <<pc, request, sends>>  PROVE OnceInv'
    BY <1>1 DEF OnceInv, CallShape, SingleShot
<1>2. CASE UNCHANGED vars
    BY <1>1, <1>2 DEF vars, callVars
<1>3. CASE Tick
    BY <1>1, <1>3 DEF Tick
<1>4. ASSUME NEW c \in Callers, NEW r \in Asks[c], Begin(c, r)  PROVE OnceInv'
    BY <1>4, BeginKeeps
<1>5. ASSUME NEW c \in Callers, CallStep(c)  PROVE OnceInv'
    <2>1. CASE Admit(c)
        <3>1. CASE Return(c)
            BY <3>1, ReturnKeeps
        <3>2. CASE ~Return(c)
            <4>1. ~SingleShot(request[c])
                BY <2>1 DEF Admit, OnceInv
            <4>2. Goto(c, "choose") /\ UNCHANGED <<request, sends>>
                BY <2>1, <3>2 DEF Admit
            <4> QED  BY <4>1, <4>2, ReadMoves DEF Stages
        <3> QED  BY <3>1, <3>2
    <2>2. CASE ChooseRead(c)
        <3>1. ~SingleShot(request[c])
            BY <2>2 DEF ChooseRead, OnceInv
        <3>2. Goto(c, "waiting") /\ UNCHANGED <<request, sends>>
            BY <2>2 DEF ChooseRead
        <3> QED  BY <3>1, <3>2, ReadMoves DEF Stages
    <2>3. CASE ChooseSend(c)
        BY <2>3, ChooseSendKeeps
    <2>4. CASE Send(c)
        BY <2>4, SendKeeps
    <2>5. CASE Answered(c)
        BY <2>5, ReturnKeeps DEF Answered
    <2>6. CASE FailedRead(c)
        <3>1. ~SingleShot(request[c]) /\ Goto(c, "failover") /\ UNCHANGED <<request, sends>>
            BY <2>6 DEF FailedRead
        <3> QED  BY <3>1, ReadMoves DEF Stages
    <2>7. CASE FailoverRead(c)
        <3>1. CASE Return(c)
            BY <3>1, ReturnKeeps
        <3>2. CASE ~Return(c)
            <4>1. ~SingleShot(request[c])
                BY <2>7 DEF FailoverRead, OnceInv
            <4>2. Goto(c, "admit") /\ UNCHANGED <<request, sends>>
                BY <2>7, <3>2 DEF FailoverRead
            <4> QED  BY <4>1, <4>2, ReadMoves DEF Stages
        <3> QED  BY <3>1, <3>2
    <2>8. CASE FailedSend(c)
        BY <2>8, ReturnKeeps DEF FailedSend
    <2> QED  BY <1>5, <2>1, <2>2, <2>3, <2>4, <2>5, <2>6, <2>7, <2>8 DEF CallStep
<1>6. ASSUME NEW c \in Callers, Abandon(c)  PROVE OnceInv'
    BY <1>6, ReturnKeeps DEF Abandon
<1> QED  BY <1>2, <1>3, <1>4, <1>5, <1>6 DEF Next

\* A signed transaction is put on the wire at most once (callOnceNoFailover).
THEOREM OnceHolds == Spec => []BroadcastOnce
<1>1. Init => OnceInv
    BY DEF Init, OnceInv, CallShape, Stages, SingleShot, Idle
<1>2. OnceInv /\ [Next]_vars => OnceInv'
    BY OnceStep
<1>3. OnceInv => BroadcastOnce
    BY DEF OnceInv, CallShape, BroadcastOnce, SingleShot
<1> QED  BY <1>1, <1>2, <1>3, PTL DEF Spec

-----------------------------------------------------------------------------
(* The choice of a provider.                                               *)

\* Each caller keeps its own stage, target and wait.
PerCaller == DOMAIN pc = Callers /\ DOMAIN target = Callers /\ DOMAIN wait = Callers

LEMMA PerCallerStep ==
    ASSUME PerCaller, [Next]_vars
    PROVE  PerCaller'
<1>1. CASE UNCHANGED vars
    BY <1>1 DEF PerCaller, vars, callVars
<1>2. CASE Tick
    BY <1>2 DEF PerCaller, Tick
<1>3. ASSUME NEW c \in Callers, Return(c)  PROVE PerCaller'
    BY <1>3 DEF PerCaller, Return, Goto
<1>4. ASSUME NEW c \in Callers, NEW r \in Asks[c], Begin(c, r)  PROVE PerCaller'
    BY <1>4 DEF PerCaller, Begin, Goto
<1>5. ASSUME NEW c \in Callers, CallStep(c)  PROVE PerCaller'
    <2>1. CASE Admit(c)
        BY <2>1, <1>3 DEF PerCaller, Admit, Goto
    <2>2. CASE ChooseRead(c)
        BY <2>2 DEF PerCaller, ChooseRead, Goto
    <2>3. CASE ChooseSend(c)
        BY <2>3 DEF PerCaller, ChooseSend, Goto
    <2>4. CASE Send(c)
        BY <2>4 DEF PerCaller, Send, Goto
    <2>5. CASE Answered(c) \/ FailedSend(c)
        BY <2>5, <1>3 DEF Answered, FailedSend
    <2>6. CASE FailedRead(c)
        BY <2>6 DEF PerCaller, FailedRead, Goto
    <2>7. CASE FailoverRead(c)
        BY <2>7, <1>3 DEF PerCaller, FailoverRead, Goto
    <2> QED  BY <1>5, <2>1, <2>2, <2>3, <2>4, <2>5, <2>6, <2>7 DEF CallStep
<1>6. ASSUME NEW c \in Callers, Abandon(c)  PROVE PerCaller'
    BY <1>6, <1>3 DEF Abandon
<1> QED  BY <1>1, <1>2, <1>4, <1>5, <1>6 DEF Next

\* A call reaches "waiting" only through its own choice of a provider: the
\* read choice from "choose", the broadcast's from "send".
LEMMA OwnChoice ==
    ASSUME PerCaller, [Next]_vars, NEW c \in Callers,
           pc[c] \in {"choose", "send"}, pc'[c] = "waiting"
    PROVE  IF pc[c] = "choose" THEN ChooseRead(c) ELSE ChooseSend(c)
<1>1. pc' # pc
    OBVIOUS
<1>2. ~Tick /\ ~UNCHANGED vars
    BY <1>1 DEF Tick, vars, callVars
<1>3. PICK d \in Callers : (\E r \in Asks[d] : Begin(d, r)) \/ CallStep(d) \/ Abandon(d)
    BY <1>2 DEF Next
<1>4. \E stage : Goto(d, stage)
    BY <1>3 DEF Begin, CallStep, Abandon, Return, Admit, ChooseRead, ChooseSend, Send,
                Answered, FailedRead, FailoverRead, FailedSend
<1>5. d = c
    BY <1>4 DEF PerCaller, Goto
<1>6. ~Return(c)
    BY DEF PerCaller, Return, Goto
<1>7. ~(\E r \in Asks[c] : Begin(c, r)) /\ ~Abandon(c)
    BY <1>6 DEF Begin, Abandon
<1>8. CallStep(c)
    BY <1>3, <1>5, <1>7
<1>9. ChooseRead(c) \/ ChooseSend(c)
    BY <1>8 DEF CallStep, Admit, Send, Answered, FailedRead, FailoverRead, FailedSend
<1> QED  BY <1>9 DEF ChooseRead, ChooseSend

\* What chooseReadProvider may return, in terms of the pool alone.
LEMMA ReadChoiceFits ==
    ASSUME NEW class, NEW p \in ReadChoices(class)
    PROVE  /\ Candidates(1) # {} => p \in Candidates(1)
           /\ Candidates(0) # {} => p \in Candidates(0)
           /\ class = "critical" =>
                \A q \in Candidates(0) : TierRank(p) <= TierRank(q)
<1>1. Candidates(0) \subseteq Candidates(1)
    BY DEF Candidates
<1>2. Usable = {} <=> Candidates(1) = {}
    BY <1>1 DEF Usable
<1>3. Usable # {} => p \in Usable
    BY DEF ReadChoices
<1>4. Usable \subseteq Candidates(1)
    BY <1>1 DEF Usable
<1>5. ASSUME class = "critical", NEW q \in Candidates(0)
      PROVE  TierRank(p) <= TierRank(q)
    <2>1. Usable = Candidates(0)
        BY <1>5 DEF Usable
    <2> QED  BY <1>5, <2>1 DEF ReadChoices
<1> QED  BY <1>1, <1>2, <1>3, <1>4, <1>5 DEF Usable

LEMMA ReadStep ==
    ASSUME PerCaller, [Next]_vars, NEW c \in Callers, pc[c] = "choose", pc'[c] = "waiting"
    PROVE  LET p == target'[c]
               fit == {q \in Ring : cool[q] = 0 /\ ~ProviderLagged(q)}
               proven == {q \in fit : probation[q] = 0}
           IN /\ fit # {} => p \in fit /\ wait'[c] = 0
              /\ proven # {} => p \in proven
              /\ request[c].class = "critical" =>
                    \A q \in proven : p \in proven => TierRank(p) <= TierRank(q)
<1>1. ChooseRead(c)
    BY OwnChoice
<1>2. PICK p \in ReadChoices(request[c].class) :
        target' = [target EXCEPT ![c] = p] /\ wait' = [wait EXCEPT ![c] = cool[p]]
    BY <1>1 DEF ChooseRead
<1>3. target'[c] = p /\ wait'[c] = cool[p]
    BY <1>2 DEF PerCaller
<1>4. Candidates(1) = {q \in Ring : cool[q] = 0 /\ ~ProviderLagged(q)}
    BY DEF Candidates
<1>5. Candidates(0) = {q \in Candidates(1) : probation[q] = 0}
    BY DEF Candidates
<1>6. Candidates(1) # {} => cool[p] = 0
    BY ReadChoiceFits DEF Candidates
<1> QED  BY <1>3, <1>4, <1>5, <1>6, ReadChoiceFits

\* A read goes to a provider that is neither cooling nor lagging whenever one
\* exists, without waiting, and to one out of probation whenever one exists
\* (chooseReadProvider), for every pool.
THEOREM ReadsAvoid == Spec => ReadsAvoidUnfit
<1>1. Init => PerCaller
    BY DEF Init, PerCaller
<1>2. PerCaller /\ [Next]_vars => PerCaller'
    BY PerCallerStep
<1> DEFINE Good == \A c \in Callers :
        pc[c] = "choose" /\ pc'[c] = "waiting" =>
            LET p == target'[c]
                fit == {q \in Ring : cool[q] = 0 /\ ~ProviderLagged(q)}
                proven == {q \in fit : probation[q] = 0}
            IN /\ fit # {} => p \in fit /\ wait'[c] = 0
               /\ proven # {} => p \in proven
               /\ request[c].class = "critical" =>
                    \A q \in proven : p \in proven => TierRank(p) <= TierRank(q)
<1>3. PerCaller /\ [Next]_vars => [Good]_vars
    BY ReadStep
<1> QED  BY <1>1, <1>2, <1>3, PTL DEF Spec, ReadsAvoidUnfit

\* With the primary rested and no recent failover the broadcast takes it.
LEMMA SendTakesPrimary ==
    ASSUME cool[0] = 0, sinceSwitch = 0
    PROVE  SendChoice = 0
<1>1. Size \in Nat \ {0}
    BY PoolAssumption DEF Size
<1>2. SendChoice = FirstRested(0, 0)
    BY DEF SendChoice
<1> DEFINE rested == {n \in 0..(Size - 1) : cool[(0 + n) % Size] = 0}
<1>3. 0 \in rested
    BY <1>1
<1>4. Low(rested) = 0
    BY <1>1, <1>3 DEF Low
<1>5. (0 + 0) % Size = 0
    BY <1>1
<1> QED  BY <1>2, <1>3, <1>4, <1>5 DEF FirstRested

\* A broadcast leaves the primary only while the primary cools or a failover
\* is recent (chooseProvider), for every pool and every number of readers.
THEOREM PrefersPrimary == Spec => BroadcastPrefersPrimary
<1>1. Init => PerCaller
    BY DEF Init, PerCaller
<1>2. PerCaller /\ [Next]_vars => PerCaller'
    BY PerCallerStep
<1> DEFINE Good == \A c \in Callers :
        pc[c] = "send" /\ pc'[c] = "waiting" /\ target'[c] # 0
            => cool[0] # 0 \/ sinceSwitch # 0
<1>3. ASSUME PerCaller, [Next]_vars  PROVE Good
    <2> SUFFICES ASSUME NEW c \in Callers, pc[c] = "send", pc'[c] = "waiting",
                        cool[0] = 0, sinceSwitch = 0
                 PROVE  target'[c] = 0
        OBVIOUS
    <2>1. ChooseSend(c)
        BY <1>3, OwnChoice
    <2> QED  BY <1>3, <2>1, SendTakesPrimary DEF ChooseSend, PerCaller
<1>4. PerCaller /\ [Next]_vars => [Good]_vars
    BY <1>3
<1> QED  BY <1>1, <1>2, <1>4, PTL DEF Spec, BroadcastPrefersPrimary

-----------------------------------------------------------------------------
(* Types and limits.                                                       *)

\* Budgets hold their calls in the order of their times, so that those that
\* left the minute are a prefix.
Ordered(used) == \A i, j \in 1..Len(used) : i <= j => used[i] <= used[j]

\* A call has sent one request for each attempt it has finished.
SendsCounted ==
    \A c \in Callers :
        sends[c] <= attempt[c] + (IF pc[c] \in {"flight", "failover"} THEN 1 ELSE 0)

PoolTyped ==
    /\ cool \in [Ring -> 0..MaxCooldown] /\ probation \in [Ring -> 0..(MaxCooldown + Probation)]
    /\ failures \in [Ring -> 0..FloorAfter] /\ streak \in [Ring -> 0..(MaxShift + 1)]
    /\ block \in [Ring -> Blocks \union {0}] /\ fresh \in [Ring -> 0..BlockFresh]
SwitchTyped == active \in Ring /\ sinceSwitch \in 0..Hysteresis
Budget(used, limit) == used \in Seq(1..Window) /\ Len(used) <= limit /\ Ordered(used)
BudgetsTyped == Budget(hotCalls, HotLimit) /\ Budget(ethCalls, EthLimit)
Requests == {Idle} \union UNION {Asks[c] : c \in Callers}
CallsTyped ==
    /\ pc \in [Callers -> Stages]
    /\ request \in [Callers -> Requests]
    /\ attempt \in [Callers -> 0..Retries]
    /\ target \in [Callers -> Ring] /\ wait \in [Callers -> 0..MaxCooldown]
    /\ sends \in [Callers -> Nat] /\ calls \in 0..MaxCalls
    /\ SendsCounted

TypeInv == PoolTyped /\ SwitchTyped /\ BudgetsTyped /\ CallsTyped

LEMMA LowFacts ==
    ASSUME NEW S, S \subseteq Nat, S # {}
    PROVE  Low(S) \in S /\ \A n \in S : Low(S) <= n
<1>1. \E m \in S : \A n \in S : ~(<<n, m>> \in OpToRel(<, Nat))
    BY NatLessThanWellFounded, WFMin
<1>2. PICK m \in S : \A n \in S : ~(<<n, m>> \in OpToRel(<, Nat))
    BY <1>1
<1>3. OpToRel(<, Nat) = {ss \in Nat \X Nat : ss[1] < ss[2]}
    BY DEF OpToRel
<1>4. ASSUME NEW n \in S  PROVE m <= n
    <2>1. <<n, m>> \in Nat \X Nat /\ ~(<<n, m>>[1] < <<n, m>>[2])
        BY <1>2, <1>3
    <2> QED  BY <2>1
<1> QED  BY <1>4 DEF Low

LEMMA Numbers ==
    /\ Size \in Nat \ {0} /\ 0 \in Ring /\ Ring \subseteq Nat
    /\ Retries \in Nat /\ Probation \in Nat /\ MaxShift \in Nat /\ Hysteresis \in Nat
    /\ BlockFresh \in Nat /\ HotLimit \in Nat /\ EthLimit \in Nat /\ MaxCalls \in Nat
    /\ Window \in Nat \ {0} /\ FloorAfter \in Nat \ {0}
BY PoolAssumption, DurationsAssumption DEF Size, Ring

\* Every cooldown the client sets is at most MaxCooldown.
LEMMA Cooldowns ==
    /\ MaxCooldown \in Nat /\ ShortCooldown \in 0..MaxCooldown /\ QuotaCooldown \in 0..MaxCooldown
    /\ FloorCooldown \in 0..MaxCooldown
    /\ \A run \in 1..(MaxShift + 2) : RateLimitCooldown(run) \in 0..MaxCooldown
<1> DEFINE rate == RateLimitCooldown(MaxShift + 1)
           S == {ShortCooldown, rate, QuotaCooldown, FloorCooldown}
<1>1. MaxShift \in Nat
    BY Numbers
<1>2. rate = RateCooldown * 2 ^ MaxShift
    BY <1>1 DEF RateLimitCooldown
<1>3. /\ rate \in Nat
      /\ \A k \in 0..MaxShift : RateCooldown * 2 ^ k \in Nat /\ RateCooldown * 2 ^ k <= rate
    BY <1>1, <1>2, DoublingAssumption
<1>4. ASSUME NEW run \in 1..(MaxShift + 2)
      PROVE  RateLimitCooldown(run) \in Nat /\ RateLimitCooldown(run) <= rate
    <2> DEFINE k == IF run - 1 > MaxShift THEN MaxShift ELSE run - 1
    <2>1. k \in 0..MaxShift
        BY <1>1
    <2>2. RateLimitCooldown(run) = RateCooldown * 2 ^ k
        BY DEF RateLimitCooldown
    <2> HIDE DEF k, rate
    <2> QED  BY <1>3, <2>1, <2>2
<1>5. ShortCooldown \in Nat /\ QuotaCooldown \in Nat /\ FloorCooldown \in Nat
    BY DurationsAssumption
<1>6. \E m \in S : \A n \in S : n <= m
    <2> HIDE DEF rate
    <2> QED  BY <1>3, <1>5
<1>7. MaxCooldown \in S /\ \A n \in S : n <= MaxCooldown
    BY <1>6 DEF MaxCooldown
<1> HIDE DEF rate
<1>8. MaxCooldown \in Nat /\ rate <= MaxCooldown
    BY <1>3, <1>5, <1>7
<1> QED  BY <1>3, <1>4, <1>5, <1>7, <1>8

\* A function on 1..m is a sequence of length m, and its elements are typed.
LEMMA SequenceOf ==
    ASSUME NEW S, NEW m \in Nat, NEW f \in [1..m -> S]
    PROVE  f \in Seq(S) /\ Len(f) = m
OBVIOUS

LEMMA ElementOf ==
    ASSUME NEW S, NEW s \in Seq(S), NEW k \in 1..Len(s)
    PROVE  s[k] \in S
OBVIOUS

\* A tick keeps a budget within its limit and in order.
LEMMA Ageing ==
    ASSUME NEW used, NEW limit \in Nat, Budget(used, limit)
    PROVE  Budget(Aged(used), limit)
<1> DEFINE n == Len(used)
           counted == {i \in 1..(n + 1) : i <= n => used[i] > 1}
           first == Low(counted)
           aged == [i \in 1..(n + 1 - first) |-> used[i + first - 1] - 1]
<1>1. used \in Seq(1..Window) /\ n \in Nat /\ n <= limit /\ Ordered(used)
    BY DEF Budget
<1>2. n + 1 \in counted /\ counted \subseteq Nat
    BY <1>1
<1>3. first \in counted
    <2> HIDE DEF counted
    <2> QED  BY <1>2, LowFacts
<1>4. first \in 1..(n + 1) /\ (first <= n => used[first] > 1)
    BY <1>3
<1>5. Aged(used) = aged
    BY DEF Aged
<1> HIDE DEF first, counted
<1>6. ASSUME NEW i \in 1..(n + 1 - first)
      PROVE  i + first - 1 \in 1..n /\ aged[i] = used[i + first - 1] - 1 /\ aged[i] \in 1..Window
    <2>1. i + first - 1 \in 1..n /\ first \in 1..n /\ first <= i + first - 1
        BY <1>1, <1>4
    <2>2. used[first] <= used[i + first - 1]
        BY <1>1, <2>1 DEF Ordered
    <2>3. used[first] \in 1..Window /\ used[i + first - 1] \in 1..Window /\ Window \in Nat
        BY <1>1, <2>1, Numbers
    <2> QED  BY <1>4, <2>1, <2>2, <2>3
<1>7. n + 1 - first \in Nat /\ n + 1 - first <= limit
    BY <1>1, <1>4
<1>8. aged \in [1..(n + 1 - first) -> 1..Window]
    BY <1>6
<1>9. aged \in Seq(1..Window) /\ Len(aged) = n + 1 - first
    <2> DEFINE m == n + 1 - first
    <2>1. m \in Nat /\ aged \in [1..m -> 1..Window]
        BY <1>7, <1>8
    <2> HIDE DEF m, aged
    <2>2. aged \in Seq(1..Window) /\ Len(aged) = m
        BY <2>1, SequenceOf
    <2> QED  BY <2>2 DEF m
<1>10. Ordered(aged)
    <2> SUFFICES ASSUME NEW i \in 1..(n + 1 - first), NEW j \in 1..(n + 1 - first), i <= j
                 PROVE  aged[i] <= aged[j]
        BY <1>9 DEF Ordered
    <2>1. i + first - 1 <= j + first - 1
        BY <1>4
    <2>2. used[i + first - 1] <= used[j + first - 1]
        BY <1>1, <1>6, <2>1 DEF Ordered
    <2>3. \A k \in 1..n : used[k] \in 1..Window
        BY <1>1, ElementOf
    <2>4. used[i + first - 1] \in Int /\ used[j + first - 1] \in Int
        BY <1>6, <2>3, Numbers
    <2> HIDE DEF aged
    <2> QED  BY <1>6, <2>2, <2>4
<1> HIDE DEF aged
<1> QED  BY <1>5, <1>7, <1>9, <1>10 DEF Budget

\* A charged call keeps it so too, as Allow comes first.
LEMMA Charging ==
    ASSUME NEW used, NEW limit \in Nat, Budget(used, limit), Allow(limit, used)
    PROVE  Budget(Charge(limit, used), limit)
<1>1. CASE limit = 0
    BY <1>1 DEF Charge
<1>2. CASE limit # 0
    <2> DEFINE more == Append(used, Window)
    <2>1. /\ used \in Seq(1..Window) /\ Len(used) < limit
          /\ Len(used) \in Nat /\ Window \in 1..Window
        BY <1>2, Numbers DEF Budget, Allow
    <2>2. more \in Seq(1..Window) /\ Len(more) = Len(used) + 1
        BY <2>1
    <2>3. \A i \in 1..Len(used) : more[i] = used[i] /\ used[i] \in 1..Window
        BY <2>1
    <2>4. more[Len(used) + 1] = Window
        BY <2>1
    <2> HIDE DEF more
    <2>5. Ordered(more)
        <3> SUFFICES ASSUME NEW i \in 1..(Len(used) + 1), NEW j \in 1..(Len(used) + 1), i <= j
                     PROVE  more[i] <= more[j]
            BY <2>2 DEF Ordered
        <3>1. CASE j = Len(used) + 1
            <4>1. more[i] \in 1..Window
                BY <2>1, <2>2
            <4> QED  BY <2>4, <3>1, <4>1, Numbers
        <3>2. CASE j # Len(used) + 1
            <4>1. i \in 1..Len(used) /\ j \in 1..Len(used)
                BY <2>1, <3>2
            <4> QED  BY <2>3, <4>1 DEF Budget, Ordered
        <3> QED  BY <3>1, <3>2
    <2> QED  BY <1>2, <2>1, <2>2, <2>5 DEF Charge, Budget, more
<1> QED  BY <1>1, <1>2

\* The search around the ring ends at a provider.
LEMMA RingSearch ==
    ASSUME NEW from \in Nat, NEW fallback \in Ring
    PROVE  FirstRested(from, fallback) \in Ring
<1> DEFINE rested == {n \in 0..(Size - 1) : cool[(from + n) % Size] = 0}
<1>1. CASE rested = {}
    BY <1>1 DEF FirstRested
<1>2. CASE rested # {}
    <2>1. rested \subseteq Nat
        BY Numbers
    <2>2. Low(rested) \in rested
        <3> HIDE DEF rested
        <3> QED  BY <1>2, <2>1, LowFacts
    <2>3. Low(rested) \in Nat
        BY <2>1, <2>2
    <2>4. FirstRested(from, fallback) = (from + Low(rested)) % Size
        BY <1>2 DEF FirstRested
    <2> HIDE DEF rested
    <2> DEFINE x == from + Low(rested)
    <2>5. x \in Nat /\ Size \in Nat \ {0}
        BY <2>3, Numbers
    <2> HIDE DEF x
    <2>6. x % Size \in 0..(Size - 1)
        BY <2>5
    <2> QED  BY <2>4, <2>6 DEF Ring, x
<1> QED  BY <1>1, <1>2

LEMMA Lessening ==
    ASSUME NEW M \in Nat, NEW n \in 0..M
    PROVE  Less(n) \in 0..M
BY DEF Less

\* What chooseReadProvider and chooseProvider return is a provider.
LEMMA ChoicesInRing ==
    ASSUME SwitchTyped
    PROVE  SendChoice \in Ring /\ \A class : ReadChoices(class) \subseteq Ring
<1>1. Usable \subseteq Ring
    BY DEF Usable, Candidates
<1>2. ASSUME NEW class  PROVE ReadChoices(class) \subseteq Ring
    BY <1>1 DEF ReadChoices
<1>3. \A start \in Ring : FirstRested(start, start) \in Ring
    BY RingSearch, Numbers
<1>4. SendChoice \in Ring
    BY <1>3, Numbers DEF SendChoice, SwitchTyped
<1> QED  BY <1>2, <1>4

LEMMA FailureTyped ==
    ASSUME PoolTyped, NEW p \in Ring, NEW answer, RecordFailure(p, answer)
    PROVE  PoolTyped'
<1> DEFINE run == IF RateLimited(answer) THEN streak[p] + 1 ELSE streak[p]
           row == IF failures[p] < FloorAfter THEN failures[p] + 1 ELSE FloorAfter
           time == CooldownFor(answer, run)
           cooldown == IF row = FloorAfter /\ time < FloorCooldown THEN FloorCooldown ELSE time
           counted == IF run > MaxShift + 1 THEN MaxShift + 1 ELSE run
<1>1. streak[p] \in 0..(MaxShift + 1) /\ failures[p] \in 0..FloorAfter
    BY DEF PoolTyped
<1>2. run \in 0..(MaxShift + 2) /\ (RateLimited(answer) => run \in 1..(MaxShift + 2))
    BY <1>1, Numbers
<1>3. row \in 0..FloorAfter /\ counted \in 0..(MaxShift + 1)
    BY <1>1, <1>2, Numbers
<1>4. /\ failures' = [failures EXCEPT ![p] = row]
      /\ streak' = [streak EXCEPT ![p] = counted]
      /\ cool' = [cool EXCEPT ![p] = cooldown]
      /\ probation' = [probation EXCEPT ![p] = time + Probation]
      /\ UNCHANGED <<block, fresh>>
    BY DEF RecordFailure
<1> HIDE DEF run, row, counted
<1>5. time \in 0..MaxCooldown
    <2>1. CASE answer = "quota"
        BY <2>1, Cooldowns DEF CooldownFor
    <2>2. CASE answer = "http_429"
        <3>1. time = RateLimitCooldown(run)
            BY <2>2 DEF CooldownFor
        <3>2. run \in 1..(MaxShift + 2)
            BY <1>2, <2>2 DEF RateLimited
        <3> HIDE DEF time
        <3> QED  BY <3>1, <3>2, Cooldowns
    <2>3. CASE answer \notin {"quota", "http_429"}
        BY <2>3, Cooldowns DEF CooldownFor
    <2> QED  BY <2>1, <2>2, <2>3
<1> HIDE DEF time
<1>6. cooldown \in 0..MaxCooldown /\ time + Probation \in 0..(MaxCooldown + Probation)
    BY <1>5, Cooldowns, Numbers
<1> HIDE DEF cooldown
<1> QED  BY <1>3, <1>4, <1>6 DEF PoolTyped

LEMMA SuccessTyped ==
    ASSUME PoolTyped, NEW p \in Ring, NEW method, RecordSuccess(p, method)
    PROVE  PoolTyped'
<1>1. 0 \in 0..FloorAfter /\ 0 \in 0..(MaxShift + 1) /\ BlockFresh \in 0..BlockFresh
    BY Numbers
<1>2. failures' \in [Ring -> 0..FloorAfter] /\ streak' \in [Ring -> 0..(MaxShift + 1)]
    BY <1>1 DEF PoolTyped, RecordSuccess
<1>3. block' \in [Ring -> Blocks \union {0}] /\ fresh' \in [Ring -> 0..BlockFresh]
    BY <1>1 DEF PoolTyped, RecordSuccess
<1> QED  BY <1>2, <1>3 DEF PoolTyped, RecordSuccess

LEMMA TickTyped ==
    ASSUME TypeInv, Tick
    PROVE  TypeInv'
<1>1. PoolTyped'
    <2>1. \A p \in Ring : /\ Less(cool[p]) \in 0..MaxCooldown
                          /\ Less(probation[p]) \in 0..(MaxCooldown + Probation)
                          /\ Less(fresh[p]) \in 0..BlockFresh
        <3>1. MaxCooldown + Probation \in Nat /\ MaxCooldown \in Nat /\ BlockFresh \in Nat
            BY Cooldowns, Numbers
        <3> QED  BY <3>1, Lessening DEF TypeInv, PoolTyped
    <2> QED  BY <2>1 DEF Tick, TypeInv, PoolTyped
<1>2. SwitchTyped'
    BY Lessening, Numbers DEF Tick, TypeInv, SwitchTyped
<1>3. BudgetsTyped'
    BY Ageing, Numbers DEF Tick, TypeInv, BudgetsTyped
<1>4. CallsTyped'
    <2>1. \A c \in Callers : Less(wait[c]) \in 0..MaxCooldown
        BY Lessening, Cooldowns DEF TypeInv, CallsTyped
    <2> QED  BY <2>1 DEF Tick, TypeInv, CallsTyped, SendsCounted
<1> QED  BY <1>1, <1>2, <1>3, <1>4 DEF TypeInv

\* How a call may move on: back to idle, ...
LEMMA ReturnTyped ==
    ASSUME CallsTyped, NEW c \in Callers, Return(c)
    PROVE  CallsTyped'
<1>1. 0 \in 0..Retries /\ 0 \in Ring /\ 0 \in 0..MaxCooldown /\ 0 \in Nat
    BY Numbers, Cooldowns
<1>2. pc' \in [Callers -> Stages] /\ request' \in [Callers -> Requests]
    <2>1. pc' \in [Callers -> Stages]
        BY DEF CallsTyped, Return, Goto, Stages
    <2>2. request \in [Callers -> Requests] /\ Idle \in Requests
        BY DEF CallsTyped, Requests
    <2> QED  BY <2>1, <2>2 DEF Return
<1>3. /\ attempt' \in [Callers -> 0..Retries] /\ target' \in [Callers -> Ring]
      /\ wait' \in [Callers -> 0..MaxCooldown] /\ sends' \in [Callers -> Nat]
      /\ calls' \in 0..MaxCalls
    BY <1>1 DEF CallsTyped, Return
<1>4. SendsCounted'
    BY Numbers DEF CallsTyped, SendsCounted, Return, Goto
<1> QED  BY <1>2, <1>3, <1>4 DEF CallsTyped

\* ... or to another stage, with the requests it has sent accounted for.
LEMMA MoveTyped ==
    ASSUME CallsTyped, NEW c \in Callers, NEW stage \in Stages, Goto(c, stage),
           target' \in [Callers -> Ring], wait' \in [Callers -> 0..MaxCooldown],
           attempt' \in [Callers -> 0..Retries], sends' \in [Callers -> Nat],
           UNCHANGED <<request, calls>>,
           \A d \in Callers \ {c} : attempt'[d] = attempt[d] /\ sends'[d] = sends[d],
           sends'[c] <= attempt'[c] + (IF stage \in {"flight", "failover"} THEN 1 ELSE 0)
    PROVE  CallsTyped'
<1>1. pc' \in [Callers -> Stages] /\ pc'[c] = stage /\ \A d \in Callers \ {c} : pc'[d] = pc[d]
    BY DEF CallsTyped, Goto
<1>2. SendsCounted'
    BY <1>1 DEF CallsTyped, SendsCounted
<1> QED  BY <1>1, <1>2 DEF CallsTyped

LEMMA BeginTyped ==
    ASSUME CallsTyped, NEW c \in Callers, NEW r \in Asks[c], Begin(c, r)
    PROVE  CallsTyped'
<1>1. pc' \in [Callers -> Stages] /\ request' \in [Callers -> Requests]
    <2>1. r \in Requests
        BY DEF Requests
    <2> QED  BY <2>1 DEF CallsTyped, Begin, Goto, Stages
<1>2. /\ attempt' \in [Callers -> 0..Retries] /\ sends' \in [Callers -> Nat]
      /\ calls' \in 0..MaxCalls /\ UNCHANGED <<target, wait>>
    BY Numbers DEF CallsTyped, Begin
<1>3. SendsCounted'
    BY Numbers DEF CallsTyped, SendsCounted, Begin, Goto
<1> QED  BY <1>1, <1>2, <1>3 DEF CallsTyped

LEMMA CallStepTyped ==
    ASSUME TypeInv, NEW c \in Callers, CallStep(c)
    PROVE  TypeInv'
<1>1. PoolTyped /\ SwitchTyped /\ BudgetsTyped /\ CallsTyped
    BY DEF TypeInv
<1>2. /\ pc[c] \in Stages /\ attempt[c] \in 0..Retries /\ target[c] \in Ring /\ sends[c] \in Nat
      /\ wait[c] \in 0..MaxCooldown
      /\ sends[c] <= attempt[c] + (IF pc[c] \in {"flight", "failover"} THEN 1 ELSE 0)
    BY <1>1 DEF CallsTyped, SendsCounted
<1>3. /\ target \in [Callers -> Ring] /\ wait \in [Callers -> 0..MaxCooldown]
      /\ attempt \in [Callers -> 0..Retries] /\ sends \in [Callers -> Nat]
    BY <1>1 DEF CallsTyped
<1>4. ASSUME UNCHANGED poolVars  PROVE PoolTyped'
    BY <1>1, <1>4 DEF PoolTyped, poolVars
<1>5. ASSUME UNCHANGED switchVars  PROVE SwitchTyped'
    BY <1>1, <1>5 DEF SwitchTyped, switchVars
<1>6. ASSUME UNCHANGED budgetVars  PROVE BudgetsTyped'
    BY <1>1, <1>6 DEF BudgetsTyped, Budget, Ordered, budgetVars
<1>7. CASE Admit(c)
    <2>1. PoolTyped' /\ SwitchTyped'
        BY <1>4, <1>5, <1>7 DEF Admit
    <2>2. BudgetsTyped'
        <3>1. \/ hotCalls' = hotCalls
              \/ (Allow(HotLimit, hotCalls) /\ hotCalls' = Charge(HotLimit, hotCalls))
            BY <1>7 DEF Admit
        <3>2. \/ ethCalls' = ethCalls
              \/ (Allow(EthLimit, ethCalls) /\ ethCalls' = Charge(EthLimit, ethCalls))
            BY <1>7 DEF Admit
        <3>3. Budget(hotCalls, HotLimit)'
            BY <1>1, <3>1, Charging, Numbers DEF BudgetsTyped
        <3>4. Budget(ethCalls, EthLimit)'
            BY <1>1, <3>2, Charging, Numbers DEF BudgetsTyped
        <3> QED  BY <3>3, <3>4 DEF BudgetsTyped
    <2>3. CallsTyped'
        <3>1. CASE Return(c)
            BY <1>1, <3>1, ReturnTyped
        <3>2. CASE ~Return(c)
            <4>1. /\ pc[c] = "admit" /\ Goto(c, "choose")
                  /\ UNCHANGED <<request, attempt, target, wait, sends, calls>>
                BY <1>7, <3>2 DEF Admit
            <4> QED  BY <1>1, <1>2, <1>3, <4>1, MoveTyped DEF Stages
        <3> QED  BY <3>1, <3>2
    <2> QED  BY <2>1, <2>2, <2>3 DEF TypeInv
<1>8. CASE ChooseRead(c)
    <2>1. PoolTyped' /\ BudgetsTyped'
        BY <1>4, <1>6, <1>8 DEF ChooseRead
    <2>2. PICK p \in ReadChoices(request[c].class) :
            /\ active' = p /\ target' = [target EXCEPT ![c] = p]
            /\ wait' = [wait EXCEPT ![c] = cool[p]]
        BY <1>8 DEF ChooseRead
    <2>3. p \in Ring /\ cool[p] \in 0..MaxCooldown
        BY <1>1, ChoicesInRing DEF PoolTyped
    <2>4. SwitchTyped'
        BY <1>1, <1>8, <2>2, <2>3 DEF SwitchTyped, ChooseRead
    <2>5. CallsTyped'
        <3>1. target' \in [Callers -> Ring] /\ wait' \in [Callers -> 0..MaxCooldown]
            BY <1>3, <2>2, <2>3
        <3>2. pc[c] = "choose" /\ Goto(c, "waiting") /\ UNCHANGED <<request, attempt, sends, calls>>
            BY <1>8 DEF ChooseRead
        <3> QED  BY <1>1, <1>2, <1>3, <3>1, <3>2, MoveTyped DEF Stages
    <2> QED  BY <2>1, <2>4, <2>5 DEF TypeInv
<1>9. CASE ChooseSend(c)
    <2>1. PoolTyped' /\ BudgetsTyped'
        BY <1>4, <1>6, <1>9 DEF ChooseSend
    <2>2. SendChoice \in Ring
        BY <1>1, ChoicesInRing
    <2>3. SwitchTyped'
        BY <1>1, <1>9, <2>2 DEF SwitchTyped, ChooseSend
    <2>4. CallsTyped'
        <3>1. target' \in [Callers -> Ring]
            BY <1>3, <1>9, <2>2 DEF ChooseSend
        <3>2. /\ pc[c] = "send" /\ Goto(c, "waiting")
              /\ UNCHANGED <<request, attempt, wait, sends, calls>>
            BY <1>9 DEF ChooseSend
        <3> QED  BY <1>1, <1>2, <1>3, <3>1, <3>2, MoveTyped DEF Stages
    <2> QED  BY <2>1, <2>3, <2>4 DEF TypeInv
<1>10. CASE Send(c)
    <2>1. PoolTyped' /\ SwitchTyped' /\ BudgetsTyped'
        BY <1>4, <1>5, <1>6, <1>10 DEF Send
    <2>2. /\ pc[c] = "waiting" /\ Goto(c, "flight")
          /\ UNCHANGED <<request, attempt, target, wait, calls>>
        BY <1>10 DEF Send
    <2>3. /\ sends' \in [Callers -> Nat] /\ sends'[c] = sends[c] + 1
          /\ \A d \in Callers \ {c} : sends'[d] = sends[d]
        BY <1>3, <1>10 DEF Send
    <2>4. CallsTyped'
        BY <1>1, <1>2, <1>3, <2>2, <2>3, MoveTyped DEF Stages
    <2> QED  BY <2>1, <2>4 DEF TypeInv
<1>11. CASE Answered(c)
    <2>1. SwitchTyped' /\ BudgetsTyped' /\ CallsTyped'
        BY <1>1, <1>5, <1>6, <1>11, ReturnTyped DEF Answered
    <2>2. PoolTyped'
        BY <1>1, <1>2, <1>4, <1>11, SuccessTyped DEF Answered
    <2> QED  BY <2>1, <2>2 DEF TypeInv
<1>12. CASE FailedRead(c)
    <2>1. SwitchTyped' /\ BudgetsTyped'
        BY <1>5, <1>6, <1>12 DEF FailedRead
    <2>2. PoolTyped'
        BY <1>1, <1>2, <1>12, FailureTyped DEF FailedRead
    <2>3. /\ pc[c] = "flight" /\ Goto(c, "failover")
          /\ UNCHANGED <<request, attempt, target, wait, sends, calls>>
        BY <1>12 DEF FailedRead
    <2>4. CallsTyped'
        BY <1>1, <1>2, <1>3, <2>3, MoveTyped DEF Stages
    <2> QED  BY <2>1, <2>2, <2>4 DEF TypeInv
<1>13. CASE FailoverRead(c)
    <2>1. PoolTyped' /\ BudgetsTyped'
        BY <1>4, <1>6, <1>13 DEF FailoverRead
    <2>2. SwitchTyped'
        <3>1. (target[c] + 1) % Size \in Nat
            <4> DEFINE next == target[c] + 1
            <4>1. target[c] \in Nat /\ Size \in Nat \ {0}
                BY <1>2, Numbers
            <4>2. next \in Nat
                BY <4>1
            <4> HIDE DEF next
            <4>3. next % Size \in Nat
                BY <4>1, <4>2
            <4> QED  BY <4>3 DEF next
        <3>2. FirstRested((target[c] + 1) % Size, target[c]) \in Ring
            BY <1>2, <3>1, RingSearch
        <3> QED  BY <1>1, <1>5, <1>13, <3>2, Numbers DEF FailoverRead, Failover, SwitchTyped
    <2>3. CallsTyped'
        <3>1. CASE Return(c)
            BY <1>1, <3>1, ReturnTyped
        <3>2. CASE ~Return(c)
            <4>1. /\ pc[c] = "failover" /\ attempt[c] < Retries /\ Goto(c, "admit")
                  /\ attempt' = [attempt EXCEPT ![c] = @ + 1]
                  /\ UNCHANGED <<request, target, wait, sends, calls>>
                BY <1>13, <3>2 DEF FailoverRead
            <4>2. /\ attempt' \in [Callers -> 0..Retries] /\ attempt'[c] = attempt[c] + 1
                  /\ \A d \in Callers \ {c} : attempt'[d] = attempt[d]
                BY <1>2, <1>3, <4>1, Numbers
            <4> QED  BY <1>1, <1>2, <1>3, <4>1, <4>2, MoveTyped DEF Stages
        <3> QED  BY <3>1, <3>2
    <2> QED  BY <2>1, <2>2, <2>3 DEF TypeInv
<1>14. CASE FailedSend(c)
    <2>1. SwitchTyped' /\ BudgetsTyped' /\ CallsTyped'
        BY <1>1, <1>5, <1>6, <1>14, ReturnTyped DEF FailedSend
    <2>2. PoolTyped'
        BY <1>1, <1>2, <1>14, FailureTyped DEF FailedSend
    <2> QED  BY <2>1, <2>2 DEF TypeInv
<1> QED  BY <1>7, <1>8, <1>9, <1>10, <1>11, <1>12, <1>13, <1>14 DEF CallStep

LEMMA TypeStep ==
    ASSUME TypeInv, [Next]_vars
    PROVE  TypeInv'
<1>1. ASSUME UNCHANGED poolVars, UNCHANGED switchVars, UNCHANGED budgetVars, CallsTyped'
      PROVE  TypeInv'
    BY <1>1 DEF TypeInv, PoolTyped, SwitchTyped, BudgetsTyped, Budget, Ordered,
                poolVars, switchVars, budgetVars
<1>2. CASE UNCHANGED vars
    <2>1. CallsTyped'
        BY <1>2 DEF TypeInv, CallsTyped, SendsCounted, vars, callVars
    <2> QED  BY <1>1, <1>2, <2>1 DEF vars
<1>3. CASE Tick
    BY <1>3, TickTyped
<1>4. ASSUME NEW c \in Callers, NEW r \in Asks[c], Begin(c, r)  PROVE TypeInv'
    BY <1>1, <1>4, BeginTyped DEF Begin, TypeInv, poolVars, switchVars, budgetVars
<1>5. ASSUME NEW c \in Callers, CallStep(c)  PROVE TypeInv'
    BY <1>5, CallStepTyped
<1>6. ASSUME NEW c \in Callers, Abandon(c)  PROVE TypeInv'
    BY <1>1, <1>6, ReturnTyped DEF Abandon, TypeInv, poolVars, switchVars, budgetVars
<1> QED  BY <1>2, <1>3, <1>4, <1>5, <1>6 DEF Next

\* The types of the pool and of the calls, and with them the limits: neither
\* minute budget (minuteBudget.Allow) counts more calls than it allows, no
\* cooldown (recordFailure) exceeds the longest one, and no call sends more
\* than Retries + 1 requests, for every pool, budget and number of callers.
THEOREM ClientTypes == Spec => []TypeOK
<1>1. Init => TypeInv
    <2> SUFFICES ASSUME Init  PROVE TypeInv
        OBVIOUS
    <2>1. /\ MaxCooldown \in Nat /\ MaxCooldown + Probation \in Nat /\ MaxShift + 1 \in Nat
          /\ FloorAfter \in Nat
        BY Numbers, Cooldowns
    <2>2. PoolTyped
        BY <2>1, Numbers DEF Init, PoolTyped
    <2>3. SwitchTyped
        BY Numbers DEF Init, SwitchTyped
    <2>4. BudgetsTyped
        BY Numbers DEF Init, BudgetsTyped, Budget, Ordered
    <2>5. CallsTyped
        <3>1. 0 \in 0..Retries /\ 0 \in 0..MaxCooldown /\ 0 \in 0..MaxCalls /\ Idle \in Requests
            BY <2>1, Numbers DEF Requests
        <3>2. request \in [Callers -> Requests] /\ pc \in [Callers -> Stages]
            BY <3>1 DEF Init, Stages
        <3>3. SendsCounted
            BY DEF Init, SendsCounted
        <3> QED  BY <3>1, <3>2, <3>3, Numbers DEF Init, CallsTyped
    <2> QED  BY <2>2, <2>3, <2>4, <2>5 DEF TypeInv
<1>2. TypeInv /\ [Next]_vars => TypeInv'
    BY TypeStep
<1>3. TypeInv => TypeOK
    <2> SUFFICES ASSUME TypeInv  PROVE TypeOK
        OBVIOUS
    <2>1. sends \in [Callers -> 0..(Retries + 1)]
        BY Numbers DEF TypeInv, CallsTyped, SendsCounted
    <2> QED  BY <2>1 DEF TypeInv, PoolTyped, SwitchTyped, BudgetsTyped, Budget, CallsTyped,
                         Stages, Requests, TypeOK
<1> QED  BY <1>1, <1>2, <1>3, PTL DEF Spec
=============================================================================
