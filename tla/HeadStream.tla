----------------------------- MODULE HeadStream -----------------------------
(***************************************************************************)
(* How chain heads reach the market scheduler: the websocket client of     *)
(* go/internal/websocket/client.go with its endpoint pool, the select loop *)
(* of go/cmd/titanarb/main.go with its HTTP polling fallback, and the      *)
(* scheduler of LatestScheduler, which this module extends.                *)
(*                                                                         *)
(* Goroutines: the session loop of Start; one reader per session, which    *)
(* may outlive its session; the select loop; the scheduler's Run.          *)
(* Cooldowns and back-off delays are nondeterministic: an endpoint cools   *)
(* until it is rested.                                                     *)
(*                                                                         *)
(* X_variant just before X is a plausible defect of X; no action uses it.  *)
(***************************************************************************)
EXTENDS LatestScheduler, Sequences

CONSTANTS
    Endpoints,   \* number of configured endpoints
    Buffer,      \* capacity of the events channel
    MaxSessions  \* bound: connections that are established

ASSUME StreamAssumption ==
    Endpoints \in Nat \ {0} /\ Buffer \in Nat \ {0} /\ MaxSessions \in Nat

VARIABLES
    chainHead,      \* newest block of the chain
    activeEndpoint, \* Client.active
    cooling,        \* endpoints whose cooldownUntil is in the future
    sessionPc,      \* where the loop of Start is
    session,        \* number of the current connection
    connected,      \* Client.connected
    lastBlock,      \* Client.lastBlock
    readerPc,       \* where the reader of each session is
    readerBlock,    \* the head it is about to emit
    events,         \* the channel Start returned
    mainPc          \* where the select loop is

endpointVars == <<activeEndpoint, cooling>>
sessionVars == <<sessionPc, session, connected>>
readerVars == <<readerPc, readerBlock, lastBlock>>
streamVars == <<schedulerVars, chainHead, endpointVars, sessionVars, readerVars, events, mainPc>>

EndpointRing == 0..(Endpoints - 1)
Sessions == 1..MaxSessions

StreamInit ==
    /\ SchedulerInit
    /\ chainHead = 0 /\ activeEndpoint = 0 /\ cooling = {}
    /\ sessionPc = "connect" /\ session = 0 /\ connected = FALSE
    /\ lastBlock = 0 /\ readerPc = [s \in Sessions |-> "off"]
    /\ readerBlock = [s \in Sessions |-> 0]
    /\ events = <<>> /\ mainPc = "select"

-----------------------------------------------------------------------------
(* Environment.                                                            *)

NewBlock ==
    /\ chainHead < MaxBlock /\ chainHead' = chainHead + 1
    /\ UNCHANGED <<schedulerVars, endpointVars, sessionVars, readerVars, events, mainPc>>

\* A cooldown passes.
Rest(e) ==
    /\ e \in cooling /\ cooling' = cooling \ {e}
    /\ UNCHANGED <<schedulerVars, chainHead, activeEndpoint, sessionVars, readerVars, events,
                   mainPc>>

-----------------------------------------------------------------------------
(* The endpoint pool.                                                      *)

\* The first endpoint that is not cooling, i places after endpoint e, for i
\* from the first one on; e itself when all are cooling.
FirstFree(e, first, hot) ==
    LET Rested == {i \in first..(first + Endpoints - 1) : (e + i) % Endpoints \notin hot}
    IN  IF Rested = {} THEN e
        ELSE (e + (CHOOSE i \in Rested : \A j \in Rested : i <= j)) % Endpoints

CurrentEndpoint == FirstFree(activeEndpoint, 0, cooling)

\* markFailed cools the active endpoint and moves on.
NextEndpoint == FirstFree(activeEndpoint, 1, cooling \cup {activeEndpoint})

MarkFailed == cooling' = cooling \cup {activeEndpoint} /\ activeEndpoint' = NextEndpoint

\* currentEndpoint, at the top of the loop.
ChooseEndpoint ==
    /\ sessionPc = "connect"
    /\ activeEndpoint' = CurrentEndpoint
    /\ sessionPc' = "dial"
    /\ UNCHANGED <<schedulerVars, chainHead, cooling, session, connected, readerVars, events,
                   mainPc>>

-----------------------------------------------------------------------------
(* The session loop.                                                       *)

\* Dialling or subscribing failed; the loop sleeps and tries again.
DialFailed ==
    /\ sessionPc = "dial" /\ sessionPc' = "connect"
    /\ MarkFailed
    /\ UNCHANGED <<schedulerVars, chainHead, session, connected, readerVars, events, mainPc>>

\* Dialled and subscribed: connected, markSuccess, and read starts a reader.
Connect ==
    /\ sessionPc = "dial" /\ session < MaxSessions
    /\ sessionPc' = "read" /\ session' = session + 1 /\ connected' = TRUE
    /\ cooling' = cooling \ {activeEndpoint}
    /\ readerPc' = [readerPc EXCEPT ![session + 1] = "read"]
    /\ UNCHANGED <<schedulerVars, chainHead, activeEndpoint, readerBlock, lastBlock, events, mainPc>>

\* read returned: its reader failed, or a ping could not be written.  The
\* connection is closed, and its reader may still hold a head.
ConnectedAfterLoss_stale == connected
ConnectedAfterLoss == FALSE

Disconnect ==
    /\ sessionPc = "read" /\ sessionPc' = "connect"
    /\ connected' = ConnectedAfterLoss
    /\ MarkFailed
    /\ UNCHANGED <<schedulerVars, chainHead, session, readerVars, events, mainPc>>

-----------------------------------------------------------------------------
(* Readers.                                                                *)

\* Duplicate and older heads are skipped, whoever delivers them.
IsNewHead_orEqual(b) == b >= lastBlock
IsNewHead(b) == b > lastBlock

\* ReadJSON returned a head and the check of lastBlock, under the mutex,
\* let it pass.
ReadHead(s, b) ==
    /\ readerPc[s] = "read"
    /\ b <= chainHead /\ IsNewHead(b)
    /\ lastBlock' = b
    /\ readerPc' = [readerPc EXCEPT ![s] = "emit"]
    /\ readerBlock' = [readerBlock EXCEPT ![s] = b]
    /\ UNCHANGED <<schedulerVars, chainHead, endpointVars, sessionVars, events, mainPc>>

EmitHead(s) ==
    /\ readerPc[s] = "emit" /\ Len(events) < Buffer
    /\ events' = Append(events, readerBlock[s])
    /\ readerPc' = [readerPc EXCEPT ![s] = "read"]
    /\ UNCHANGED <<schedulerVars, chainHead, endpointVars, sessionVars, readerBlock, lastBlock, mainPc>>

ReadFailed(s) ==
    /\ readerPc[s] = "read" /\ readerPc' = [readerPc EXCEPT ![s] = "off"]
    /\ UNCHANGED <<schedulerVars, chainHead, endpointVars, sessionVars, readerBlock, lastBlock, events,
                   mainPc>>

-----------------------------------------------------------------------------
(* The select loop.  Submit runs on its goroutine.                         *)

MainEvent ==
    /\ mainPc = "select" /\ events # <<>>
    /\ SubmitBegin(Head(events))
    /\ events' = Tail(events)
    /\ UNCHANGED <<chainHead, endpointVars, sessionVars, readerVars, mainPc>>

\* The poll ticker: a connected websocket silences the fallback.
MainPoll ==
    /\ mainPc = "select" /\ subPc = "idle" /\ ~connected
    /\ mainPc' = "poll"
    /\ UNCHANGED <<schedulerVars, chainHead, endpointVars, sessionVars, readerVars, events>>

\* eth_blockNumber answers; a provider may lag behind the chain.
PollAnswered(b) ==
    /\ mainPc = "poll" /\ mainPc' = "select"
    /\ b <= chainHead
    /\ SubmitBegin(b)
    /\ UNCHANGED <<chainHead, endpointVars, sessionVars, readerVars, events>>

PollFailed ==
    /\ mainPc = "poll" /\ mainPc' = "select"
    /\ UNCHANGED <<schedulerVars, chainHead, endpointVars, sessionVars, readerVars, events>>

-----------------------------------------------------------------------------
SchedulerStep ==
    /\ Submit \/ Run
    /\ UNCHANGED <<chainHead, endpointVars, sessionVars, readerVars, events, mainPc>>

SessionStep == ChooseEndpoint \/ DialFailed \/ Connect \/ Disconnect
ReaderStep == \E s \in Sessions :
                  EmitHead(s) \/ ReadFailed(s) \/ \E b \in 1..MaxBlock : ReadHead(s, b)
MainStep == MainEvent \/ MainPoll \/ PollFailed \/ \E b \in 1..MaxBlock : PollAnswered(b)

StreamNext ==
    \/ NewBlock \/ (\E e \in EndpointRing : Rest(e))
    \/ SessionStep \/ ReaderStep \/ MainStep \/ SchedulerStep

StreamSpec == StreamInit /\ [][StreamNext]_streamVars

\* Fairness.  The goroutines keep running.  A live subscription delivers the
\* newest head, a provider polled again and again answers with it once.  The
\* Go select statement picks at random, so neither the events channel nor the
\* poll ticker starves.
Fairness ==
    /\ WF_streamVars(Submit /\ SchedulerStep) /\ WF_streamVars(Run /\ SchedulerStep)
    /\ WF_streamVars(\E s \in Sessions : s = session /\ sessionPc = "read" /\ ReadHead(s, chainHead))
    /\ WF_streamVars(sessionPc = "read" /\ readerPc[session] = "off" /\ Disconnect)
    /\ \A s \in Sessions : WF_streamVars(EmitHead(s))
    /\ SF_streamVars(MainEvent) /\ SF_streamVars(MainPoll)
    /\ WF_streamVars(MainStep /\ mainPc = "poll") /\ SF_streamVars(PollAnswered(chainHead))

FairSpec == StreamSpec /\ Fairness

-----------------------------------------------------------------------------
(* Properties.                                                             *)

\* No head is emitted twice, although the reader of a lost session and the
\* reader of its successor share lastBlock and the events channel.
NoDuplicateHead ==
    /\ \A i, j \in DOMAIN events : i # j => events[i] # events[j]
    /\ \A s, r \in Sessions : readerPc[s] = "emit" /\ readerPc[r] = "emit" /\ s # r =>
           readerBlock[s] # readerBlock[r]
    /\ \A s \in Sessions, i \in DOMAIN events : readerPc[s] = "emit" => readerBlock[s] # events[i]

\* The newest head reaches the market cycle through connection losses,
\* failing dials, failing polls and heads that arrive in any order.
HeadReachesHandler == chainHead = MaxBlock ~> handling = MaxBlock
=============================================================================
