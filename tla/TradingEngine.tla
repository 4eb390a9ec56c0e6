---------------------------- MODULE TradingEngine ----------------------------
(***************************************************************************)
(* TradingEngine (src/TradingEngine.cpp): the network thread offers trades *)
(* (process_trade), the thread that owns the engine drains the buffer      *)
(* (process_pending_ticks) and makes the control calls.  What a tick does  *)
(* to the indicators is in Indicators.                                     *)
(*                                                                         *)
(* The source names a member tick_buffer_ that TradingEngine.h does not    *)
(* declare; its push and pop are those of TickBuffer.                      *)
(***************************************************************************)
EXTENDS TickBuffer

VARIABLES
  state,       \* state_
  collecting,  \* collecting_data_
  running,     \* running_ of the WebSocket client
  connected,   \* connected_ of the WebSocket client
  thread,      \* client_thread_: "none", "up", "down" (link over), "ended"
  owner,       \* where the owner's thread stands
  late         \* history: ticks put in the buffer since collecting was cleared

engineVars == <<state, collecting, running, connected, thread, owner, late>>
vars == <<bufferVars, engineVars>>

OwnerIdle == owner = "idle" /\ cons = "idle"

Init ==
  /\ BufferInit
  /\ state = "IDLE"
  /\ collecting = FALSE
  /\ running = FALSE
  /\ connected = FALSE
  /\ thread = "none"
  /\ owner = "idle"
  /\ late = 0
-----------------------------------------------------------------------------
(***************************************************************************)
(* Network thread                                                          *)
(***************************************************************************)
\* Mutant: trades are taken whether the engine collects or not.
ProcessTradeAlways(tick) ==
  /\ connected
  /\ PushCall(tick)
  /\ UNCHANGED engineVars

ProcessTrade(tick) ==
  /\ connected
  /\ collecting
  /\ PushCall(tick)
  /\ UNCHANGED engineVars

ContinuePush ==
  /\ PushStep
  /\ late' = IF prod = "setReady" /\ ~collecting THEN late + 1 ELSE late
  /\ UNCHANGED <<state, collecting, running, connected, thread, owner>>

\* on_open.
LinkOpens ==
  /\ thread = "up" /\ ~connected
  /\ connected' = TRUE
  /\ UNCHANGED <<bufferVars, state, collecting, running, thread, owner, late>>

\* on_close and on_fail; then run_client returns.
LinkEnds ==
  /\ thread = "up" /\ prod = "idle"
  /\ thread' = "down"
  /\ connected' = FALSE
  /\ UNCHANGED <<bufferVars, state, collecting, running, owner, late>>

RunReturns ==
  /\ thread = "down"
  /\ thread' = "ended"
  /\ running' = FALSE
  /\ UNCHANGED <<bufferVars, state, collecting, connected, owner, late>>
-----------------------------------------------------------------------------
(***************************************************************************)
(* The owner's thread                                                      *)
(***************************************************************************)
\* process_pending_ticks pops until pop fails.
DrainPop ==
  /\ owner \in {"idle", "draining"}
  /\ PopReady
  /\ owner' = "draining"
  /\ UNCHANGED <<state, collecting, running, connected, thread, late>>

DrainEnd ==
  /\ owner \in {"idle", "draining"}
  /\ PopNotReady
  /\ owner' = "idle"
  /\ UNCHANGED <<state, collecting, running, connected, thread, late>>

ContinuePop == PopStep /\ UNCHANGED engineVars

StartDataCollection ==
  /\ OwnerIdle
  /\ state = "CONNECTED"
  /\ collecting' = TRUE
  /\ late' = 0
  /\ UNCHANGED <<bufferVars, state, running, connected, thread, owner>>

StopDataCollection ==
  /\ OwnerIdle
  /\ collecting' = FALSE
  /\ state' = "STOPPED"
  /\ UNCHANGED <<bufferVars, running, connected, thread, owner, late>>

\* Only a connected client is told to disconnect.
Disconnect ==
  /\ OwnerIdle
  /\ collecting' = FALSE
  /\ running' = (running /\ ~connected)
  /\ state' = "IDLE"
  /\ UNCHANGED <<bufferVars, connected, thread, owner, late>>

\* connect() of a running client does nothing; otherwise it assigns to its
\* thread, which terminates the process if there has been one.
Reconnect ==
  /\ OwnerIdle
  /\ state \in {"IDLE", "STOPPED"}
  /\ state' = "CONNECTING"
  /\ running' = TRUE
  /\ thread' = IF thread = "none" THEN "up" ELSE thread
  /\ owner' = IF running \/ thread = "none" THEN "waiting" ELSE "terminated"
  /\ UNCHANGED <<bufferVars, collecting, connected, late>>

ReconnectEnd ==
  /\ owner = "waiting"
  /\ owner' = "idle"
  /\ state' = IF connected THEN "CONNECTED" ELSE "IDLE"
  /\ UNCHANGED <<bufferVars, collecting, running, connected, thread, late>>

\* With bars loaded; without them run_backtest does nothing.
RunBacktest ==
  /\ OwnerIdle
  /\ state' = "RUNNING_BACKTEST"
  /\ owner' = "testing"
  /\ UNCHANGED <<bufferVars, collecting, running, connected, thread, late>>

\* The state before the backtest is not restored.
RunBacktestEnd ==
  /\ owner = "testing"
  /\ state' = "CONNECTED"
  /\ owner' = "idle"
  /\ UNCHANGED <<bufferVars, collecting, running, connected, thread, late>>

AskAvailable ==
  /\ Available
  /\ UNCHANGED engineVars

Alive == owner # "terminated"

Network ==
  \/ \E tick \in Ticks : ProcessTrade(tick)
  \/ ContinuePush
  \/ LinkOpens
  \/ LinkEnds
  \/ RunReturns

Drain == DrainPop \/ DrainEnd \/ ContinuePop

Control ==
  \/ StartDataCollection
  \/ StopDataCollection
  \/ Disconnect
  \/ Reconnect
  \/ ReconnectEnd
  \/ RunBacktest
  \/ RunBacktestEnd

Next == Alive /\ (Network \/ Drain \/ Control \/ AskAvailable)

Spec == Init /\ [][Next]_vars

\* A push once begun goes on, control calls return, and the owner keeps
\* draining; a flag that stays set becomes visible to it in the end.
Fairness ==
  /\ WF_vars(Alive /\ ContinuePush)
  /\ WF_vars(Alive /\ (ContinuePop \/ ReconnectEnd \/ RunBacktestEnd))
  /\ SF_vars(Alive /\ DrainPop)

FairSpec == Spec /\ Fairness
-----------------------------------------------------------------------------
\* Stopping does not interrupt the network thread: at most the one trade it was
\* storing still enters the buffer.
StopLetsOneIn == late <= 1

\* A tick in the buffer is processed, also after collection has stopped.
EveryTickProcessed ==
  \A i \in 1..MaxPush : Len(accepted) >= i ~> Len(delivered) >= i \/ ~Alive
=============================================================================
