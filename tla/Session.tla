------------------------------- MODULE Session ------------------------------
(***************************************************************************)
(* One run of the program: main.cpp's start-up and frame loop, the buttons *)
(* of the dashboard, the life of the WebSocket client's thread             *)
(* (BinanceWebSocketClient.cpp), and market_data.csv, which main writes    *)
(* through CSVWriter and Backtester::load_csv reads back.  What the        *)
(* messages do to the book is MarketFeed's subject; here a message only    *)
(* makes the last trade price positive.                                    *)
(***************************************************************************)
EXTENDS Integers, FiniteSets

CONSTANTS
  RowEvery,        \* main writes a row every so many samples (5)
  BacktestEvery,   \* and looks for an automatic backtest at these (100)
  MaxSamples       \* bound: samples that fit in 180 s of 16 ms frames

ASSUME SessionAssumption ==
  /\ RowEvery \in Nat \ {0}
  /\ BacktestEvery \in Nat \ {0}
  /\ MaxSamples \in Nat

Buttons == {"connect", "disconnect", "stop", "backtest"}
StartingUp == {"start", "openCsv", "connect", "assign", "started", "waiting", "load"}
Ended == {"failed", "done", "crashed"}

VARIABLES
  pc,          \* where main is
  app,         \* the dashboard's AppState
  collecting,  \* collecting_data
  request,     \* *_requested_ flags that are set
  elapsed,     \* 180 s have passed
  running,     \* running_
  connected,   \* connected_
  thread,      \* client_thread_: "none", "run" (in run_client), "ended"
  link,        \* state of the connection
  traded,      \* ob.get_last_trade_price() > 0
  csvOpen,     \* the writer could open, and so truncate, the file
  rows,        \* data rows written to the stream
  disk,        \* data rows in the file
  samples,     \* sample_count
  loaded,      \* backtest_loaded
  backtested   \* backtest_running

uiVars == <<app, collecting, request, elapsed>>
netVars == <<running, connected, thread, link, traded>>
csvVars == <<csvOpen, rows, disk>>
dataVars == <<samples, loaded, backtested>>
vars == <<pc, uiVars, netVars, csvVars, dataVars>>

Init ==
  /\ pc = "start"
  /\ app = "IDLE"
  /\ collecting = TRUE
  /\ request = {}
  /\ elapsed = FALSE
  /\ running = FALSE
  /\ connected = FALSE
  /\ thread = "none"
  /\ link = "none"
  /\ traded = FALSE
  /\ csvOpen = FALSE
  /\ rows = 0
  /\ disk \in {0, 1}
  /\ samples = 0
  /\ loaded = FALSE
  /\ backtested = FALSE

MainGoto(from, to) == pc = from /\ pc' = to
-----------------------------------------------------------------------------
(***************************************************************************)
(* BinanceWebSocketClient::connect, called by main at from, back at to     *)
(***************************************************************************)
ConnectTest(from, mid, to) ==
  /\ MainGoto(from, IF running THEN to ELSE mid)
  /\ running' = TRUE
  /\ UNCHANGED <<uiVars, connected, thread, link, traded, csvVars, dataVars>>

\* get_connection reports an error, or something throws.
ConnectError(mid, to) ==
  /\ MainGoto(mid, to)
  /\ running' = FALSE
  /\ UNCHANGED <<uiVars, connected, thread, link, traded, csvVars, dataVars>>

\* A thread that nobody joined or detached is joinable, even when it has
\* returned; to assign to it is std::terminate.
Joinable == thread # "none"

ConnectStart(mid, to) ==
  /\ ~Joinable
  /\ MainGoto(mid, to)
  /\ thread' = "run"
  /\ link' = "opening"
  /\ UNCHANGED <<uiVars, running, connected, traded, csvVars, dataVars>>

ConnectTerminate(mid) ==
  /\ Joinable
  /\ MainGoto(mid, "crashed")
  /\ UNCHANGED <<uiVars, netVars, csvVars, dataVars>>
-----------------------------------------------------------------------------
(***************************************************************************)
(* The client's thread and the network                                     *)
(***************************************************************************)
OnOpen ==
  /\ link = "opening"
  /\ link' = "open"
  /\ connected' = TRUE
  /\ UNCHANGED <<running, thread, traded>>

\* on_fail, on_close.
OnDown ==
  /\ link \in {"opening", "open"}
  /\ link' = "closed"
  /\ connected' = FALSE
  /\ UNCHANGED <<running, thread, traded>>

\* on_message with an aggTrade.
OnTrade ==
  /\ link = "open"
  /\ traded' = TRUE
  /\ UNCHANGED <<running, connected, thread, link>>

\* Without a connection client_.run() is out of work and returns.
RunReturns ==
  /\ thread = "run"
  /\ link = "closed"
  /\ thread' = "ended"
  /\ running' = FALSE
  /\ UNCHANGED <<connected, link, traded>>

Network ==
  /\ pc \notin Ended
  /\ OnOpen \/ OnDown \/ OnTrade \/ RunReturns
  /\ UNCHANGED <<pc, uiVars, csvVars, dataVars>>
-----------------------------------------------------------------------------
(***************************************************************************)
(* main: start-up                                                          *)
(***************************************************************************)
Start ==
  /\ MainGoto("start", "openCsv")
  /\ UNCHANGED <<uiVars, netVars, csvVars, dataVars>>

\* No dashboard, or a snapshot that does not parse.
StartFails ==
  /\ MainGoto("start", "failed")
  /\ UNCHANGED <<uiVars, netVars, csvVars, dataVars>>

OpenCsv ==
  /\ MainGoto("openCsv", "connect")
  /\ csvOpen' = TRUE
  /\ disk' = 0
  /\ UNCHANGED <<uiVars, netVars, rows, dataVars>>

OpenCsvFails ==
  /\ MainGoto("openCsv", "connect")
  /\ UNCHANGED <<uiVars, netVars, csvVars, dataVars>>

ShowConnecting ==
  /\ MainGoto("started", "waiting")
  /\ app' = "CONNECTING"
  /\ UNCHANGED <<collecting, request, elapsed, netVars, csvVars, dataVars>>

\* Two seconds later, whatever has become of the connection.
ShowConnected ==
  /\ MainGoto("waiting", "load")
  /\ app' = "CONNECTED"
  /\ UNCHANGED <<collecting, request, elapsed, netVars, csvVars, dataVars>>

LoadCsv ==
  /\ MainGoto("load", "stop")
  /\ loaded' = (disk > 0)
  /\ UNCHANGED <<uiVars, netVars, csvVars, samples, backtested>>
-----------------------------------------------------------------------------
(***************************************************************************)
(* main: one frame                                                         *)
(***************************************************************************)
\* collecting_data = false, set_app_state, disconnect(): the connection and
\* its thread are left as they are.
Halt(button, state) ==
  IF button \in request
  THEN collecting' = FALSE /\ app' = state /\ running' = FALSE
  ELSE UNCHANGED <<collecting, app, running>>

HandleStop ==
  /\ MainGoto("stop", "disconnect")
  /\ Halt("stop", "STOPPED")
  /\ UNCHANGED <<request, elapsed, connected, thread, link, traded, csvVars, dataVars>>

HandleDisconnect ==
  /\ MainGoto("disconnect", "connectButton")
  /\ Halt("disconnect", "IDLE")
  /\ UNCHANGED <<request, elapsed, connected, thread, link, traded, csvVars, dataVars>>

WantsConnect == "connect" \in request /\ app = "IDLE"

HandleConnect ==
  /\ MainGoto("connectButton", IF WantsConnect THEN "reconnect" ELSE "backtest")
  /\ app' = IF WantsConnect THEN "CONNECTING" ELSE app
  /\ UNCHANGED <<collecting, request, elapsed, netVars, csvVars, dataVars>>

\* Mutant: the collection goes on whether or not the connection is there.
CheckReconnectAlways ==
  /\ MainGoto("check", "backtest")
  /\ collecting' = TRUE
  /\ app' = IF connected THEN "CONNECTED" ELSE "IDLE"
  /\ UNCHANGED <<request, elapsed, netVars, csvVars, dataVars>>

\* One second after connect().
CheckReconnect ==
  /\ MainGoto("check", "backtest")
  /\ collecting' = (collecting \/ connected)
  /\ app' = IF connected THEN "CONNECTED" ELSE "IDLE"
  /\ UNCHANGED <<request, elapsed, netVars, csvVars, dataVars>>

HandleBacktest ==
  /\ MainGoto("backtest", "exit")
  /\ backtested' = (backtested \/ ("backtest" \in request /\ loaded))
  /\ request' = {}
  /\ UNCHANGED <<app, collecting, elapsed, netVars, csvVars, samples, loaded>>

\* Mutant: no timeout.
TimedOutBySamples == samples = MaxSamples

\* should_close() is false here: render reports a closed window itself.
TimedOut == elapsed \/ samples = MaxSamples

TestExit ==
  /\ MainGoto("exit", IF TimedOut THEN "cleanup" ELSE "sample")
  /\ UNCHANGED <<uiVars, netVars, csvVars, dataVars>>

Skip ==
  /\ ~(traded /\ collecting)
  /\ MainGoto("sample", "auto")
  /\ UNCHANGED <<uiVars, netVars, csvVars, dataVars>>

WritesRow == csvOpen /\ (samples + 1) % RowEvery = 0

Sample ==
  /\ traded /\ collecting
  /\ MainGoto("sample", "auto")
  /\ samples' = samples + 1
  /\ rows' = IF WritesRow THEN rows + 1 ELSE rows
  /\ UNCHANGED <<uiVars, netVars, csvOpen, disk, loaded, backtested>>

AutoBacktestDue == ~backtested /\ loaded /\ samples > 0 /\ samples % BacktestEvery = 0

\* load_csv again, its result ignored, and run.
AutoBacktest ==
  /\ MainGoto("auto", "render")
  /\ backtested' = (backtested \/ AutoBacktestDue)
  /\ UNCHANGED <<uiVars, netVars, csvVars, samples, loaded>>

\* The user presses buttons while the frame is drawn ...
Render ==
  /\ MainGoto("render", "stop")
  /\ request' \in SUBSET Buttons
  /\ UNCHANGED <<app, collecting, elapsed, netVars, csvVars, dataVars>>

\* ... or closes the window.
CloseWindow ==
  /\ MainGoto("render", "cleanup")
  /\ UNCHANGED <<uiVars, netVars, csvVars, dataVars>>

\* Mutant: nothing is flushed.
FlushNot == UNCHANGED disk

Flush == disk' = IF csvOpen THEN rows ELSE disk

Cleanup ==
  /\ MainGoto("cleanup", "done")
  /\ running' = FALSE
  /\ Flush
  /\ UNCHANGED <<uiVars, connected, thread, link, traded, csvOpen, rows, dataVars>>
-----------------------------------------------------------------------------
\* The stream's buffer is full and part of it reaches the file.
Spill ==
  /\ csvOpen
  /\ pc \notin Ended
  /\ disk' \in (disk + 1)..rows
  /\ UNCHANGED <<pc, uiVars, netVars, csvOpen, rows, dataVars>>

\* The clock of the timeout starts with the frame loop.
TimePasses ==
  /\ pc \notin StartingUp \cup Ended
  /\ ~elapsed
  /\ elapsed' = TRUE
  /\ UNCHANGED <<pc, app, collecting, request, netVars, csvVars, dataVars>>

Startup ==
  \/ Start \/ StartFails
  \/ OpenCsv \/ OpenCsvFails
  \/ ConnectTest("connect", "assign", "started")
  \/ ConnectError("assign", "started")
  \/ ConnectStart("assign", "started")
  \/ ShowConnecting \/ ShowConnected
  \/ LoadCsv

Frame ==
  \/ HandleStop \/ HandleDisconnect \/ HandleConnect
  \/ ConnectTest("reconnect", "reassign", "check")
  \/ ConnectError("reassign", "check")
  \/ ConnectStart("reassign", "check")
  \/ ConnectTerminate("reassign")
  \/ CheckReconnect
  \/ HandleBacktest
  \/ TestExit
  \/ Skip \/ Sample
  \/ AutoBacktest
  \/ Render \/ CloseWindow

Main == Startup \/ Frame \/ Cleanup

Next == Main \/ Network \/ Spill \/ TimePasses

Spec == Init /\ [][Next]_vars

\* Frames go on and time passes.  Nothing is assumed of the start-up, which may
\* wait for ever in the snapshot's connection (BinanceRESTClient.cpp:53,70 have
\* no timeout), nor of the network.
SessionFairness == WF_vars(Frame \/ Cleanup) /\ WF_vars(TimePasses)

FairSpec == Spec /\ SessionFairness
-----------------------------------------------------------------------------
(***************************************************************************)
(* Correctness                                                             *)
(***************************************************************************)
\* Samples are taken in exactly the frames that the dashboard shows as
\* CONNECTED, whatever buttons came together in one frame and whatever became
\* of a reconnection (main.cpp:76-101).
SamplesWhileConnected == pc = "sample" => (collecting <=> app = "CONNECTED")

\* A session that ends in cleanup has a row in the file for every RowEvery
\* samples, over stops, lost connections and reconnections.
RowsSaved == pc = "done" /\ csvOpen => disk = samples \div RowEvery

\* Once the frame loop has begun it ends, with no window closed, no data and no
\* connection ("180 second timeout"), unless the process is terminated before.
SessionEnds == pc = "stop" ~> pc \in Ended

\* main.cpp:174-180 ("Run backtester if not already running and data exists", "Run
\* backtest on accumulated data"): a session that has collected BacktestEvery
\* samples and written rows has been backtested.
BacktestOnAccumulatedData ==
  pc = "render" /\ samples >= BacktestEvery /\ rows > 0 => backtested

\* The CONNECT button reconnects (main.cpp:91, "User pressed CONNECT -
\* reconnecting..."): the process lives on.
ConnectButtonSurvives == pc # "crashed"
=============================================================================
