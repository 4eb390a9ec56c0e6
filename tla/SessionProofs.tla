--------------------------- MODULE SessionProofs ----------------------------
(***************************************************************************)
(* A session of main.cpp samples in the frames it shows as connected,      *)
(* leaves a row for every RowEvery samples, and never runs a backtest on   *)
(* the file it writes, for every value of the three constants.             *)
(***************************************************************************)
EXTENDS Session, TLAPS

-----------------------------------------------------------------------------
(***************************************************************************)
(* The inductive invariant.                                                *)
(***************************************************************************)
\* main before connect() has created a thread, and before it has read the file.
BeforeThread == {"start", "openCsv", "connect", "assign", "failed"}
BeforeLoad == {"start", "openCsv", "connect", "assign", "started", "waiting", "load", "failed"}

\* Types of the variables that count or name; the flags need none below.
TypeOK ==
  /\ pc \in BeforeLoad \cup Ended \cup
       {"stop", "disconnect", "connectButton", "reconnect", "reassign", "check", "backtest",
        "exit", "sample", "auto", "render", "cleanup"}
  /\ rows \in Nat
  /\ disk \in Nat
  /\ samples \in Nat
  /\ thread \in {"none", "run", "ended"}

\* Only connect() creates a thread.
ThreadInv == pc \in BeforeThread => thread = "none"

\* The stream holds the rows that are due, the file no more than the stream.
RowInv ==
  /\ csvOpen => /\ rows = samples \div RowEvery
                /\ disk <= rows
  /\ pc \in {"start", "openCsv", "failed"} => ~csvOpen
  /\ pc \in BeforeLoad => samples = 0 /\ rows = 0
  /\ pc = "done" /\ csvOpen => disk = rows

\* Bars are loaded only from a file that could not be truncated.
BacktestInv ==
  /\ loaded => ~csvOpen
  /\ backtested => loaded
  /\ pc \in BeforeLoad => ~loaded

IInv == TypeOK /\ ThreadInv /\ RowInv /\ BacktestInv

\* What the dashboard shows, at every point of start-up and frame.
ShowInv ==
  /\ pc \in StartingUp => collecting
  /\ pc = "load" => app = "CONNECTED"
  /\ pc \in {"reconnect", "reassign", "check"} => app = "CONNECTING"
  /\ pc \notin StartingUp \cup {"failed"} => (collecting <=> app = "CONNECTED")
-----------------------------------------------------------------------------
(***************************************************************************)
(* Rows and samples.                                                       *)
(***************************************************************************)
\* A row falls due with exactly the samples that are a multiple of RowEvery.
LEMMA RowsDue ==
  ASSUME NEW n \in Nat
  PROVE  (n + 1) \div RowEvery =
           (n \div RowEvery) + (IF (n + 1) % RowEvery = 0 THEN 1 ELSE 0)
<1> DEFINE q == n \div RowEvery
           r == n % RowEvery
           q2 == (n + 1) \div RowEvery
           r2 == (n + 1) % RowEvery
<1>1. RowEvery \in Nat \ {0}
  BY SessionAssumption
<1>2. n = RowEvery * q + r /\ q \in Int /\ r \in Int /\ 0 <= r /\ r < RowEvery
  BY <1>1
<1>3. n + 1 \in Int
  OBVIOUS
<1>4. n + 1 = RowEvery * q2 + r2 /\ q2 \in Int /\ r2 \in Int /\ 0 <= r2 /\ r2 < RowEvery
  BY <1>1, <1>3
<1> HIDE DEF q, r, q2, r2
<1>5. RowEvery * (q2 - q) = r + 1 - r2
  BY <1>1, <1>2, <1>4
<1>6. ASSUME q2 - q <= -1 PROVE FALSE
  BY <1>1, <1>2, <1>4, <1>5, <1>6
<1>7. ASSUME q2 - q >= 2 PROVE FALSE
  BY <1>1, <1>2, <1>4, <1>5, <1>7
<1>8. q2 = q + (IF r2 = 0 THEN 1 ELSE 0)
  <2>1. q2 = q \/ q2 = q + 1
    BY <1>2, <1>4, <1>6, <1>7
  <2>2. q2 = q => r2 = r + 1
    BY <1>1, <1>2, <1>4, <1>5
  <2>3. q2 = q + 1 => r2 = r + 1 - RowEvery
    BY <1>1, <1>2, <1>4, <1>5
  <2> QED BY <1>1, <1>2, <1>4, <2>1, <2>2, <2>3
<1> QED BY <1>8 DEF q, q2, r2

LEMMA RowsType ==
  ASSUME NEW n \in Nat
  PROVE  n \div RowEvery \in Nat /\ 0 \div RowEvery = 0
BY SessionAssumption
-----------------------------------------------------------------------------
(***************************************************************************)
(* Every step preserves the invariant.                                     *)
(***************************************************************************)
LEMMA InitIInv == Init => IInv
<1> SUFFICES ASSUME Init PROVE IInv
  OBVIOUS
<1> USE DEF Init, BeforeLoad, BeforeThread
<1>1. TypeOK BY DEF TypeOK
<1>2. ThreadInv BY DEF ThreadInv
<1>3. RowInv BY DEF RowInv
<1>4. BacktestInv BY DEF BacktestInv
<1> QED BY <1>1, <1>2, <1>3, <1>4 DEF IInv

\* connect() starts a thread only when there has been none.
LEMMA ConnectInv ==
  ASSUME IInv, NEW from, NEW mid, NEW to,
         <<from, mid, to>> \in {<<"connect", "assign", "started">>,
                                <<"reconnect", "reassign", "check">>},
         \/ ConnectTest(from, mid, to)
         \/ ConnectError(mid, to)
         \/ ConnectStart(mid, to)
         \/ mid = "reassign" /\ ConnectTerminate(mid)
  PROVE  IInv'
<1> USE DEF IInv, MainGoto, uiVars, csvVars, dataVars, netVars
<1>1. TypeOK'
  <2> USE DEF TypeOK, BeforeLoad, Ended
  <2>1. CASE ConnectTest(from, mid, to) BY <2>1 DEF ConnectTest
  <2>2. CASE ConnectError(mid, to) BY <2>2 DEF ConnectError
  <2>3. CASE ConnectStart(mid, to) BY <2>3 DEF ConnectStart
  <2>4. CASE ConnectTerminate(mid) BY <2>4 DEF ConnectTerminate
  <2> QED BY <2>1, <2>2, <2>3, <2>4
<1>2. ThreadInv'
  BY DEF TypeOK, ThreadInv, BeforeThread, ConnectTest, ConnectError, ConnectStart,
         ConnectTerminate, Joinable
<1>3. RowInv'
  BY DEF RowInv, BeforeLoad, ConnectTest, ConnectError, ConnectStart, ConnectTerminate
<1>4. BacktestInv'
  BY DEF BacktestInv, BeforeLoad, ConnectTest, ConnectError, ConnectStart, ConnectTerminate
<1> QED BY <1>1, <1>2, <1>3, <1>4

LEMMA StartupInv ==
  ASSUME IInv, Startup
  PROVE  IInv'
<1> USE DEF IInv, MainGoto, uiVars, csvVars, dataVars, netVars
<1>1. CASE Start \/ StartFails
  BY <1>1 DEF Start, StartFails, TypeOK, ThreadInv, RowInv, BacktestInv, BeforeLoad,
              BeforeThread, Ended
<1>2. CASE OpenCsv \/ OpenCsvFails
  <2> USE <1>2 DEF OpenCsv, OpenCsvFails
  <2>1. TypeOK' BY DEF TypeOK, BeforeLoad
  <2>2. ThreadInv' BY DEF ThreadInv, BeforeThread
  <2>3. RowInv' BY RowsType DEF TypeOK, RowInv, BeforeLoad
  <2>4. BacktestInv'
    <3>1. pc = "openCsv" /\ ~loaded /\ ~backtested
      BY DEF BacktestInv, BeforeLoad
    <3> QED BY <3>1 DEF BacktestInv
  <2> QED BY <2>1, <2>2, <2>3, <2>4
<1>3. CASE \/ ConnectTest("connect", "assign", "started")
           \/ ConnectError("assign", "started")
           \/ ConnectStart("assign", "started")
  BY <1>3, ConnectInv
<1>4. CASE ShowConnecting \/ ShowConnected
  BY <1>4 DEF ShowConnecting, ShowConnected, TypeOK, ThreadInv, RowInv, BacktestInv,
              BeforeLoad, BeforeThread
<1>5. CASE LoadCsv
  <2> USE <1>5 DEF LoadCsv
  <2>1. TypeOK' BY DEF TypeOK, BeforeLoad
  <2>2. ThreadInv' BY DEF ThreadInv, BeforeThread
  <2>3. RowInv' BY DEF RowInv, BeforeLoad
  <2>4. BacktestInv'
    <3>1. csvOpen => disk = 0
      BY DEF TypeOK, RowInv, BeforeLoad
    <3>2. ~backtested /\ pc' = "stop"
      BY DEF BacktestInv, BeforeLoad
    <3>3. loaded' <=> disk > 0
      OBVIOUS
    <3>4. disk = 0 => ~(disk > 0)
      OBVIOUS
    <3> QED BY <3>1, <3>2, <3>3, <3>4 DEF BacktestInv, BeforeLoad
  <2> QED BY <2>1, <2>2, <2>3, <2>4
<1> QED BY <1>1, <1>2, <1>3, <1>4, <1>5 DEF Startup

\* A sample that is due a row adds it.
LEMMA SampleInv ==
  ASSUME IInv, Sample
  PROVE  IInv'
<1> USE DEF IInv, Sample, MainGoto, uiVars, netVars
<1>1. TypeOK' BY DEF TypeOK, BeforeLoad
<1>2. ThreadInv' BY DEF ThreadInv, BeforeThread
<1>3. RowInv'
  <2>1. samples \in Nat /\ samples \div RowEvery \in Nat
    BY RowsType DEF TypeOK
  <2>2. csvOpen => rows' = samples' \div RowEvery /\ disk <= rows'
    BY <2>1, RowsDue DEF RowInv, TypeOK, WritesRow
  <2> QED BY <2>2 DEF RowInv, BeforeLoad
<1>4. BacktestInv' BY DEF BacktestInv, BeforeLoad
<1> QED BY <1>1, <1>2, <1>3, <1>4

LEMMA FrameInv ==
  ASSUME IInv, Frame
  PROVE  IInv'
<1> USE DEF MainGoto, uiVars, csvVars, dataVars, netVars
<1>1. CASE HandleStop \/ HandleDisconnect
  BY <1>1 DEF HandleStop, HandleDisconnect, IInv, TypeOK, ThreadInv, RowInv, BacktestInv,
              BeforeLoad, BeforeThread, Ended
<1>2. CASE HandleConnect \/ CheckReconnect
  BY <1>2 DEF HandleConnect, CheckReconnect, IInv, TypeOK, ThreadInv, RowInv, BacktestInv,
              BeforeLoad, BeforeThread, Ended
<1>3. CASE \/ ConnectTest("reconnect", "reassign", "check")
           \/ ConnectError("reassign", "check")
           \/ ConnectStart("reassign", "check")
           \/ ConnectTerminate("reassign")
  BY <1>3, ConnectInv
<1>4. CASE HandleBacktest \/ AutoBacktest
  <2> USE <1>4 DEF HandleBacktest, AutoBacktest, BeforeLoad, IInv
  <2>1. TypeOK' BY DEF TypeOK
  <2>2. ThreadInv' BY DEF ThreadInv, BeforeThread
  <2>3. RowInv' BY DEF RowInv
  <2>4. BacktestInv'
    <3>1. backtested' => backtested \/ loaded
      BY DEF AutoBacktestDue
    <3>2. loaded' = loaded /\ csvOpen' = csvOpen /\ pc' \in {"exit", "render"}
      OBVIOUS
    <3> QED BY <3>1, <3>2 DEF BacktestInv
  <2> QED BY <2>1, <2>2, <2>3, <2>4
<1>5. CASE TestExit \/ Skip \/ Render \/ CloseWindow
  BY <1>5 DEF TestExit, Skip, Render, CloseWindow, IInv, TypeOK, ThreadInv, RowInv,
              BacktestInv, BeforeLoad, BeforeThread, Ended
<1>6. CASE Sample
  BY <1>6, SampleInv
<1> QED BY <1>1, <1>2, <1>3, <1>4, <1>5, <1>6 DEF Frame

\* The steps around main: the end of the session, the network, the stream.
LEMMA CleanupInv ==
  ASSUME IInv, Cleanup
  PROVE  IInv'
BY DEF Cleanup, Flush, MainGoto, uiVars, dataVars, IInv, TypeOK, ThreadInv, RowInv,
       BacktestInv, BeforeLoad, BeforeThread, Ended

LEMMA NetworkInv ==
  ASSUME IInv, Network
  PROVE  IInv'
BY DEF Network, OnOpen, OnDown, OnTrade, RunReturns, uiVars, csvVars, dataVars, IInv,
       TypeOK, ThreadInv, RowInv, BacktestInv, BeforeLoad, BeforeThread, Ended

LEMMA SpillInv ==
  ASSUME IInv, Spill
  PROVE  IInv'
BY DEF Spill, uiVars, netVars, dataVars, IInv, TypeOK, ThreadInv, RowInv, BacktestInv,
       BeforeLoad, BeforeThread, Ended

LEMMA QuietInv ==
  ASSUME IInv, TimePasses \/ UNCHANGED vars
  PROVE  IInv'
BY DEF TimePasses, vars, uiVars, netVars, csvVars, dataVars, IInv, TypeOK, ThreadInv,
       RowInv, BacktestInv

\* The invariant holds in every reachable state of a session.
THEOREM SessionInvariance == Spec => []IInv
<1>1. Init => IInv
  BY InitIInv
<1>2. IInv /\ [Next]_vars => IInv'
  BY StartupInv, FrameInv, CleanupInv, NetworkInv, SpillInv, QuietInv DEF Next, Main
<1> QED BY <1>1, <1>2, PTL DEF Spec

LEMMA ShowInvStep ==
  ASSUME ShowInv, [Next]_vars
  PROVE  ShowInv'
<1> USE DEF MainGoto, uiVars, netVars, csvVars, dataVars, ShowInv, StartingUp
<1>1. CASE Startup
  BY <1>1 DEF Startup, Start, StartFails, OpenCsv, OpenCsvFails, ConnectTest, ConnectError,
              ConnectStart, ShowConnecting, ShowConnected, LoadCsv
<1>2. CASE HandleStop \/ HandleDisconnect
  <2>1. pc \in {"stop", "disconnect"} /\ pc' \in {"disconnect", "connectButton"}
    BY <1>2 DEF HandleStop, HandleDisconnect
  <2>2. \/ collecting' = FALSE /\ app' \in {"STOPPED", "IDLE"}
        \/ UNCHANGED <<collecting, app>>
    BY <1>2 DEF HandleStop, HandleDisconnect, Halt
  <2>3. CASE collecting' = FALSE /\ app' \in {"STOPPED", "IDLE"}
    BY <2>1, <2>3
  <2>4. CASE UNCHANGED <<collecting, app>>
    BY <2>1, <2>4
  <2> QED BY <2>2, <2>3, <2>4
<1>3. CASE HandleConnect
  BY <1>3 DEF HandleConnect, WantsConnect
<1>7. CASE CheckReconnect
  <2>1. pc = "check" /\ pc' = "backtest" /\ app = "CONNECTING" /\ ~collecting
    BY <1>7 DEF CheckReconnect
  <2>2. CASE connected
    <3>1. collecting' /\ app' = "CONNECTED"
      BY <1>7, <2>2 DEF CheckReconnect
    <3> QED BY <2>1, <3>1
  <2>3. CASE ~connected
    <3>1. ~collecting' /\ app' = "IDLE"
      BY <1>7, <2>1, <2>3 DEF CheckReconnect
    <3> QED BY <2>1, <3>1
  <2> QED BY <2>2, <2>3
<1>4. CASE \/ ConnectTest("reconnect", "reassign", "check")
           \/ ConnectError("reassign", "check")
           \/ ConnectStart("reassign", "check")
           \/ ConnectTerminate("reassign")
  BY <1>4 DEF ConnectTest, ConnectError, ConnectStart, ConnectTerminate
<1>5. CASE HandleBacktest \/ TestExit \/ Skip \/ Sample \/ AutoBacktest \/ Render \/ CloseWindow
  BY <1>5 DEF HandleBacktest, TestExit, Skip, Sample, AutoBacktest, Render, CloseWindow
<1>6. CASE Cleanup \/ Network \/ Spill \/ TimePasses \/ UNCHANGED vars
  BY <1>6 DEF Cleanup, Network, Spill, TimePasses, vars
<1> QED BY <1>1, <1>2, <1>3, <1>4, <1>5, <1>6, <1>7 DEF Next, Main, Frame
-----------------------------------------------------------------------------
(***************************************************************************)
(* What a session promises.                                                *)
(***************************************************************************)

\* Whatever buttons are handled in a frame, main samples exactly when it shows
\* CONNECTED.
THEOREM SamplesAsShown == Spec => []SamplesWhileConnected
<1>1. Init => ShowInv
  BY DEF Init, ShowInv, StartingUp
<1>2. ShowInv /\ [Next]_vars => ShowInv'
  BY ShowInvStep
<1>3. ShowInv => SamplesWhileConnected
  BY DEF ShowInv, SamplesWhileConnected, StartingUp
<1> QED BY <1>1, <1>2, <1>3, PTL DEF Spec

\* The first connect() finds no thread: only a reconnection can terminate the
\* process by assigning to a thread that was not joined.
THEOREM FirstConnectIsSafe == Spec => [](pc = "assign" => ~Joinable)
<1>1. IInv => (pc = "assign" => ~Joinable)
  BY DEF IInv, ThreadInv, BeforeThread, Joinable
<1> QED BY <1>1, SessionInvariance, PTL

\* After cleanup market_data.csv has the row of every RowEvery-th sample.
THEOREM NoRowLost == Spec => []RowsSaved
<1>1. IInv => RowsSaved
  BY DEF IInv, RowInv, RowsSaved
<1> QED BY <1>1, SessionInvariance, PTL

\* main truncates the file before load_csv reads it: a backtest is run only in
\* a session whose writer could not open it.
THEOREM BacktestIsOld == Spec => [](backtested => ~csvOpen)
<1>1. IInv => (backtested => ~csvOpen)
  BY DEF IInv, BacktestInv
<1> QED BY <1>1, SessionInvariance, PTL
=============================================================================
