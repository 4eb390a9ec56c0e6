----------------------------- MODULE MarketFeed -----------------------------
(***************************************************************************)
(* How the live book is built: main.cpp fetches one REST snapshot, then    *)
(* BinanceWebSocketClient applies the depth updates that its thread        *)
(* receives.  The exchange changes all the time and sends what changed     *)
(* since its last message (depth@100ms), bids first, while the connection  *)
(* is open.  Nothing checks update numbers (last_update_id_ is written and *)
(* never read), so whatever falls between the snapshot and the open        *)
(* connection is lost; the history variable missed names the levels about  *)
(* which the book has not been told.                                       *)
(***************************************************************************)
EXTENDS OrderBook, Sequences

CONSTANTS
  SnapshotLimit,   \* levels per side that the REST snapshot returns
  MaxChanges       \* bound: changes of the exchange's book in a behaviour

ASSUME FeedAssumption == SnapshotLimit \in Nat /\ MaxChanges \in Nat

Keys == Sides \X Prices

VARIABLES
  phase,    \* what main and the WebSocket thread have done so far
  msg,      \* levels of the message being applied, not applied yet
  live,     \* the exchange's book: quantity of each side and price
  batch,    \* changes the exchange has not sent yet
  inbox,    \* messages sent and not yet handled
  missed,   \* history: levels changed without the book hearing of it
  changes   \* number of changes so far

feedVars == <<phase, msg, live, batch, inbox, missed, changes>>
vars == <<book, count, phase, msg, live, batch, inbox, missed, changes>>

NoLevels == [k \in {} |-> 0]   \* the map with no level
Without(f, k) == [x \in DOMAIN f \ {k} |-> f[x]]
Put(f, k, v) == [x \in DOMAIN f \cup {k} |-> IF x = k THEN v ELSE f[x]]

Listed(depth) == {k \in Keys : depth[k] # 0}
Uncrossed(depth) ==
  \A b, a \in Prices : depth[<<"bid", b>>] # 0 /\ depth[<<"ask", a>>] # 0 => b < a

\* The keys among the best SnapshotLimit of their side.
Top(depth) ==
  {k \in Listed(depth) :
     Cardinality({p \in Prices : /\ depth[<<k[1], p>>] # 0
                                 /\ Better(k[1], p, k[2])}) < SnapshotLimit}

Init ==
  /\ BookInit
  /\ phase = "start"
  /\ msg = NoLevels
  /\ live \in [Keys -> Quantities \cup {0}]
  /\ Uncrossed(live)
  /\ batch = NoLevels
  /\ inbox = << >>
  /\ missed = {}
  /\ changes = 0
-----------------------------------------------------------------------------
(***************************************************************************)
(* The exchange                                                            *)
(***************************************************************************)
Change(k, q) ==
  /\ changes < MaxChanges
  /\ live[k] # q
  /\ live' = [live EXCEPT ![k] = q]
  /\ Uncrossed(live')
  /\ changes' = changes + 1
  /\ batch' = IF phase = "open" THEN Put(batch, k, q) ELSE batch
  /\ missed' = IF phase \in {"start", "open"} THEN missed ELSE missed \cup {k}
  /\ UNCHANGED <<bookVars, phase, msg, inbox>>

Send ==
  /\ batch # NoLevels
  /\ inbox' = Append(inbox, batch)
  /\ batch' = NoLevels
  /\ UNCHANGED <<bookVars, phase, msg, live, missed, changes>>
-----------------------------------------------------------------------------
(***************************************************************************)
(* main: snapshot, then connect                                            *)
(***************************************************************************)
FetchSnapshot ==
  /\ phase = "start"
  /\ phase' = "loading"
  /\ Reset
  /\ msg' = [k \in Top(live) |-> live[k]]
  /\ missed' = Listed(live) \ Top(live)
  /\ UNCHANGED <<live, batch, inbox, changes>>

\* The fetch returns an empty document: main goes on with an empty book.
FetchFails ==
  /\ phase = "start"
  /\ phase' = "loading"
  /\ missed' = Listed(live)
  /\ UNCHANGED <<bookVars, msg, live, batch, inbox, changes>>

\* Bids are read before asks.
NextLevel(k) == k \in DOMAIN msg /\ (k[1] = "ask" => \A b \in DOMAIN msg : b[1] = "ask")

ReadSnapshotLevel(k) ==
  /\ phase = "loading"
  /\ NextLevel(k)
  /\ LoadLevel(k[1], k[2], msg[k])
  /\ msg' = Without(msg, k)
  /\ missed' = IF HasSpace(k[1]) THEN missed ELSE missed \cup {k}
  /\ UNCHANGED <<phase, live, batch, inbox, changes>>

Connect ==
  /\ phase = "loading"
  /\ msg = NoLevels
  /\ phase' = "connecting"
  /\ UNCHANGED <<bookVars, msg, live, batch, inbox, missed, changes>>
-----------------------------------------------------------------------------
(***************************************************************************)
(* The WebSocket thread.  It runs one handler at a time.                   *)
(***************************************************************************)
OnOpen ==
  /\ phase = "connecting"
  /\ phase' = "open"
  /\ UNCHANGED <<bookVars, msg, live, batch, inbox, missed, changes>>

OnFail ==
  /\ phase = "connecting"
  /\ phase' = "closed"
  /\ UNCHANGED <<bookVars, msg, live, batch, inbox, missed, changes>>

\* on_message starts on the next message ...
OnMessage ==
  /\ phase = "open"
  /\ msg = NoLevels
  /\ inbox # << >>
  /\ msg' = Head(inbox)
  /\ inbox' = Tail(inbox)
  /\ UNCHANGED <<bookVars, phase, live, batch, missed, changes>>

\* ... applies its levels one by one ...
ApplyUpdateLevel(k) ==
  /\ phase = "open"
  /\ NextLevel(k)
  /\ UpdateLevel(k[1], k[2], msg[k])
  /\ msg' = Without(msg, k)
  /\ missed' = IF msg[k] # 0 /\ Absent(k[1], k[2]) /\ ~HasSpace(k[1])
               THEN missed \cup {k} ELSE missed \ {k}
  /\ UNCHANGED <<phase, live, batch, inbox, changes>>

\* ... and gives up on the rest when a number does not parse.
ParseError ==
  /\ phase = "open"
  /\ msg # NoLevels
  /\ msg' = NoLevels
  /\ missed' = missed \cup DOMAIN msg
  /\ UNCHANGED <<bookVars, phase, live, batch, inbox, changes>>

\* The connection drops with what was under way; nothing reconnects.
OnClose ==
  /\ phase = "open"
  /\ msg = NoLevels
  /\ phase' = "closed"
  /\ missed' = missed \cup DOMAIN batch \cup UNION {DOMAIN inbox[i] : i \in DOMAIN inbox}
  /\ batch' = NoLevels
  /\ inbox' = << >>
  /\ UNCHANGED <<bookVars, msg, live, changes>>
-----------------------------------------------------------------------------
Next ==
  \/ \E k \in Keys, q \in Quantities \cup {0} : Change(k, q)
  \/ Send
  \/ FetchSnapshot
  \/ FetchFails
  \/ \E k \in Keys : ReadSnapshotLevel(k)
  \/ Connect
  \/ OnOpen
  \/ OnFail
  \/ OnMessage
  \/ \E k \in Keys : ApplyUpdateLevel(k)
  \/ ParseError
  \/ OnClose

Spec == Init /\ [][Next]_vars

-----------------------------------------------------------------------------
(***************************************************************************)
(* Correctness                                                             *)
(***************************************************************************)
PartialMaps == UNION {[K -> Quantities \cup {0}] : K \in SUBSET Keys}

TypeOK ==
  /\ BookTypeOK
  /\ phase \in {"start", "loading", "connecting", "open", "closed"}
  /\ msg \in PartialMaps
  /\ live \in [Keys -> Quantities \cup {0}]
  /\ batch \in PartialMaps
  /\ inbox \in Seq(PartialMaps \ {NoLevels})
  /\ missed \in SUBSET Keys
  /\ changes \in 0..MaxChanges

InInbox(k) == \E i \in DOMAIN inbox : k \in DOMAIN inbox[i]
Pending(k) == k \in DOMAIN batch \/ InInbox(k) \/ k \in DOMAIN msg

\* Once main has the snapshot, every level that the book has been told about
\* and that has no update under way is the exchange's: through snapshot,
\* interleaved changes, full sides, parse errors and a lost connection, only
\* the levels in missed can be wrong.
TracksExchange ==
  phase # "start" =>
    \A k \in Keys : ~Pending(k) /\ k \notin missed => QuantityAt(k[1], k[2]) = live[k]

\* When nothing is missed or under way on a side, get_best_bid and get_best_ask
\* return the exchange's best price, if it has one.
TopOfBook ==
  phase # "start" =>
    \A s \in Sides :
      (\A p \in Prices : ~Pending(<<s, p>>) /\ <<s, p>> \notin missed) =>
        \A p \in Prices : live[<<s, p>>] # 0 => p = Best(s) \/ Better(s, Best(s), p)

\* DESIGN.md:145 says of an empty order book: "Return 0.0 for bid/ask".
EmptyBookReturnsZero == \A s \in Sides : count[s] = 0 => Best(s) = 0
=============================================================================
