---------------------------- MODULE DashboardProofs ----------------------------
(* Theorems about the dashboards and the poll cycle that feeds them, for any   *)
(* number of symbols, dashboards and sockets and any budget of events.         *)
EXTENDS Dashboard, SequenceTheorems, TLAPS

-----------------------------------------------------------------------------
(* The types of what is on its way.                                           *)

Feeds == {"live", "disconnected"}
Lives == {"open", "resolved"}

StatusMessages == {StatusMessage(x) : x \in Feeds}
PriceMessages == {PriceMessage(s, t) : s \in Symbols, t \in Nat}
SignalMessages == {SignalMessage(i, x) : i \in Nat, x \in Lives}
Messages == StatusMessages \union PriceMessages \union SignalMessages

Sendings == [msg : Messages \union {<<>>}, to : SUBSET Sockets, dead : SUBSET Sockets]

Places == {"fetch", "store", "tracked", "served", "done", "failed"}

Polls == [tf : 1..Timeframes, at : Places,
          bars : BOOLEAN, news : SignalMessages \union {<<>>}]

SignalRows == [symbol : Symbols, status : Lives, by : Clients \union {"feed"}]

Partial(S, T) == UNION {[D -> T] : D \in SUBSET S}

Stores == [status : Feeds \union {"unknown"}, signals : Partial(Nat, Lives), seeded : BOOLEAN,
           prices : [Symbols -> Nat], forming : [Symbols -> Nat], quoted : BOOLEAN]

(* The registry and the broadcasts: a symbol's task tells prices and signals. *)
ConnectionsOK ==
    /\ link \in [Sockets -> {"unused", "up", "cut"}]
    /\ endpoint \in [Sockets -> {"none", "greet", "drain", "gone"}]
    /\ registered \subseteq Sockets
    /\ inbox \in [Clients -> Seq(Messages)]
    /\ sending \in [Tasks -> Sendings]
    /\ \A t \in Tasks : ~Idle(t) => sending[t].msg \in Messages
    /\ \A s \in Symbols : ~Idle(s) => sending[s].msg \in PriceMessages \union SignalMessages

PollsOK ==
    /\ polls \in [Symbols -> Polls]
    /\ loop \in {"gather", "sleep", "backoff"}
    /\ backingOff \in BOOLEAN /\ delay \in 1..MaxDelay /\ status \in Feeds
    /\ clock \in Nat /\ latest \in [Symbols -> Nat] /\ \A s \in Symbols : latest[s] <= clock
    /\ signals \in Seq(SignalRows)

DashboardsOK ==
    /\ socket \in [Clients -> 0..MaxSockets]
    /\ store \in [Clients -> Stores]
    /\ answers \in [Clients -> Partial(Symbols, Nat)]
    /\ quotes \in [Clients -> [Symbols -> Nat] \union {<<>>}]
    /\ since \in [Clients -> 0..MaxSockets]

Typed == ConnectionsOK /\ PollsOK /\ DashboardsOK

-----------------------------------------------------------------------------
(* Lemmas on messages, tasks and partial functions.                           *)

(* The tasks that broadcast are the polls of the symbols and _run.            *)
LEMMA TasksSplit ==
    Symbols \subseteq Tasks /\ "_run" \in Tasks /\ \A t \in Tasks : t \in Symbols \/ t = "_run"
BY PollAssumption

(* A message is told apart by its first field and carries its content in      *)
(* the others.                                                                *)
LEMMA Kinds ==
    /\ \A x : StatusMessage(x)[1] = "feed_status" /\ StatusMessage(x)[2] = x
    /\ \A s, t : /\ PriceMessage(s, t)[1] = "price"
                 /\ PriceMessage(s, t)[2] = s /\ PriceMessage(s, t)[3] = t
    /\ \A i, x : /\ SignalMessage(i, x)[1] = "signal"
                 /\ SignalMessage(i, x)[2] = i /\ SignalMessage(i, x)[3] = x
BY DEF StatusMessage, PriceMessage, SignalMessage

(* Every message is of one of the three kinds.                                *)
LEMMA MessageKinds ==
    ASSUME NEW m \in Messages
    PROVE  \/ m[1] = "feed_status" /\ m \in StatusMessages /\ m[2] \in Feeds /\ m = StatusMessage(m[2])
           \/ /\ m[1] = "price" /\ m \in PriceMessages /\ m[2] \in Symbols /\ m[3] \in Nat
              /\ m = PriceMessage(m[2], m[3])
           \/ /\ m[1] = "signal" /\ m \in SignalMessages /\ m[2] \in Nat /\ m[3] \in Lives
              /\ m = SignalMessage(m[2], m[3])
BY Kinds DEF Messages, StatusMessages, PriceMessages, SignalMessages

(* An empty table is one over any keys.                                       *)
LEMMA PartialEmpty == \A S, T : <<>> \in Partial(S, T)
BY EmptySeq, SeqDef DEF Partial

(* A table over some keys is a function on a subset of them.                  *)
LEMMA PartialIs ==
    ASSUME NEW S, NEW T, NEW f
    PROVE  f \in Partial(S, T) <=> DOMAIN f \subseteq S /\ f \in [DOMAIN f -> T]
<1>1. ASSUME f \in Partial(S, T) PROVE DOMAIN f \subseteq S /\ f \in [DOMAIN f -> T]
  <2>1. PICK D \in SUBSET S : f \in [D -> T]
    BY <1>1 DEF Partial
  <2> QED
    BY <2>1
<1>2. ASSUME DOMAIN f \subseteq S, f \in [DOMAIN f -> T] PROVE f \in Partial(S, T)
  BY <1>2 DEF Partial
<1> QED
  BY <1>1, <1>2

(* upsertSignal keeps the store a table of signals.                           *)
LEMMA PartialPut ==
    ASSUME NEW S, NEW T, NEW f \in Partial(S, T), NEW x \in S, NEW y \in T
    PROVE  Put(f, x, y) \in Partial(S, T)
BY PartialIs DEF Put

(* So does hydrateSignals, whatever rows the answers bring.                   *)
LEMMA PartialHydrated ==
    ASSUME NEW f \in Partial(Nat, Lives), NEW found \in SUBSET Nat
    PROVE  Hydrated(f, found) \in Partial(Nat, Lives)
BY PartialIs DEF Hydrated, Lives

-----------------------------------------------------------------------------
(* The types are invariant.                                                   *)

(* What a broadcast and a send do to the tasks.                               *)
LEMMA BroadcastEffect ==
    ASSUME ConnectionsOK, NEW t \in Tasks, NEW m \in Messages,
           t \in Symbols => m \in PriceMessages \union SignalMessages, Broadcast(t, m)
    PROVE  /\ sending' \in [Tasks -> Sendings]
           /\ \A u \in Tasks \ {t} : sending'[u] = sending[u]
           /\ sending'[t].to = registered /\ sending'[t].dead = {}
           /\ registered # {} => sending'[t].msg = m
           /\ \A u \in Tasks : sending'[u].to # {} => sending'[u].msg \in Messages
           /\ \A s \in Symbols : sending'[s].to # {} =>
                  sending'[s].msg \in PriceMessages \union SignalMessages
<1> DEFINE b == IF registered = {} THEN Silent ELSE [msg |-> m, to |-> registered, dead |-> {}]
<1>1. b \in Sendings /\ b.to = registered /\ b.dead = {} /\ (registered # {} => b.msg = m)
  BY DEF ConnectionsOK, Sendings, Silent
<1>2. sending' = [sending EXCEPT ![t] = b]
  BY DEF Broadcast
<1> HIDE DEF b
<1> QED
  BY <1>1, <1>2, TasksSplit DEF ConnectionsOK, Idle

(* One send of a broadcast: the socket leaves the copy of the registry, the   *)
(* message stays what it was, and only a cut link is found dead.              *)
LEMMA SendEffect ==
    ASSUME ConnectionsOK, NEW t \in Tasks, NEW k \in Sockets, Send(t, k)
    PROVE  /\ sending' \in [Tasks -> Sendings]
           /\ k \in sending[t].to
           /\ \A u \in Tasks \ {t} : sending'[u] = sending[u]
           /\ sending'[t].to = sending[t].to \ {k}
           /\ sending'[t].to # {} => sending'[t].msg = sending[t].msg
           /\ sending'[t].dead \subseteq sending[t].dead \union (IF link[k] = "cut" THEN {k} ELSE {})
           /\ registered' \subseteq registered
           /\ \A r \in registered \ registered' :
                  r \in sending[t].dead \union (IF link[k] = "cut" THEN {k} ELSE {})
           /\ UNCHANGED <<link, endpoint>>
           /\ IF link[k] = "up" THEN Push(k, sending[t].msg) ELSE UNCHANGED inbox
<1>1. PICK refused \in SUBSET {k} :
        /\ SentTo(t, k, refused) /\ (refused # {} => link[k] = "cut")
        /\ k \in sending[t].to /\ UNCHANGED <<link, endpoint>>
        /\ IF link[k] = "up" THEN Push(k, sending[t].msg) ELSE UNCHANGED inbox
  BY DEF Send, SendArrives, SendLost, SendRefused
<1> DEFINE b == [sending[t] EXCEPT !.to = @ \ {k}, !.dead = @ \union refused]
<1>2. /\ b \in Sendings /\ b.to = sending[t].to \ {k} /\ b.dead = sending[t].dead \union refused
      /\ b.msg = sending[t].msg
  BY DEF ConnectionsOK, Sendings
<1>3. IF b.to = {} THEN sending' = [sending EXCEPT ![t] = Silent] /\ registered' = registered \ b.dead
                   ELSE sending' = [sending EXCEPT ![t] = b] /\ UNCHANGED registered
  BY <1>1 DEF SentTo
<1>4. Silent \in Sendings /\ Silent.to = {} /\ Silent.dead = {}
  BY DEF Silent, Sendings
<1> HIDE DEF b
<1>5. CASE b.to = {}
  BY <1>1, <1>2, <1>3, <1>4, <1>5 DEF ConnectionsOK
<1>6. CASE b.to # {}
  BY <1>1, <1>2, <1>3, <1>6 DEF ConnectionsOK
<1> QED
  BY <1>5, <1>6

(* A message that is delivered is the last in the inbox of its client, and    *)
(* no other inbox changes.                                                    *)
LEMMA PushEffect ==
    ASSUME ConnectionsOK, NEW k \in Sockets, NEW m \in Messages, Push(k, m)
    PROVE  /\ inbox' \in [Clients -> Seq(Messages)]
           /\ inbox'[k[1]] = Append(inbox[k[1]], m)
           /\ \A c \in Clients \ {k[1]} : inbox'[c] = inbox[c]
<1>1. k[1] \in Clients
  BY DEF Sockets
<1>2. Append(inbox[k[1]], m) \in Seq(Messages)
  BY <1>1, AppendProperties DEF ConnectionsOK
<1> QED
  BY <1>1, <1>2 DEF Push, ConnectionsOK

(* A send keeps the types of the connections.                                 *)
LEMMA SendType ==
    ASSUME ConnectionsOK, NEW t \in Tasks, NEW k \in Sockets, Send(t, k)
    PROVE  ConnectionsOK'
<1>1. sending[t].msg \in Messages
  BY SendEffect DEF ConnectionsOK, Idle
<1>2. inbox' \in [Clients -> Seq(Messages)]
  BY <1>1, SendEffect, PushEffect DEF ConnectionsOK
<1> QED
  BY <1>2, SendEffect, TasksSplit DEF ConnectionsOK, Idle

(* So does each step of websocket_endpoint, and the loss of a link.           *)
LEMMA EndpointType ==
    ASSUME ConnectionsOK, NEW k \in Sockets,
           \/ Accept(k) \/ (status \in Feeds /\ Greet(k, StatusMessage(status)))
           \/ GreetFails(k) \/ Leave(k) \/ CutLink(k)
    PROVE  ConnectionsOK'
<1>1. CASE Accept(k) \/ GreetFails(k) \/ Leave(k)
  BY <1>1 DEF Accept, GreetFails, Leave, ConnectionsOK, Idle
<1>2. CASE status \in Feeds /\ Greet(k, StatusMessage(status))
  <2>1. StatusMessage(status) \in Messages
    BY <1>2 DEF Messages, StatusMessages
  <2> QED
    BY <1>2, <2>1, PushEffect DEF Greet, ConnectionsOK, Idle
<1>3. CASE CutLink(k)
  <2>1. <<>> \in Seq(Messages)
    BY EmptySeq
  <2> QED
    BY <1>3, <2>1 DEF CutLink, ConnectionsOK, Idle
<1> QED
  BY <1>1, <1>2, <1>3

(* So does the end of the server process.                                     *)
LEMMA CutAllType == ASSUME ConnectionsOK, CutAll PROVE ConnectionsOK'
<1>1. Silent \in Sendings /\ Silent.to = {}
  BY DEF Silent, Sendings
<1>2. <<>> \in Seq(Messages)
  BY EmptySeq
<1> QED
  BY <1>1, <1>2, TasksSplit DEF CutAll, ConnectionsOK, Idle

(* A poll that begins a cycle is a poll.                                      *)
LEMMA BegunType == Begun \in Polls
BY PollAssumption DEF Begun, Polls, Places

(* The updates the poll actions make of a poll yield a poll.                  *)
LEMMA PollMoves ==
    ASSUME NEW p \in Polls, NEW n \in 1..Timeframes, NEW a \in Places,
           NEW m \in SignalMessages \union {<<>>}
    PROVE  /\ [p EXCEPT !.tf = n] \in Polls
           /\ [p EXCEPT !.tf = n, !.at = a] \in Polls
           /\ [p EXCEPT !.at = a, !.news = m] \in Polls
BY DEF Polls

(* What one step of a symbol's poll does to the rest of the server.           *)
LEMMA PollType ==
    ASSUME ConnectionsOK, PollsOK, NEW s \in Symbols, PollSymbol(s)
    PROVE  ConnectionsOK' /\ PollsOK'
<1> USE TasksSplit
<1>1. CASE Frame(s) \/ FetchFails(s)
  <2>1. UNCHANGED <<connectionVars, loopVars, clock, latest, signals>>
    BY <1>1 DEF Frame, FetchFails
  <2>2. polls' \in [Symbols -> Polls]
    <3>1. [Begun EXCEPT !.tf = polls[s].tf, !.at = "failed"] \in Polls
      <4>1. polls[s].tf \in 1..Timeframes /\ "failed" \in Places
        BY DEF PollsOK, Polls, Places
      <4> QED
        BY <4>1, BegunType, PollMoves
    <3>2. CASE Frame(s)
      BY <3>2 DEF Frame, PollsOK, Polls
    <3>3. CASE FetchFails(s)
      BY <3>1, <3>3 DEF FetchFails, PollsOK
    <3> QED
      BY <1>1, <3>2, <3>3
  <2> QED
    BY <2>1, <2>2 DEF connectionVars, loopVars, ConnectionsOK, PollsOK, Idle
<1>2. CASE AnswerEmpty(s) \/ NothingClosed(s) \/ OpenNone(s)
  <2>1. UNCHANGED <<connectionVars, loopVars, clock, latest, signals>>
    BY <1>2 DEF AnswerEmpty, NothingClosed, OpenNone
  <2>2. Advance(s)
    BY <1>2 DEF AnswerEmpty, NothingClosed, OpenNone
  <2>3. polls' \in [Symbols -> Polls]
    <3>1. polls[s].tf < Timeframes => [Begun EXCEPT !.tf = polls[s].tf + 1] \in Polls
      <4> SUFFICES ASSUME polls[s].tf < Timeframes
                   PROVE  [Begun EXCEPT !.tf = polls[s].tf + 1] \in Polls
        OBVIOUS
      <4>1. polls[s].tf + 1 \in 1..Timeframes /\ "fetch" \in Places
        BY PollAssumption DEF PollsOK, Polls, Places
      <4> QED
        BY <4>1, BegunType, PollMoves
    <3>2. [Begun EXCEPT !.tf = Timeframes, !.at = "done"] \in Polls
      <4>1. Timeframes \in 1..Timeframes /\ "done" \in Places
        BY PollAssumption DEF Places
      <4> QED
        BY <4>1, BegunType, PollMoves
    <3> QED
      BY <2>2, <3>1, <3>2 DEF Advance, PollsOK
  <2> QED
    BY <2>1, <2>3 DEF connectionVars, loopVars, ConnectionsOK, PollsOK, Idle
<1>3. CASE AnswerBars(s)
  <2>1. PriceMessage(s, clock + 1) \in PriceMessages \intersect Messages
    BY DEF PollsOK, PriceMessages, Messages
  <2>2. Broadcast(s, PriceMessage(s, clock + 1)) /\ UNCHANGED <<link, endpoint, registered, inbox>>
    BY <1>3 DEF AnswerBars
  <2>3. ConnectionsOK'
    BY <2>1, <2>2, BroadcastEffect DEF ConnectionsOK, Idle
  <2>4. PollsOK'
    <3>1. polls' \in [Symbols -> Polls]
      BY <1>3 DEF AnswerBars, Goto, PollsOK, Polls, Places
    <3>2. clock' = clock + 1 /\ latest' = [latest EXCEPT ![s] = clock + 1]
      BY <1>3 DEF AnswerBars
    <3>3. clock' \in Nat /\ latest' \in [Symbols -> Nat] /\ \A u \in Symbols : latest'[u] <= clock'
      BY <3>2 DEF PollsOK
    <3> QED
      BY <1>3, <3>1, <3>3 DEF AnswerBars, PollsOK, loopVars
  <2> QED
    BY <2>3, <2>4
<1>4. CASE Resolve(s)
  <2>1. PICK i \in OpenIds(s) :
          /\ signals' = [signals EXCEPT ![i].status = "resolved"]
          /\ polls' = [polls EXCEPT ![s].at = "tracked", ![s].news = SignalMessage(i, "resolved")]
    BY <1>4 DEF Resolve
  <2>2. i \in 1..Len(signals) /\ Len(signals) \in Nat
    BY LenProperties DEF OpenIds, PollsOK
  <2>3. signals' \in Seq(SignalRows)
    <3>1. [signals[i] EXCEPT !.status = "resolved"] \in SignalRows
      <4>1. signals[i] \in SignalRows
        BY <2>2, ElementOfSeq DEF PollsOK
      <4> QED
        BY <4>1 DEF SignalRows, Lives
    <3>2. signals' = [signals EXCEPT ![i] = [signals[i] EXCEPT !.status = "resolved"]]
      BY <2>1
    <3> QED
      BY <2>2, <3>1, <3>2, ExceptSeq DEF PollsOK
  <2>4. SignalMessage(i, "resolved") \in SignalMessages
    BY <2>2 DEF SignalMessages, Lives
  <2>5. polls' \in [Symbols -> Polls]
    BY <2>1, <2>4, ZenonT(40) DEF PollsOK, Polls, Places
  <2> QED
    BY <1>4, <2>3, <2>5 DEF Resolve, connectionVars, loopVars, ConnectionsOK, PollsOK, Idle
<1>5. CASE ResolveNone(s)
  BY <1>5 DEF ResolveNone, Goto, connectionVars, loopVars, ConnectionsOK, PollsOK, Idle, Polls, Places
<1>6. CASE Open(s)
  <2>1. [symbol |-> s, status |-> "open", by |-> "feed"] \in SignalRows
    BY DEF SignalRows, Lives
  <2>2. signals' \in Seq(SignalRows)
    BY <1>6, <2>1, AppendProperties DEF Open, PollsOK
  <2>3. Len(signals) + 1 \in Nat
    BY LenProperties DEF PollsOK
  <2>4. SignalMessage(Len(signals) + 1, "open") \in SignalMessages
    BY <2>3 DEF SignalMessages, Lives
  <2>5. polls' \in [Symbols -> Polls]
    <3>1. polls' = [polls EXCEPT ![s] = [polls[s] EXCEPT
                       !.at = "served", !.news = SignalMessage(Len(signals) + 1, "open")]]
      BY <1>6 DEF Open
    <3>2. [polls[s] EXCEPT !.at = "served", !.news = SignalMessage(Len(signals) + 1, "open")] \in Polls
      <4>1. 1 \in 1..Timeframes /\ "served" \in Places /\ polls[s] \in Polls
        BY PollAssumption DEF Places, PollsOK
      <4> QED
        BY <2>4, <4>1, PollMoves
    <3> QED
      BY <3>1, <3>2 DEF PollsOK
  <2> QED
    BY <1>6, <2>2, <2>5 DEF Open, connectionVars, loopVars, ConnectionsOK, PollsOK, Idle
<1>7. CASE Tell(s)
  <2>1. polls[s].news \in SignalMessages
    BY <1>7 DEF Tell, PollsOK, Polls, Places
  <2>2. ConnectionsOK'
    BY <1>7, <2>1, BroadcastEffect DEF Tell, ConnectionsOK, Idle, Messages
  <2>3. PollsOK'
    BY <1>7 DEF Tell, PollsOK, Polls, loopVars
  <2> QED
    BY <2>2, <2>3
<1> QED
  BY <1>1, <1>2, <1>3, <1>4, <1>5, <1>6, <1>7 DEF PollSymbol

(* _run keeps the types of polls and connections.                             *)
LEMMA RunType ==
    ASSUME ConnectionsOK, PollsOK, Run
    PROVE  ConnectionsOK' /\ PollsOK'
<1> USE TasksSplit
<1>1. ASSUME NEW x \in Feeds, SetStatus(x), UNCHANGED <<link, endpoint, registered, inbox>>
      PROVE  ConnectionsOK' /\ status' \in Feeds
  <2>1. StatusMessage(x) \in Messages /\ "_run" \notin Symbols
    BY PollAssumption DEF Messages, StatusMessages
  <2>2. CASE UNCHANGED sending
    BY <1>1, <2>2 DEF SetStatus, ConnectionsOK, Idle
  <2>3. CASE Broadcast("_run", StatusMessage(x))
    BY <1>1, <2>1, <2>3, BroadcastEffect DEF SetStatus, ConnectionsOK, Idle
  <2> QED
    BY <1>1, <2>2, <2>3 DEF SetStatus
<1>2. CASE CycleFails
  BY <1>1, <1>2 DEF CycleFails, PollsOK, Feeds
<1>3. CASE CycleSucceeds
  <2>1. CASE backingOff
    <3>1. /\ SetStatus("live") /\ delay' = 1 /\ loop' = "sleep" /\ backingOff' = FALSE
          /\ UNCHANGED <<link, endpoint, registered, inbox, polls, clock, latest, signals>>
      BY <1>3, <2>1 DEF CycleSucceeds
    <3>2. "live" \in Feeds /\ 1 \in 1..MaxDelay
      BY PollAssumption DEF Feeds
    <3>3. ConnectionsOK' /\ status' \in Feeds
      BY <1>1, <3>1, <3>2
    <3> QED
      BY <3>1, <3>2, <3>3 DEF PollsOK
  <2>2. CASE ~backingOff
    BY <1>3, <2>2 DEF CycleSucceeds, ConnectionsOK, PollsOK, Idle
  <2> QED
    BY <2>1, <2>2
<1>4. CASE Wake
  <2>1. Min({2 * delay, MaxDelay}) \in 1..MaxDelay
    <3>1. /\ 2 * delay \in Nat \ {0} /\ MaxDelay \in Nat \ {0}
      BY PollAssumption DEF PollsOK
    <3>2. \E x \in {2 * delay, MaxDelay} : \A y \in {2 * delay, MaxDelay} : x <= y
      BY <3>1
    <3>3. /\ Min({2 * delay, MaxDelay}) \in {2 * delay, MaxDelay}
          /\ Min({2 * delay, MaxDelay}) <= MaxDelay
      BY <3>2 DEF Min
    <3> QED
      BY <3>1, <3>3
  <2> QED
    BY <1>4, <2>1, BegunType DEF Wake, connectionVars, ConnectionsOK, PollsOK, Idle
<1> QED
  BY <1>2, <1>3, <1>4 DEF Run

(* The server stops and starts again.                                         *)
LEMMA RestartType ==
    ASSUME ConnectionsOK, PollsOK, Restart
    PROVE  ConnectionsOK' /\ PollsOK'
<1>1. ConnectionsOK'
  BY CutAllType DEF Restart
<1>2. polls' \in [Symbols -> Polls]
  BY BegunType DEF Restart
<1>3. clock' \in Nat /\ latest' \in [Symbols -> Nat] /\ \A s \in Symbols : latest'[s] <= clock'
  BY DEF Restart, PollsOK
<1>4. 1 \in 1..MaxDelay
  BY PollAssumption
<1> QED
  BY <1>1, <1>2, <1>3, <1>4 DEF Restart, PollsOK, Feeds

(* What a dashboard makes of one message.                                     *)
LEMMA DispatchedEffect ==
    ASSUME NEW st \in Stores, NEW m \in Messages
    PROVE  LET new == Dispatched(st, m) IN
           /\ new \in Stores
           /\ new.status = IF m \in StatusMessages THEN m[2] ELSE st.status
           /\ new.signals = IF m \in SignalMessages THEN Put(st.signals, m[2], m[3]) ELSE st.signals
           /\ new.seeded = st.seeded
           /\ IF m \in PriceMessages
              THEN /\ new.prices = [st.prices EXCEPT ![m[2]] = m[3]]
                   /\ new.forming = [st.forming EXCEPT ![m[2]] = Forming(st.forming[m[2]], m[3])]
              ELSE new.prices = st.prices /\ new.forming = st.forming
<1> DEFINE new == Dispatched(st, m)
<1>1. CASE m[1] = "feed_status" /\ m \in StatusMessages /\ m[2] \in Feeds
  <2>1. new = [st EXCEPT !.status = m[2]]
    BY <1>1 DEF Dispatched
  <2>2. m \notin SignalMessages /\ m \notin PriceMessages
    BY <1>1, Kinds DEF SignalMessages, PriceMessages
  <2> QED
    BY <1>1, <2>1, <2>2 DEF Stores
<1>2. CASE m[1] = "price" /\ m \in PriceMessages /\ m[2] \in Symbols /\ m[3] \in Nat
  <2>1. new = [st EXCEPT !.prices[m[2]] = m[3], !.forming[m[2]] = Forming(@, m[3])]
    BY <1>2 DEF Dispatched, Priced
  <2>2. m \notin SignalMessages /\ m \notin StatusMessages
    BY <1>2, Kinds DEF SignalMessages, StatusMessages
  <2>3. /\ [st.prices EXCEPT ![m[2]] = m[3]] \in [Symbols -> Nat]
        /\ [st.forming EXCEPT ![m[2]] = Forming(st.forming[m[2]], m[3])] \in [Symbols -> Nat]
    BY <1>2 DEF Stores, Forming
  <2>4. new = [st EXCEPT !.prices = [st.prices EXCEPT ![m[2]] = m[3]],
                         !.forming = [st.forming EXCEPT ![m[2]] = Forming(st.forming[m[2]], m[3])]]
    BY <2>1 DEF Stores
  <2> DEFINE p == [st.prices EXCEPT ![m[2]] = m[3]]
             f == [st.forming EXCEPT ![m[2]] = Forming(st.forming[m[2]], m[3])]
  <2> HIDE DEF p, f
  <2>5. [st EXCEPT !.prices = p, !.forming = f] \in Stores
    BY <2>3 DEF Stores, p, f
  <2> HIDE DEF new
  <2>6. /\ new \in Stores /\ new.prices = p /\ new.forming = f /\ new.status = st.status
        /\ new.signals = st.signals /\ new.seeded = st.seeded
    BY <2>4, <2>5 DEF Stores, p, f
  <2> QED
    BY <1>2, <2>2, <2>6 DEF new, p, f
<1>3. CASE m[1] = "signal" /\ m \in SignalMessages /\ m[2] \in Nat /\ m[3] \in Lives
  <2>1. new = [st EXCEPT !.signals = Put(@, m[2], m[3])]
    BY <1>3 DEF Dispatched
  <2>2. m \notin StatusMessages /\ m \notin PriceMessages
    BY <1>3, Kinds DEF StatusMessages, PriceMessages
  <2>3. Put(st.signals, m[2], m[3]) \in Partial(Nat, Lives)
    BY <1>3, PartialPut DEF Stores
  <2> QED
    BY <1>3, <2>1, <2>2, <2>3 DEF Stores
<1> QED
  BY <1>1, <1>2, <1>3, MessageKinds

(* seedPrices in parts: the prices and forming candles of the symbols that    *)
(* were quoted, and of nothing else, change.                                  *)
LEMMA QuotedEffect ==
    ASSUME NEW st \in Stores, NEW given \in [Symbols -> Nat]
    PROVE  LET new == Quoted(st, given) IN
           /\ new \in Stores /\ new.status = st.status /\ new.signals = st.signals
           /\ new.seeded = st.seeded
           /\ \A s \in Symbols :
                IF given[s] > 0
                THEN new.prices[s] = given[s] /\ new.forming[s] = Forming(st.forming[s], given[s])
                ELSE new.prices[s] = st.prices[s] /\ new.forming[s] = st.forming[s]
<1> DEFINE ticked == {s \in Symbols : given[s] > 0}
           p == [s \in Symbols |-> IF s \in ticked THEN given[s] ELSE st.prices[s]]
           f == [s \in Symbols |-> IF s \in ticked THEN Forming(st.forming[s], given[s])
                                                  ELSE st.forming[s]]
<1>1. Quoted(st, given) = [st EXCEPT !.quoted = TRUE, !.prices = p, !.forming = f]
  BY DEF Quoted
<1>2. p \in [Symbols -> Nat] /\ f \in [Symbols -> Nat]
  BY DEF Stores, Forming
<1>3. \A s \in Symbols : IF given[s] > 0
         THEN p[s] = given[s] /\ f[s] = Forming(st.forming[s], given[s])
         ELSE p[s] = st.prices[s] /\ f[s] = st.forming[s]
  OBVIOUS
<1> HIDE DEF p, f
<1> QED
  BY <1>1, <1>2, <1>3 DEF Stores

(* A new socket keeps the types.                                              *)
LEMMA JoinType == ASSUME Typed, NEW c \in Clients, Join(c) PROVE Typed'
<1>1. socket[c] + 1 \in 1..MaxSockets /\ socket[c] + 1 \in 0..MaxSockets
  BY SocketsAssumption DEF Join, Typed, DashboardsOK
<1>2. socket'[c] = socket[c] + 1 /\ socket' \in [Clients -> 0..MaxSockets]
  BY <1>1 DEF Join, Typed, DashboardsOK
<1>3. <<c, socket'[c]>> \in Sockets
  BY <1>1, <1>2 DEF Sockets
<1>4. ConnectionsOK'
  BY <1>3, EndpointType DEF Join, Typed
<1> QED
  BY <1>2, <1>4 DEF Join, Typed, PollsOK, DashboardsOK, loopVars

(* The newest socket of a connected dashboard. *)
LEMMA CurrentSocket ==
    ASSUME Typed, NEW c \in Clients
    PROVE  /\ socket[c] > 0 => Current(c) \in Sockets
           /\ Linked(c) => Current(c) \in Sockets
           /\ Current(c)[1] = c /\ Current(c)[2] = socket[c]
BY SocketsAssumption DEF Typed, DashboardsOK, Current, Linked, Sockets

(* A store marked disconnected is a store.                                    *)
LEMMA DisconnectType ==
    ASSUME NEW st \in Stores
    PROVE  [st EXCEPT !.status = "disconnected"] \in Stores
BY DEF Stores, Feeds

(* A lost connection keeps the types.                                         *)
LEMMA CutType == ASSUME Typed, NEW c \in Clients, Cut(c) PROVE Typed'
<1>1. ConnectionsOK'
  BY CurrentSocket, EndpointType DEF Cut, Typed
<1>2. store' \in [Clients -> Stores]
  <2>1. CASE UNCHANGED store
    BY <2>1 DEF Typed, DashboardsOK
  <2>2. CASE store' = [store EXCEPT ![c].status = "disconnected"]
    BY <2>2, DisconnectType DEF Typed, DashboardsOK
  <2> QED
    BY <2>1, <2>2 DEF Cut
<1> QED
  BY <1>1, <1>2 DEF Cut, Typed, PollsOK, DashboardsOK, loopVars

(* A dashboard dispatches the oldest message it received. *)
LEMMA ReceiveEffect ==
    ASSUME Typed, NEW c \in Clients, Receive(c)
    PROVE  LET m == Head(inbox[c]) IN
           /\ m \in Messages /\ Dispatched(store[c], m) \in Stores
           /\ store' = [store EXCEPT ![c] = Dispatched(store[c], m)]
           /\ inbox' \in [Clients -> Seq(Messages)]
           /\ \A d \in Clients \ {c} : inbox'[d] = inbox[d]
           /\ Len(inbox[c]) \in Nat \ {0} /\ Len(inbox'[c]) = Len(inbox[c]) - 1
           /\ m = inbox[c][1]
           /\ \A i \in 1..Len(inbox'[c]) : inbox'[c][i] = inbox[c][i + 1]
<1>1. inbox[c] \in Seq(Messages) /\ inbox[c] # <<>> /\ store[c] \in Stores
  BY DEF Receive, Typed, ConnectionsOK, DashboardsOK
<1>2. /\ Head(inbox[c]) \in Messages /\ Tail(inbox[c]) \in Seq(Messages)
      /\ Len(Tail(inbox[c])) = Len(inbox[c]) - 1 /\ Head(inbox[c]) = inbox[c][1]
      /\ \A i \in 1..Len(Tail(inbox[c])) : Tail(inbox[c])[i] = inbox[c][i + 1]
      /\ Len(inbox[c]) \in Nat \ {0}
  BY <1>1, HeadTailProperties, EmptySeq, ElementOfSeq
<1>3. inbox' = [inbox EXCEPT ![c] = Tail(inbox[c])]
  BY DEF Receive
<1>4. Dispatched(store[c], Head(inbox[c])) \in Stores
  BY <1>1, <1>2, DispatchedEffect
<1> QED
  BY <1>1, <1>2, <1>3, <1>4 DEF Receive, Typed, ConnectionsOK

(* The dispatch of a message keeps the types.                                 *)
LEMMA ReceiveType == ASSUME Typed, NEW c \in Clients, Receive(c) PROVE Typed'
<1>1. inbox' \in [Clients -> Seq(Messages)] /\ store' \in [Clients -> Stores]
  BY ReceiveEffect DEF Typed, DashboardsOK
<1> QED
  BY <1>1 DEF Receive, Typed, ConnectionsOK, PollsOK, DashboardsOK, pollVars, loopVars, Idle

(* What a dashboard is answered.                                              *)
LEMMA AnswerEffect ==
    ASSUME Typed, NEW c \in Clients, NEW s \in Symbols, Asked(c, s),
           NEW i \in Nat, Answer(c, s, i)
    PROVE  /\ answers' \in [Clients -> Partial(Symbols, Nat)]
           /\ answers'[c] = Put(answers[c], s, i)
           /\ \A d \in Clients \ {c} : answers'[d] = answers[d]
           /\ since' \in [Clients -> 0..MaxSockets]
           /\ \A d \in Clients \ {c} : since'[d] = since[d]
<1>1. Put(answers[c], s, i) \in Partial(Symbols, Nat)
  BY PartialPut DEF Typed, DashboardsOK
<1>2. 0 \in 0..MaxSockets
  BY SocketsAssumption
<1> QED
  BY <1>1, <1>2 DEF Answer, Asked, Typed, DashboardsOK

(* Each answer to a bootstrap request keeps the types.                        *)
LEMMA AnswerType ==
    ASSUME Typed, NEW c \in Clients, NEW s \in Symbols,
           AnswerOpen(c, s) \/ AnswerBuilt(c, s) \/ AnswerNone(c, s)
    PROVE  Typed'
<1>1. Len(signals) \in Nat /\ OpenIds(s) \subseteq 1..Len(signals)
  BY LenProperties DEF OpenIds, Typed, PollsOK
<1>2. PICK i \in Nat : Asked(c, s) /\ Answer(c, s, i)
  BY <1>1 DEF AnswerOpen, AnswerBuilt, AnswerNone
<1>3. answers' \in [Clients -> Partial(Symbols, Nat)] /\ since' \in [Clients -> 0..MaxSockets]
  BY <1>2, AnswerEffect
<1>4. signals' \in Seq(SignalRows)
  <2>1. [symbol |-> s, status |-> "open", by |-> c] \in SignalRows
    BY DEF SignalRows, Lives
  <2>2. CASE AnswerBuilt(c, s)
    BY <2>1, <2>2, AppendProperties DEF AnswerBuilt, Typed, PollsOK
  <2> QED
    BY <2>2 DEF AnswerOpen, AnswerNone, Typed, PollsOK
<1> QED
  BY <1>3, <1>4
     DEF AnswerOpen, AnswerBuilt, AnswerNone, Typed, ConnectionsOK, PollsOK, DashboardsOK,
         connectionVars, loopVars, Idle

(* Seeding the store with the signals of the bootstrap, and with its prices.  *)
LEMMA HydrateEffect ==
    ASSUME Typed, NEW c \in Clients, Hydrate(c)
    PROVE  LET found == {answers[c][s] : s \in Symbols} \ {0} IN
           /\ store' \in [Clients -> Stores]
           /\ store'[c].signals = Hydrated(store[c].signals, found)
           /\ store'[c].status = store[c].status /\ store'[c].seeded = TRUE
           /\ store'[c].prices = store[c].prices /\ store'[c].forming = store[c].forming
           /\ \A d \in Clients \ {c} : store'[d] = store[d]
           /\ answers' \in [Clients -> Partial(Symbols, Nat)] /\ answers'[c] = <<>>
           /\ \A d \in Clients \ {c} : answers'[d] = answers[d]
           /\ found \subseteq Nat
<1> DEFINE found == {answers[c][s] : s \in Symbols} \ {0}
           h == Hydrated(store[c].signals, found)
<1>1. /\ DOMAIN answers[c] = Symbols
      /\ store' = [store EXCEPT ![c].seeded = TRUE, ![c].signals = h]
      /\ answers' = [answers EXCEPT ![c] = <<>>]
  BY DEF Hydrate
<1>2. found \subseteq Nat
  <2>1. answers[c] \in [Symbols -> Nat]
    BY <1>1, PartialIs DEF Typed, DashboardsOK
  <2> QED
    BY <2>1
<1>3. store[c] \in Stores
  BY DEF Typed, DashboardsOK
<1>4. h \in Partial(Nat, Lives)
  BY <1>2, <1>3, PartialHydrated DEF Stores
<1> HIDE DEF found, h
<1>5. [store[c] EXCEPT !.seeded = TRUE, !.signals = h] \in Stores
  BY <1>3, <1>4 DEF Stores
<1>6. store' = [store EXCEPT ![c] = [store[c] EXCEPT !.seeded = TRUE, !.signals = h]]
  BY <1>1
<1>7. /\ store' \in [Clients -> Stores] /\ \A d \in Clients \ {c} : store'[d] = store[d]
      /\ store'[c].signals = h /\ store'[c].status = store[c].status /\ store'[c].seeded = TRUE
      /\ store'[c].prices = store[c].prices /\ store'[c].forming = store[c].forming
  BY <1>3, <1>5, <1>6 DEF Typed, DashboardsOK, Stores
<1>8. /\ answers' \in [Clients -> Partial(Symbols, Nat)] /\ answers'[c] = <<>>
      /\ \A d \in Clients \ {c} : answers'[d] = answers[d]
  BY <1>1, PartialEmpty DEF Typed, DashboardsOK
<1> QED
  BY <1>2, <1>7, <1>8 DEF found, h

(* What SeedPrices writes into the store.                                     *)
LEMMA SeedEffect ==
    ASSUME Typed, NEW c \in Clients, SeedPrices(c)
    PROVE  /\ quotes[c] \in [Symbols -> Nat]
           /\ store' = [store EXCEPT ![c] = Quoted(store[c], quotes[c])]
           /\ Quoted(store[c], quotes[c]) \in Stores /\ store' \in [Clients -> Stores]
<1>1. quotes[c] \in [Symbols -> Nat] /\ store[c] \in Stores
  BY DEF SeedPrices, Typed, DashboardsOK
<1> QED
  BY <1>1, QuotedEffect DEF SeedPrices, Typed, DashboardsOK

(* The bootstrap of signals and prices keeps the types.                       *)
LEMMA SeedType ==
    ASSUME Typed, NEW c \in Clients, Hydrate(c) \/ AnswerPrices(c) \/ SeedPrices(c)
    PROVE  Typed'
<1>1. CASE Hydrate(c)
  BY <1>1, HydrateEffect
     DEF Hydrate, Typed, ConnectionsOK, PollsOK, DashboardsOK, connectionVars, pollVars, loopVars,
         Idle
<1>2. CASE AnswerPrices(c)
  BY <1>2 DEF AnswerPrices, Typed, ConnectionsOK, PollsOK, DashboardsOK, connectionVars, loopVars,
              Idle
<1>3. CASE SeedPrices(c)
  BY <1>3, SeedEffect
     DEF SeedPrices, Typed, ConnectionsOK, PollsOK, DashboardsOK, connectionVars, pollVars,
         loopVars, Idle
<1> QED
  BY <1>1, <1>2, <1>3

(* After a restart of the server, a dashboard's store differs in its status.  *)
LEMMA RestartEffect ==
    ASSUME Typed, ServerRestart
    PROVE  /\ store' \in [Clients -> Stores]
           /\ \A c \in Clients : /\ store'[c].signals = store[c].signals
                                 /\ store'[c].seeded = store[c].seeded
                                 /\ store'[c].prices = store[c].prices
                                 /\ store'[c].forming = store[c].forming
<1>1. PICK noticed \in SUBSET Clients : store' = [c \in Clients |->
         IF c \in noticed /\ Linked(c) THEN [store[c] EXCEPT !.status = "disconnected"] ELSE store[c]]
  BY DEF ServerRestart
<1>2. \A c \in Clients : store[c] \in Stores
  BY DEF Typed, DashboardsOK
<1>3. ASSUME NEW c \in Clients
      PROVE  /\ store'[c] \in Stores
             /\ store'[c].signals = store[c].signals /\ store'[c].seeded = store[c].seeded
             /\ store'[c].prices = store[c].prices /\ store'[c].forming = store[c].forming
  BY <1>1, <1>2, DisconnectType DEF Stores
<1> QED
  BY <1>1, <1>3

(* The initial state is well typed for every budget.                          *)
LEMMA TypedInit == Init => Typed
<1> SUFFICES ASSUME Init PROVE Typed
  OBVIOUS
<1>1. ConnectionsOK
  BY EmptySeq, TasksSplit DEF Init, ConnectionsInit, ConnectionsOK, Silent, Sendings, Idle
<1>2. PollsOK
  <2>1. polls \in [Symbols -> Polls] /\ latest \in [Symbols -> Nat] /\ 1 \in 1..MaxDelay
    BY BegunType, PollAssumption DEF Init, PollInit
  <2>2. \A s \in Symbols : latest[s] <= clock
    BY DEF Init, PollInit
  <2>3. signals \in Seq(SignalRows)
    BY EmptySeq DEF Init, PollInit
  <2> QED
    BY <2>1, <2>2, <2>3 DEF Init, PollInit, PollsOK, Feeds
<1>3. EmptyStore \in Stores
  BY PartialEmpty DEF EmptyStore, Stores
<1>4. DashboardsOK
  BY <1>3, PartialEmpty, SocketsAssumption DEF Init, DashboardsOK
<1> QED
  BY <1>1, <1>2, <1>4 DEF Typed

(* One step of the server or of a dashboard, by what it can change.           *)
LEMMA Steps ==
    ASSUME Next
    PROVE  \/ \E s \in Symbols : PollSymbol(s) /\ UNCHANGED dashboardVars
           \/ Run /\ UNCHANGED dashboardVars
           \/ \E t \in Tasks, k \in Sockets : Send(t, k) /\ UNCHANGED <<pollVars, dashboardVars>>
           \/ \E k \in Sockets :
                 /\ Greet(k, StatusMessage(status)) \/ GreetFails(k) \/ Leave(k)
                 /\ UNCHANGED <<pollVars, dashboardVars>>
           \/ ServerRestart
           \/ \E c \in Clients :
                 \/ Join(c) \/ Cut(c) \/ Receive(c) \/ Hydrate(c) \/ AnswerPrices(c) \/ SeedPrices(c)
                 \/ \E s \in Symbols : AnswerOpen(c, s) \/ AnswerBuilt(c, s) \/ AnswerNone(c, s)
BY DEF Next, ServerPoll, ServerRun, ServerSend, ServerGreet, ServerLeave

(* Every step keeps the types, one lemma for each group of actions.           *)
LEMMA TypedStep == Typed /\ [Next]_vars => Typed'
<1> SUFFICES ASSUME Typed, [Next]_vars PROVE Typed'
  OBVIOUS
<1> USE DEF Typed
<1>1. CASE UNCHANGED vars
  BY <1>1 DEF vars, connectionVars, pollVars, loopVars, dashboardVars, ConnectionsOK, PollsOK,
              DashboardsOK, Idle
<1>2. ASSUME NEW s \in Symbols, PollSymbol(s), UNCHANGED dashboardVars PROVE Typed'
  BY <1>2, PollType DEF dashboardVars, DashboardsOK
<1>3. CASE Run /\ UNCHANGED dashboardVars
  BY <1>3, RunType DEF dashboardVars, DashboardsOK
<1>4. ASSUME NEW t \in Tasks, NEW k \in Sockets, Send(t, k), UNCHANGED <<pollVars, dashboardVars>>
      PROVE  Typed'
  BY <1>4, SendType DEF pollVars, loopVars, dashboardVars, PollsOK, DashboardsOK
<1>5. ASSUME NEW k \in Sockets, Greet(k, StatusMessage(status)) \/ GreetFails(k) \/ Leave(k),
             UNCHANGED <<pollVars, dashboardVars>>
      PROVE  Typed'
  BY <1>5, EndpointType DEF pollVars, loopVars, dashboardVars, PollsOK, DashboardsOK
<1>6. CASE ServerRestart
  BY <1>6, RestartType, RestartEffect DEF ServerRestart, DashboardsOK
<1>7. ASSUME NEW c \in Clients,
             \/ Join(c) \/ Cut(c) \/ Receive(c) \/ Hydrate(c) \/ AnswerPrices(c) \/ SeedPrices(c)
             \/ \E s \in Symbols : AnswerOpen(c, s) \/ AnswerBuilt(c, s) \/ AnswerNone(c, s)
      PROVE  Typed'
  BY <1>7, JoinType, CutType, ReceiveType, SeedType, AnswerType
<1> QED
  BY <1>1, <1>2, <1>3, <1>4, <1>5, <1>6, <1>7, Steps

(* Types, the one fact every other proof about the dashboards uses: in        *)
(* every state each variable, each message under way and each store is what   *)
(* it should be.                                                              *)
THEOREM TypedAlways == Spec => []Typed
BY TypedInit, TypedStep, PTL DEF Spec

(* Every variable of the server and of the dashboards has its type, and the   *)
(* backoff its limit.                                                         *)
THEOREM DashboardTypeCorrect == Spec => []TypeOK
<1>1. Typed => TypeOK
  <2> SUFFICES ASSUME Typed PROVE TypeOK
    OBVIOUS
  <2>1. \A t \in Tasks : sending[t].to \union sending[t].dead \subseteq Sockets
    BY DEF Typed, ConnectionsOK, Sendings
  <2>2. \A s \in Symbols : /\ polls[s].tf \in 1..Timeframes /\ polls[s].at \in Places
                           /\ latest[s] <= clock
    BY DEF Typed, PollsOK, Polls
  <2>3. \A i \in DOMAIN signals : signals[i].status \in {"open", "resolved"}
    <3>1. signals \in Seq(SignalRows)
      BY DEF Typed, PollsOK
    <3>2. DOMAIN signals = 1..Len(signals) /\ \A i \in 1..Len(signals) : signals[i] \in SignalRows
      BY <3>1, LenProperties, ElementOfSeq
    <3> QED
      BY <3>2 DEF SignalRows, Lives
  <2>4. \A c \in Clients : store[c].status \in {"unknown", "live", "disconnected"}
    BY DEF Typed, DashboardsOK, Stores, Feeds
  <2> QED
    BY <2>1, <2>2, <2>3, <2>4 DEF Typed, ConnectionsOK, PollsOK, DashboardsOK, TypeOK, Feeds, Places
<1> QED
  BY <1>1, TypedAlways, PTL

-----------------------------------------------------------------------------
(* The cycle ends whole.                                                      *)

(* Only a poll that has tracked the open signal has news to tell.             *)
NewsOK == \A s \in Symbols : polls[s].news # <<>> => polls[s].at \in {"tracked", "served"}

(* The feed is reported disconnected exactly while it backs off, and its task *)
(* tells nothing while it waits for the polls.                                *)
LoopOK ==
    /\ status = IF backingOff THEN "disconnected" ELSE "live"
    /\ loop = "gather" => Idle("_run")

CycleInv == Typed /\ NewsOK /\ LoopOK /\ CycleWhole

(* The cycle invariant holds when the first cycle begins.                     *)
LEMMA CycleInit == Init => CycleInv
BY TypedInit, TasksSplit
   DEF Init, PollInit, ConnectionsInit, Begun, Silent, Idle, CycleInv, NewsOK, LoopOK, CycleWhole

(* A poll moves only while the cycle gathers.                                 *)
LEMMA PollKeepsCycle ==
    ASSUME CycleInv, NEW s \in Symbols, PollSymbol(s)
    PROVE  NewsOK' /\ LoopOK' /\ CycleWhole'
<1>1. loop = "gather"
  BY DEF PollSymbol, Frame, FetchFails, AnswerEmpty, AnswerBars, NothingClosed, Resolve, ResolveNone,
         Open, OpenNone, Tell, At, CycleInv, CycleWhole
<1>2. UNCHANGED loopVars
  BY DEF PollSymbol, Frame, FetchFails, AnswerEmpty, AnswerBars, NothingClosed, Resolve, ResolveNone,
         Open, OpenNone, Tell
<1>3. sending'["_run"] = sending["_run"]
  BY PollAssumption, TasksSplit
     DEF PollSymbol, Frame, FetchFails, AnswerEmpty, AnswerBars, NothingClosed, Resolve,
         ResolveNone, Open, OpenNone, Tell, Broadcast, connectionVars, CycleInv, Typed, ConnectionsOK
<1>4. NewsOK'
  <2>1. polls \in [Symbols -> Polls] /\ NewsOK
    BY DEF CycleInv, Typed, PollsOK
  <2>2. CASE Frame(s) \/ AnswerBars(s) \/ Resolve(s) \/ ResolveNone(s) \/ Open(s) \/ Tell(s)
    BY <2>1, <2>2
       DEF NewsOK, Frame, AnswerBars, Resolve, ResolveNone, Open, Tell, Goto, At, Polls
  <2>3. CASE FetchFails(s) \/ AnswerEmpty(s) \/ NothingClosed(s) \/ OpenNone(s)
    <3>1. polls'[s].news = <<>> /\ \A u \in Symbols \ {s} : polls'[u] = polls[u]
      BY <2>1, <2>3 DEF FetchFails, AnswerEmpty, NothingClosed, OpenNone, Advance, Begun
    <3> QED
      BY <2>1, <3>1 DEF NewsOK
  <2> QED
    BY <2>2, <2>3 DEF PollSymbol
<1> QED
  BY <1>1, <1>2, <1>3, <1>4 DEF CycleInv, LoopOK, CycleWhole, loopVars, Idle

(* _run goes on from a gather only when every poll is done, and begins them   *)
(* all again after the sleep.                                                 *)
LEMMA RunKeepsCycle ==
    ASSUME CycleInv, Run
    PROVE  NewsOK' /\ LoopOK' /\ CycleWhole'
<1>1. /\ "_run" \in Tasks /\ "_run" \notin Symbols /\ Symbols \subseteq Tasks
      /\ sending \in [Tasks -> Sendings]
  BY PollAssumption DEF CycleInv, Typed, ConnectionsOK
<1>2. \A s \in Symbols : sending'[s] = sending[s]
  BY <1>1 DEF Run, CycleFails, CycleSucceeds, Wake, SetStatus, Broadcast, connectionVars
<1>3. ASSUME Gathered PROVE \A s \in Symbols : /\ Idle(s) /\ polls[s].at \in {"done", "failed"}
                                             /\ polls[s].news = <<>>
  BY <1>3 DEF Gathered, CycleInv, NewsOK
<1>4. CASE CycleFails
  BY <1>2, <1>3, <1>4
     DEF CycleFails, SetStatus, CycleInv, NewsOK, LoopOK, CycleWhole, Failed, Idle
<1>5. CASE CycleSucceeds
  BY <1>2, <1>3, <1>5
     DEF CycleSucceeds, SetStatus, CycleInv, NewsOK, LoopOK, CycleWhole, Failed, Idle
<1>6. CASE Wake
  BY <1>1, <1>6 DEF Wake, Begun, connectionVars, CycleInv, NewsOK, LoopOK, CycleWhole, Idle
<1> QED
  BY <1>4, <1>5, <1>6 DEF Run

(* Every step keeps the cycle invariant.                                      *)
LEMMA CycleStep == CycleInv /\ [Next]_vars => CycleInv'
<1> SUFFICES ASSUME CycleInv, [Next]_vars PROVE CycleInv'
  OBVIOUS
<1>1. Typed'
  BY TypedStep DEF CycleInv
<1>2. CASE UNCHANGED vars
  BY <1>1, <1>2 DEF vars, connectionVars, pollVars, loopVars, CycleInv, NewsOK, LoopOK, CycleWhole,
                    Failed, Idle
<1>3. ASSUME NEW t \in Tasks, NEW k \in Sockets, Send(t, k), UNCHANGED <<pollVars, dashboardVars>>
      PROVE  CycleInv'
  <2>1. \A u \in Tasks : Idle(u) => Idle(u)'
    BY <1>3, SendEffect DEF CycleInv, Typed, Idle
  <2> QED
    BY <1>1, <1>3, <2>1, TasksSplit
       DEF pollVars, loopVars, CycleInv, NewsOK, LoopOK, CycleWhole, Failed
<1>4. CASE ServerRestart
  BY <1>1, <1>4, TasksSplit
     DEF ServerRestart, Restart, CutAll, Silent, Begun, CycleInv, NewsOK, LoopOK, CycleWhole, Idle
<1>5. CASE UNCHANGED <<sending, polls, loopVars>>
  BY <1>1, <1>5 DEF loopVars, CycleInv, NewsOK, LoopOK, CycleWhole, Failed, Idle
<1>6. ASSUME NEW k \in Sockets, Greet(k, StatusMessage(status)) \/ GreetFails(k) \/ Leave(k),
             UNCHANGED <<pollVars, dashboardVars>>
      PROVE  UNCHANGED <<sending, polls, loopVars>>
  BY <1>6 DEF Greet, GreetFails, Leave, pollVars
<1>7. ASSUME NEW c \in Clients,
             \/ Join(c) \/ Cut(c) \/ Receive(c) \/ Hydrate(c) \/ AnswerPrices(c) \/ SeedPrices(c)
             \/ \E s \in Symbols : AnswerOpen(c, s) \/ AnswerBuilt(c, s) \/ AnswerNone(c, s)
      PROVE  UNCHANGED <<sending, polls, loopVars>>
  BY <1>7 DEF Join, Accept, Cut, CutLink, Receive, Hydrate, AnswerPrices, SeedPrices, AnswerOpen,
              AnswerBuilt, AnswerNone, pollVars, connectionVars
<1> QED
  BY <1>1, <1>2, <1>3, <1>4, <1>5, <1>6, <1>7, Steps, PollKeepsCycle, RunKeepsCycle DEF CycleInv

(* Between two cycles every poll is over, with its broadcasts and handlers,   *)
(* and the status tells whether one failed.                                   *)
THEOREM CyclesEndWhole == Spec => []CycleWhole
<1>1. CycleInv => CycleWhole
  BY DEF CycleInv
<1> QED
  BY <1>1, CycleInit, CycleStep, PTL DEF Spec

-----------------------------------------------------------------------------
(* The forming candle.                                                        *)

(* What a step does to a store, but for its status: it dispatches a message,  *)
(* is seeded, or stays.                                                       *)
LEMMA StoreSteps ==
    ASSUME Typed, [Next]_vars, NEW c \in Clients
    PROVE  \/ Receive(c) \/ Hydrate(c) \/ SeedPrices(c)
           \/ /\ store'[c].signals = store[c].signals /\ store'[c].seeded = store[c].seeded
              /\ store'[c].prices = store[c].prices /\ store'[c].forming = store[c].forming
<1>1. CASE UNCHANGED store
  BY <1>1
<1>2. CASE ServerRestart
  BY <1>2, RestartEffect
<1>3. ASSUME NEW d \in Clients, Cut(d)
      PROVE  /\ store'[c].signals = store[c].signals /\ store'[c].seeded = store[c].seeded
             /\ store'[c].prices = store[c].prices /\ store'[c].forming = store[c].forming
  <2>1. CASE UNCHANGED store
    BY <2>1
  <2>2. CASE store' = [store EXCEPT ![d].status = "disconnected"]
    <3>1. store[c] \in Stores /\ store \in [Clients -> Stores]
      BY DEF Typed, DashboardsOK
    <3>2. store'[c] = IF c = d THEN [store[c] EXCEPT !.status = "disconnected"] ELSE store[c]
      BY <2>2, <3>1
    <3> QED
      BY <3>1, <3>2 DEF Stores
  <2> QED
    BY <1>3, <2>1, <2>2 DEF Cut
<1>4. ASSUME NEW d \in Clients, Receive(d) \/ Hydrate(d) \/ SeedPrices(d), d # c
      PROVE  store'[c] = store[c]
  BY <1>4 DEF Receive, Hydrate, SeedPrices, Typed, DashboardsOK
<1>5. ASSUME NEW d \in Clients,
             \/ Join(d) \/ AnswerPrices(d)
             \/ \E s \in Symbols : AnswerOpen(d, s) \/ AnswerBuilt(d, s) \/ AnswerNone(d, s)
      PROVE  UNCHANGED store
  BY <1>5 DEF Join, AnswerPrices, AnswerOpen, AnswerBuilt, AnswerNone
<1>6. CASE UNCHANGED vars
  BY <1>1, <1>6 DEF vars, dashboardVars
<1>7. CASE UNCHANGED dashboardVars
  BY <1>1, <1>7 DEF dashboardVars
<1> QED
  BY <1>1, <1>2, <1>3, <1>4, <1>5, <1>6, <1>7, Steps

(* No price shown is newer than the forming candle. *)
Drawn == \A c \in Clients, s \in Symbols : store[c].prices[s] <= store[c].forming[s]

(* No step takes a forming candle back or leaves it behind the price.         *)
LEMMA FormingStep ==
    ASSUME Typed, Drawn, [Next]_vars, NEW c \in Clients, NEW s \in Symbols
    PROVE  store'[c].forming[s] >= store[c].forming[s] /\ store'[c].forming[s] >= store'[c].prices[s]
<1>1. /\ store[c] \in Stores /\ store[c].prices[s] \in Nat /\ store[c].forming[s] \in Nat
      /\ store[c].prices[s] <= store[c].forming[s]
  BY DEF Typed, DashboardsOK, Stores, Drawn
<1>2. \A last, t \in Nat : Forming(last, t) >= last /\ Forming(last, t) >= t
  BY DEF Forming
<1>3. CASE Receive(c)
  <2> DEFINE m == Head(inbox[c])
  <2>1. m \in Messages /\ store'[c] = Dispatched(store[c], m)
    BY <1>3, ReceiveEffect DEF Typed, DashboardsOK
  <2>2. CASE m \in PriceMessages
    <3>1. m[2] \in Symbols /\ m[3] \in Nat
      BY <2>2, Kinds DEF PriceMessages
    <3>2. /\ store'[c].prices = [store[c].prices EXCEPT ![m[2]] = m[3]]
          /\ store'[c].forming = [store[c].forming EXCEPT ![m[2]] = Forming(store[c].forming[m[2]], m[3])]
      BY <1>1, <2>1, <2>2, DispatchedEffect
    <3>3. store[c].prices \in [Symbols -> Nat] /\ store[c].forming \in [Symbols -> Nat]
      BY <1>1 DEF Stores
    <3> HIDE DEF m
    <3>4. CASE s = m[2]
      BY <1>2, <3>1, <3>2, <3>3, <3>4
    <3>5. CASE s # m[2]
      BY <1>1, <3>1, <3>2, <3>3, <3>5
    <3> QED
      BY <3>4, <3>5
  <2>3. CASE m \notin PriceMessages
    <3> HIDE DEF m
    <3>1. /\ Dispatched(store[c], m).prices = store[c].prices
          /\ Dispatched(store[c], m).forming = store[c].forming
      BY <1>1, <2>1, <2>3, DispatchedEffect, Zenon
    <3> QED
      BY <1>1, <2>1, <3>1
  <2> QED
    BY <2>2, <2>3
<1>4. CASE Hydrate(c)
  <2>1. store'[c].prices = store[c].prices /\ store'[c].forming = store[c].forming
    BY <1>4, HydrateEffect
  <2> QED
    BY <1>1, <2>1
<1>5. CASE SeedPrices(c)
  <2>1. store'[c] = Quoted(store[c], quotes[c]) /\ quotes[c] \in [Symbols -> Nat]
    BY <1>5, SeedEffect DEF Typed, DashboardsOK
  <2> QED
    BY <1>1, <1>2, <2>1, QuotedEffect
<1> QED
  BY <1>1, <1>3, <1>4, <1>5, StoreSteps

(* The forming candle of a chart never goes back in time, and is never behind *)
(* the price shown, in whatever order the ticks and the answer of GET /prices *)
(* reach the store.                                                           *)
THEOREM FormingNeverFallsBehind == Spec => FormingNeverBehind
<1>1. Init => Drawn
  BY DEF Init, EmptyStore, Drawn
<1>2. Typed /\ Drawn /\ [Next]_vars => Drawn'
  <2> SUFFICES ASSUME Typed, Drawn, [Next]_vars PROVE Drawn'
    OBVIOUS
  <2>1. store' \in [Clients -> Stores]
    BY TypedStep DEF Typed, DashboardsOK
  <2> QED
    BY <2>1, FormingStep DEF Drawn, Stores
<1>3. Typed /\ Drawn /\ [Next]_vars =>
        [\A c \in Clients, s \in Symbols :
            store'[c].forming[s] >= store[c].forming[s] /\ store'[c].forming[s] >= store'[c].prices[s]]_vars
  BY FormingStep
<1> QED
  BY <1>1, <1>2, <1>3, TypedAlways, PTL DEF Spec, FormingNeverBehind

-----------------------------------------------------------------------------
(* The feed's status.                                                         *)

(* Only a dashboard's newest socket is up; one that is up is registered, and  *)
(* one that refused a broadcast is not up.                                    *)
LinksOK ==
    /\ \A k \in Sockets : link[k] = "up" => k = Current(k[1]) /\ k \in registered
    /\ \A t \in Tasks : \A k \in sending[t].dead : link[k] = "cut"

(* _run tells nothing but the status as it is. *)
RunSays == ~Idle("_run") => sending["_run"].msg = StatusMessage(status)

(* The last status on its way to c is the feed's, or none is and c shows it. *)
Told(c) ==
    \/ \E p \in 1..Len(inbox[c]) :
        /\ inbox[c][p] = StatusMessage(status)
        /\ \A r \in 1..Len(inbox[c]) : r > p => inbox[c][r] \notin StatusMessages
    \/ store[c].status = status /\ \A p \in 1..Len(inbox[c]) : inbox[c][p] \notin StatusMessages

AllTold ==
    \A c \in Clients :
        Linked(c) /\ endpoint[Current(c)] = "drain" /\ Current(c) \notin sending["_run"].to => Told(c)

StatusInv == CycleInv /\ LinksOK /\ RunSays /\ AllTold

(* A symbol's poll tells prices and signals, one at a time. *)
LEMMA PollSays ==
    ASSUME Typed, NEW s \in Symbols, PollSymbol(s)
    PROVE  /\ UNCHANGED <<link, endpoint, registered, inbox, status>> /\ Idle(s)
           /\ \/ UNCHANGED sending
              \/ \E m \in PriceMessages : Broadcast(s, m) /\ UNCHANGED signals
              \/ Tell(s)
<1>1. /\ Idle(s) /\ UNCHANGED <<link, endpoint, registered, inbox, status>>
  BY DEF PollSymbol, Frame, FetchFails, AnswerEmpty, AnswerBars, NothingClosed, Resolve, ResolveNone,
         Open, OpenNone, Tell, At, connectionVars, loopVars
<1>2. CASE AnswerBars(s)
  <2>1. PriceMessage(s, clock') \in PriceMessages
    BY <1>2 DEF AnswerBars, Typed, PollsOK, PriceMessages
  <2> QED
    BY <1>1, <1>2, <2>1 DEF AnswerBars
<1> QED
  BY <1>1, <1>2
     DEF PollSymbol, Frame, FetchFails, AnswerEmpty, NothingClosed, Resolve, ResolveNone, Open,
         OpenNone, connectionVars

(* _run tells its status, when it has changed. *)
LEMMA RunTells ==
    ASSUME Typed, LoopOK, Run
    PROVE  /\ UNCHANGED <<link, endpoint, registered, inbox, signals>> /\ Idle("_run")
           /\ status' \in Feeds
           /\ \/ UNCHANGED <<sending, status>>
              \/ Broadcast("_run", StatusMessage(status'))
<1>1. /\ UNCHANGED <<link, endpoint, registered, inbox, signals>> /\ Idle("_run")
  BY DEF Run, CycleFails, CycleSucceeds, Wake, connectionVars, LoopOK
<1>2. \A x : SetStatus(x) => /\ status' = x
                             /\ \/ UNCHANGED <<sending, status>>
                                \/ Broadcast("_run", StatusMessage(status'))
  BY DEF SetStatus
<1>3. CASE CycleFails
  BY <1>1, <1>2, <1>3 DEF CycleFails, Feeds
<1>4. CASE CycleSucceeds
  BY <1>1, <1>2, <1>4 DEF CycleSucceeds, Feeds, Typed, PollsOK
<1>5. CASE Wake
  BY <1>1, <1>5 DEF Wake, connectionVars, Typed, PollsOK
<1> QED
  BY <1>3, <1>4, <1>5 DEF Run

(* A new broadcast has met no socket that refused it. *)
LEMMA BroadcastKeepsLinks ==
    ASSUME Typed, LinksOK, NEW t \in Tasks, NEW m \in Messages,
           t \in Symbols => m \in PriceMessages \union SignalMessages, Broadcast(t, m),
           UNCHANGED <<link, registered, socket>>
    PROVE  LinksOK'
<1>1. /\ \A u \in Tasks \ {t} : sending'[u] = sending[u]
      /\ sending'[t].dead = {}
  BY BroadcastEffect DEF Typed
<1> QED
  BY <1>1 DEF LinksOK, Current

(* Every step keeps what is said of the links: a reconnect makes the old      *)
(* socket's link no longer up, and only a cut link is found dead.             *)
LEMMA LinksStep ==
    ASSUME Typed, LoopOK, LinksOK, [Next]_vars
    PROVE  LinksOK'
<1>1. CASE UNCHANGED <<link, registered, sending, socket>>
  BY <1>1 DEF LinksOK, Current
<1>2. ASSUME NEW s \in Symbols, PollSymbol(s), UNCHANGED dashboardVars PROVE LinksOK'
  <2>1. CASE UNCHANGED sending
    BY <1>1, <1>2, <2>1, PollSays DEF dashboardVars
  <2>2. ASSUME NEW m \in PriceMessages, Broadcast(s, m) PROVE LinksOK'
    BY <1>2, <2>2, PollSays, BroadcastKeepsLinks, TasksSplit DEF dashboardVars, Messages
  <2>3. CASE Tell(s)
    <3>1. polls[s].news \in SignalMessages /\ Broadcast(s, polls[s].news)
      BY <2>3 DEF Tell, Typed, PollsOK, Polls
    <3> QED
      BY <1>2, <3>1, PollSays, BroadcastKeepsLinks, TasksSplit DEF dashboardVars, Messages
  <2> QED
    BY <1>2, <2>1, <2>2, <2>3, PollSays
<1>3. CASE Run /\ UNCHANGED dashboardVars
  <2>1. CASE UNCHANGED sending
    BY <1>1, <1>3, <2>1, RunTells DEF dashboardVars
  <2>2. CASE Broadcast("_run", StatusMessage(status'))
    <3>1. StatusMessage(status') \in Messages /\ "_run" \notin Symbols
      BY <1>3, RunTells, PollAssumption DEF Messages, StatusMessages
    <3> QED
      BY <1>3, <2>2, <3>1, RunTells, BroadcastKeepsLinks, TasksSplit DEF dashboardVars
  <2> QED
    BY <1>3, <2>1, <2>2, RunTells
<1>4. ASSUME NEW t \in Tasks, NEW k \in Sockets, Send(t, k), UNCHANGED <<pollVars, dashboardVars>>
      PROVE  LinksOK'
  <2>1. /\ \A u \in Tasks \ {t} : sending'[u] = sending[u]
        /\ sending'[t].dead \subseteq sending[t].dead \union (IF link[k] = "cut" THEN {k} ELSE {})
        /\ \A r \in registered \ registered' :
                  r \in sending[t].dead \union (IF link[k] = "cut" THEN {k} ELSE {})
        /\ link' = link
    BY <1>4, SendEffect DEF Typed
  <2>2. socket' = socket
    BY <1>4 DEF dashboardVars
  <2>3. \A r \in Sockets : link'[r] = "up" => r = Current(r[1])' /\ r \in registered'
    BY <2>1, <2>2 DEF LinksOK, Current
  <2>4. \A u \in Tasks : \A r \in sending'[u].dead : link'[r] = "cut"
    BY <2>1 DEF LinksOK
  <2> QED
    BY <2>3, <2>4 DEF LinksOK
<1>5. ASSUME NEW k \in Sockets, Greet(k, StatusMessage(status)) \/ GreetFails(k) \/ Leave(k),
             UNCHANGED <<pollVars, dashboardVars>>
      PROVE  LinksOK'
  BY <1>5 DEF Greet, GreetFails, Leave, dashboardVars, LinksOK, Current
<1>6. CASE ServerRestart
  <2>1. \A k \in Sockets : link'[k] # "up"
    BY <1>6 DEF ServerRestart, Restart, CutAll
  <2>2. \A t \in Tasks : sending'[t].dead = {}
    BY <1>6 DEF ServerRestart, Restart, CutAll, Silent
  <2> QED
    BY <2>1, <2>2 DEF LinksOK
<1>7. ASSUME NEW c \in Clients, Join(c) PROVE LinksOK'
  <2>1. /\ socket' = [socket EXCEPT ![c] = socket[c] + 1] /\ socket[c] \in Nat
        /\ socket'[c] = socket[c] + 1
    BY <1>7, SocketsAssumption DEF Join, Typed, DashboardsOK
  <2>2. /\ link[<<c, socket'[c]>>] = "unused"
        /\ link' = [link EXCEPT ![<<c, socket'[c]>>] = "up"]
        /\ registered' = registered \union {<<c, socket'[c]>>} /\ UNCHANGED sending
    BY <1>7 DEF Join, Accept
  <2>3. \A k \in Sockets : k[1] = c => link[k] # "up"
    <3>1. ASSUME NEW k \in Sockets, k[1] = c, link[k] = "up" PROVE FALSE
      <4>1. k = <<c, socket[c]>> /\ k[2] \in 1..MaxSockets
        BY <3>1 DEF LinksOK, Current, Sockets
      <4> QED
        BY <1>7, <2>1, <3>1, <4>1, SocketsAssumption DEF Join, Linked, Current
    <3> QED
      BY <3>1
  <2>4. ASSUME NEW k \in Sockets, link'[k] = "up" PROVE k = Current(k[1])' /\ k \in registered'
    <3>1. CASE k = <<c, socket'[c]>>
      BY <2>2, <3>1 DEF Current
    <3>2. CASE k # <<c, socket'[c]>>
      <4>1. link[k] = "up"
        BY <2>2, <2>4, <3>2 DEF Typed, ConnectionsOK
      <4>2. k[1] # c /\ k[1] \in Clients
        BY <2>3, <4>1 DEF Sockets
      <4> QED
        BY <2>1, <2>2, <4>1, <4>2 DEF LinksOK, Current, Typed, DashboardsOK
    <3> QED
      BY <3>1, <3>2
  <2>5. ASSUME NEW t \in Tasks, NEW k \in sending'[t].dead PROVE link'[k] = "cut"
    <3>1. link[k] = "cut" /\ k \in Sockets
      BY <2>2 DEF LinksOK, Typed, ConnectionsOK, Sendings
    <3> QED
      BY <2>2, <3>1 DEF Typed, ConnectionsOK
  <2> QED
    BY <2>4, <2>5 DEF LinksOK
<1>8. ASSUME NEW c \in Clients, Cut(c) PROVE LinksOK'
  <2>1. /\ link' = [link EXCEPT ![Current(c)] = "cut"] /\ UNCHANGED <<registered, sending, socket>>
    BY <1>8 DEF Cut, CutLink
  <2>2. \A k \in Sockets : link'[k] = IF k = Current(c) THEN "cut" ELSE link[k]
    BY <2>1 DEF Typed, ConnectionsOK
  <2>3. \A k \in Sockets : link'[k] = "up" => k = Current(k[1])' /\ k \in registered'
    BY <2>1, <2>2 DEF LinksOK, Current
  <2>4. \A t \in Tasks : \A k \in sending'[t].dead : k \in Sockets /\ link'[k] = "cut"
    BY <2>1, <2>2 DEF LinksOK, Typed, ConnectionsOK, Sendings
  <2> QED
    BY <2>3, <2>4 DEF LinksOK
<1>9. ASSUME NEW c \in Clients,
             \/ Receive(c) \/ Hydrate(c) \/ AnswerPrices(c) \/ SeedPrices(c)
             \/ \E s \in Symbols : AnswerOpen(c, s) \/ AnswerBuilt(c, s) \/ AnswerNone(c, s)
      PROVE  UNCHANGED <<link, registered, sending, socket>>
  BY <1>9 DEF Receive, Hydrate, AnswerPrices, SeedPrices, AnswerOpen, AnswerBuilt, AnswerNone,
              connectionVars
<1>10. CASE UNCHANGED vars
  BY <1>1, <1>10 DEF vars, connectionVars, dashboardVars
<1> QED
  BY <1>1, <1>2, <1>3, <1>4, <1>5, <1>6, <1>7, <1>8, <1>9, <1>10, Steps

(* No other task tells the status. *)
LEMMA RunSaysStep ==
    ASSUME Typed, LoopOK, RunSays, [Next]_vars
    PROVE  RunSays'
<1>0. "_run" \in Tasks /\ "_run" \notin Symbols /\ \A s \in Symbols : s \in Tasks /\ s # "_run"
  BY PollAssumption
<1>1. CASE UNCHANGED <<sending, status>>
  BY <1>1 DEF RunSays, Idle
<1>2. ASSUME NEW s \in Symbols, PollSymbol(s), UNCHANGED dashboardVars PROVE RunSays'
  <2>1. UNCHANGED status /\ sending'["_run"] = sending["_run"]
    BY <1>0, <1>2, PollSays DEF Tell, Broadcast, Typed, ConnectionsOK
  <2> QED
    BY <2>1 DEF RunSays, Idle
<1>3. CASE Run /\ UNCHANGED dashboardVars
  <2>1. CASE Broadcast("_run", StatusMessage(status'))
    <3>1. StatusMessage(status') \in Messages
      BY <1>3, RunTells DEF Messages, StatusMessages
    <3>2. /\ sending'["_run"].to = registered
          /\ registered # {} => sending'["_run"].msg = StatusMessage(status')
      BY <1>0, <2>1, <3>1, BroadcastEffect DEF Typed
    <3> QED
      BY <3>2 DEF RunSays, Idle
  <2> QED
    BY <1>1, <1>3, <2>1, RunTells
<1>4. ASSUME NEW t \in Tasks, NEW k \in Sockets, Send(t, k), UNCHANGED <<pollVars, dashboardVars>>
      PROVE  RunSays'
  <2>1. /\ \A u \in Tasks \ {t} : sending'[u] = sending[u]
        /\ sending'[t].to = sending[t].to \ {k}
        /\ sending'[t].to # {} => sending'[t].msg = sending[t].msg
        /\ status' = status
    BY <1>4, SendEffect DEF Typed, pollVars, loopVars
  <2> QED
    BY <1>0, <2>1 DEF RunSays, Idle
<1>5. CASE ServerRestart
  BY <1>0, <1>5 DEF ServerRestart, Restart, CutAll, Silent, RunSays, Idle
<1>6. ASSUME NEW k \in Sockets, Greet(k, StatusMessage(status)) \/ GreetFails(k) \/ Leave(k),
             UNCHANGED <<pollVars, dashboardVars>>
      PROVE  UNCHANGED <<sending, status>>
  BY <1>6 DEF Greet, GreetFails, Leave, pollVars, loopVars
<1>7. ASSUME NEW c \in Clients,
             \/ Join(c) \/ Cut(c) \/ Receive(c) \/ Hydrate(c) \/ AnswerPrices(c) \/ SeedPrices(c)
             \/ \E s \in Symbols : AnswerOpen(c, s) \/ AnswerBuilt(c, s) \/ AnswerNone(c, s)
      PROVE  UNCHANGED <<sending, status>>
  BY <1>7 DEF Join, Accept, Cut, CutLink, Receive, Hydrate, AnswerPrices, SeedPrices, AnswerOpen,
              AnswerBuilt, AnswerNone, connectionVars, pollVars, loopVars
<1>8. CASE UNCHANGED vars
  BY <1>1, <1>8 DEF vars, connectionVars, pollVars, loopVars
<1> QED
  BY <1>1, <1>2, <1>3, <1>4, <1>5, <1>6, <1>7, <1>8, Steps

(* Told, from one message to the next: a status is put last, another message  *)
(* changes nothing, and the oldest is dispatched.                             *)
LEMMA ToldKept ==
    ASSUME NEW c, Told(c), UNCHANGED status, inbox'[c] = inbox[c],
           store'[c].status = store[c].status
    PROVE  Told(c)'
BY DEF Told

(* A delivered status message is the newest word of its client; any other     *)
(* message leaves the word as it was.                                         *)
LEMMA ToldPushed ==
    ASSUME Typed, NEW c \in Clients, NEW m \in Messages, inbox'[c] = Append(inbox[c], m),
           \/ m = StatusMessage(status')
           \/ /\ m \notin StatusMessages /\ Told(c) /\ UNCHANGED status
              /\ store'[c].status = store[c].status
    PROVE  Told(c)'
<1>1. /\ Len(inbox'[c]) = Len(inbox[c]) + 1 /\ Len(inbox[c]) \in Nat
      /\ \A p \in 1..Len(inbox[c]) : inbox'[c][p] = inbox[c][p]
      /\ inbox'[c][Len(inbox[c]) + 1] = m
  BY AppendProperties, LenProperties DEF Typed, ConnectionsOK
<1>2. \A p \in 1..Len(inbox'[c]) : p \in 1..Len(inbox[c]) \/ p = Len(inbox[c]) + 1
  BY <1>1
<1>3. CASE m = StatusMessage(status')
  <2>1. Len(inbox[c]) + 1 \in 1..Len(inbox'[c])
    BY <1>1
  <2>2. \A r \in 1..Len(inbox'[c]) : ~(r > Len(inbox[c]) + 1)
    BY <1>1
  <2> QED
    BY <1>1, <1>3, <2>1, <2>2 DEF Told
<1>4. CASE /\ m \notin StatusMessages /\ Told(c) /\ UNCHANGED status
           /\ store'[c].status = store[c].status
  <2>1. CASE store[c].status = status /\ \A p \in 1..Len(inbox[c]) : inbox[c][p] \notin StatusMessages
    BY <1>1, <1>2, <1>4, <2>1 DEF Told
  <2>2. ASSUME NEW p \in 1..Len(inbox[c]), inbox[c][p] = StatusMessage(status),
               \A r \in 1..Len(inbox[c]) : r > p => inbox[c][r] \notin StatusMessages
        PROVE  Told(c)'
    <3>1. p \in 1..Len(inbox'[c]) /\ inbox'[c][p] = StatusMessage(status')
      BY <1>1, <1>4, <2>2
    <3>2. ASSUME NEW r \in 1..Len(inbox'[c]), r > p PROVE inbox'[c][r] \notin StatusMessages
      BY <1>1, <1>2, <1>4, <2>2, <3>2
    <3> QED
      BY <3>1, <3>2 DEF Told
  <2> QED
    BY <1>4, <2>1, <2>2 DEF Told
<1> QED
  BY <1>3, <1>4

(* The dispatch of a message makes the store say what the inbox said.         *)
LEMMA ToldReceived ==
    ASSUME Typed, NEW c \in Clients, Told(c), Receive(c)
    PROVE  Told(c)'
<1> DEFINE m == Head(inbox[c])
<1>1. /\ m \in Messages /\ m = inbox[c][1] /\ Len(inbox[c]) \in Nat \ {0}
      /\ Len(inbox'[c]) = Len(inbox[c]) - 1
      /\ \A i \in 1..Len(inbox'[c]) : inbox'[c][i] = inbox[c][i + 1]
      /\ store'[c] = Dispatched(store[c], m) /\ store[c] \in Stores
  BY ReceiveEffect DEF Typed, DashboardsOK
<1>2. status' = status
  BY DEF Receive, pollVars, loopVars
<1> HIDE DEF m
<1>3. Dispatched(store[c], m).status = IF m \in StatusMessages THEN m[2] ELSE store[c].status
  BY <1>1, DispatchedEffect, Zenon
<1>4. \A i \in 1..Len(inbox'[c]) : i + 1 \in 1..Len(inbox[c])
  BY <1>1
<1>5. CASE store[c].status = status /\ \A p \in 1..Len(inbox[c]) : inbox[c][p] \notin StatusMessages
  <2>1. m \notin StatusMessages
    BY <1>1, <1>5
  <2> QED
    BY <1>1, <1>2, <1>3, <1>4, <1>5, <2>1 DEF Told
<1>6. ASSUME NEW p \in 1..Len(inbox[c]), inbox[c][p] = StatusMessage(status),
             \A r \in 1..Len(inbox[c]) : r > p => inbox[c][r] \notin StatusMessages
      PROVE  Told(c)'
  <2>1. CASE p = 1
    <3>1. m = StatusMessage(status) /\ m \in StatusMessages /\ m[2] = status
      BY <1>1, <1>6, <2>1, Kinds DEF Typed, PollsOK, StatusMessages
    <3>2. \A i \in 1..Len(inbox'[c]) : inbox'[c][i] \notin StatusMessages
      BY <1>1, <1>4, <1>6, <2>1
    <3> QED
      BY <1>1, <1>2, <1>3, <3>1, <3>2 DEF Told
  <2>2. CASE p > 1
    <3>1. p - 1 \in 1..Len(inbox'[c]) /\ inbox'[c][p - 1] = inbox[c][p]
      BY <1>1, <2>2
    <3>2. ASSUME NEW r \in 1..Len(inbox'[c]), r > p - 1 PROVE inbox'[c][r] \notin StatusMessages
      <4>1. r + 1 > p /\ r + 1 \in 1..Len(inbox[c])
        BY <1>4, <3>2
      <4> QED
        BY <1>1, <1>6, <4>1
    <3> QED
      BY <1>2, <1>6, <3>1, <3>2 DEF Told
  <2> QED
    BY <2>1, <2>2
<1> QED
  BY <1>5, <1>6 DEF Told

(* Only a dispatched message, a lost connection and a restart of the server   *)
(* change the status a dashboard shows.                                       *)
LEMMA ShownStatus ==
    ASSUME Typed, [Next]_vars, NEW c \in Clients
    PROVE  Receive(c) \/ Cut(c) \/ ServerRestart \/ store'[c].status = store[c].status
<1>1. CASE UNCHANGED store
  BY <1>1
<1>2. CASE UNCHANGED dashboardVars \/ UNCHANGED vars
  BY <1>2 DEF vars, dashboardVars
<1>3. ASSUME NEW d \in Clients, Receive(d) \/ Cut(d), d # c PROVE store'[c] = store[c]
  BY <1>3 DEF Receive, Cut, Typed, DashboardsOK
<1>4. ASSUME NEW d \in Clients, Hydrate(d) PROVE store'[c].status = store[c].status
  BY <1>4, HydrateEffect
<1>5. ASSUME NEW d \in Clients, SeedPrices(d) PROVE store'[c].status = store[c].status
  <2>1. CASE d = c
    <3>1. store[c] \in Stores /\ quotes[c] \in [Symbols -> Nat] /\ store'[c] = Quoted(store[c], quotes[c])
      BY <1>5, <2>1, SeedEffect DEF Typed, DashboardsOK
    <3> QED
      BY <3>1, QuotedEffect
  <2>2. CASE d # c
    BY <1>5, <2>2 DEF SeedPrices, Typed, DashboardsOK
  <2> QED
    BY <2>1, <2>2
<1>6. ASSUME NEW d \in Clients,
             \/ Join(d) \/ AnswerPrices(d)
             \/ \E s \in Symbols : AnswerOpen(d, s) \/ AnswerBuilt(d, s) \/ AnswerNone(d, s)
      PROVE  UNCHANGED store
  BY <1>6 DEF Join, AnswerPrices, AnswerOpen, AnswerBuilt, AnswerNone
<1> QED
  BY <1>1, <1>2, <1>3, <1>4, <1>5, <1>6, Steps

(* A connected dashboard that has been greeted, and to which the status is    *)
(* not being sent, has been told it.                                          *)
LEMMA ToldStep ==
    ASSUME CycleInv, LinksOK, RunSays, AllTold, [Next]_vars
    PROVE  AllTold'
<1> SUFFICES ASSUME NEW c \in Clients, Linked(c)', (endpoint[Current(c)] = "drain")',
                    (Current(c) \notin sending["_run"].to)'
             PROVE  Told(c)'
  BY DEF AllTold
<1> USE DEF CycleInv
<1>0. /\ "_run" \in Tasks /\ "_run" \notin Symbols /\ \A s \in Symbols : s \in Tasks /\ s # "_run"
      /\ LoopOK /\ Typed
  BY PollAssumption
<1>1. ASSUME UNCHANGED <<link, endpoint, socket, status>>, inbox'[c] = inbox[c],
             sending'["_run"] = sending["_run"], store'[c].status = store[c].status
      PROVE  Told(c)'
  <2>1. Told(c)
    BY <1>1 DEF AllTold, Linked, Current
  <2> QED
    BY <1>1, <2>1, ToldKept
<1>2. ASSUME NEW s \in Symbols, PollSymbol(s), UNCHANGED dashboardVars PROVE Told(c)'
  <2>1. sending'["_run"] = sending["_run"]
    BY <1>0, <1>2, PollSays DEF Tell, Broadcast, Typed, ConnectionsOK
  <2> QED
    BY <1>0, <1>1, <1>2, <2>1, PollSays DEF dashboardVars
<1>3. CASE Run /\ UNCHANGED dashboardVars
  <2>1. CASE UNCHANGED <<sending, status>>
    BY <1>0, <1>1, <1>3, <2>1, RunTells DEF dashboardVars
  <2>2. CASE Broadcast("_run", StatusMessage(status'))
    <3>1. StatusMessage(status') \in Messages
      BY <1>0, <1>3, RunTells DEF Messages, StatusMessages
    <3>2. sending'["_run"].to = registered
      BY <1>0, <2>2, <3>1, BroadcastEffect DEF Typed
    <3>3. Linked(c) /\ UNCHANGED <<link, socket>>
      BY <1>0, <1>3, RunTells DEF dashboardVars, Linked, Current
    <3>4. Current(c) \in registered /\ Current(c)' = Current(c)
      BY <1>0, <3>3, CurrentSocket DEF LinksOK, Linked, Current
    <3> QED
      BY <3>2, <3>4
  <2> QED
    BY <1>0, <1>3, <2>1, <2>2, RunTells
<1>4. ASSUME NEW t \in Tasks, NEW k \in Sockets, Send(t, k), UNCHANGED <<pollVars, dashboardVars>>
      PROVE  Told(c)'
  <2>1. /\ UNCHANGED <<link, endpoint, socket, store, status>>
        /\ Linked(c) /\ Current(c)' = Current(c) /\ Current(c) \in Sockets
    BY <1>0, <1>4, SendEffect, CurrentSocket
       DEF Typed, pollVars, loopVars, dashboardVars, Linked, Current
  <2>2. /\ \A u \in Tasks \ {t} : sending'[u] = sending[u]
        /\ sending'[t].to = sending[t].to \ {k} /\ k \in sending[t].to
        /\ IF link[k] = "up" THEN Push(k, sending[t].msg) ELSE UNCHANGED inbox
        /\ ConnectionsOK
    BY <1>0, <1>4, SendEffect DEF Typed
  <2>3. ASSUME k # Current(c), inbox'[c] = inbox[c] PROVE Told(c)'
    <3>1. Current(c) \notin sending["_run"].to
      BY <1>0, <2>1, <2>2, <2>3
    <3>2. Told(c)
      BY <2>1, <3>1 DEF AllTold
    <3> QED
      BY <2>1, <2>3, <3>2, ToldKept
  <2>4. CASE link[k] # "up"
    BY <2>1, <2>2, <2>3, <2>4 DEF Linked
  <2>5. CASE link[k] = "up" /\ k[1] # c
    <3>1. sending[t].msg \in Messages /\ k[1] \in Clients
      BY <2>2 DEF ConnectionsOK, Idle, Sockets
    <3>2. inbox'[c] = inbox[c] /\ k # Current(c)
      BY <1>0, <2>2, <2>5, <3>1, PushEffect, CurrentSocket
    <3> QED
      BY <2>3, <3>2
  <2>6. CASE link[k] = "up" /\ k[1] = c
    <3>1. ~Idle(t) /\ sending[t].msg \in Messages
      BY <2>2 DEF ConnectionsOK, Idle
    <3>2. inbox'[c] = Append(inbox[c], sending[t].msg)
      BY <2>2, <2>6, <3>1, PushEffect
    <3>3. CASE t = "_run"
      BY <1>0, <2>1, <3>1, <3>2, <3>3, ToldPushed DEF RunSays
    <3>4. CASE t \in Symbols
      <4>1. sending[t].msg \notin StatusMessages
        BY <2>2, <3>1, <3>4, Kinds, SMTT(20) DEF ConnectionsOK, PriceMessages, SignalMessages, StatusMessages
      <4>2. Told(c)
        BY <1>0, <2>1, <2>2, <3>4 DEF AllTold
      <4> QED
        BY <1>0, <2>1, <3>1, <3>2, <4>1, <4>2, ToldPushed
    <3> QED
      BY <3>3, <3>4, TasksSplit
  <2> QED
    BY <2>4, <2>5, <2>6
<1>5. ASSUME NEW k \in Sockets, Greet(k, StatusMessage(status)), UNCHANGED <<pollVars, dashboardVars>>
      PROVE  Told(c)'
  <2>1. /\ Push(k, StatusMessage(status)) /\ StatusMessage(status) \in Messages
        /\ UNCHANGED <<link, registered, sending, status, store, socket>>
        /\ endpoint' = [endpoint EXCEPT ![k] = "drain"] /\ k[1] \in Clients
    BY <1>0, <1>5 DEF Greet, Typed, PollsOK, Messages, StatusMessages, Sockets, pollVars, loopVars,
                      dashboardVars
  <2>2. CASE k[1] = c
    <3>1. inbox'[c] = Append(inbox[c], StatusMessage(status))
      BY <1>0, <2>1, <2>2, PushEffect DEF Typed
    <3> QED
      BY <1>0, <2>1, <3>1, ToldPushed
  <2>3. CASE k[1] # c
    <3>1. inbox'[c] = inbox[c]
      BY <1>0, <2>1, <2>3, PushEffect DEF Typed
    <3>2. /\ Current(c)' = Current(c) /\ k # Current(c)
          /\ Linked(c) /\ endpoint[Current(c)] = "drain"
      BY <1>0, <2>1, <2>3, CurrentSocket DEF Current, Linked, Typed, ConnectionsOK
    <3>3. Told(c)
      BY <2>1, <3>2 DEF AllTold
    <3> QED
      BY <2>1, <3>1, <3>3, ToldKept
  <2> QED
    BY <2>2, <2>3
<1>6. ASSUME NEW k \in Sockets, GreetFails(k) \/ Leave(k), UNCHANGED <<pollVars, dashboardVars>>
      PROVE  Told(c)'
  <2>1. /\ UNCHANGED <<link, inbox, sending, status, store, socket>>
        /\ endpoint' = [endpoint EXCEPT ![k] = "gone"]
    BY <1>6 DEF GreetFails, Leave, pollVars, loopVars, dashboardVars
  <2>2. Linked(c) /\ Current(c)' = Current(c) /\ endpoint[Current(c)] = "drain"
    BY <1>0, <2>1 DEF Current, Linked, Typed, ConnectionsOK
  <2>3. Told(c)
    BY <2>1, <2>2 DEF AllTold
  <2> QED
    BY <2>1, <2>3, ToldKept
<1>7. ASSUME ServerRestart PROVE FALSE
  <2>1. Current(c)' \in Sockets
    <3>1. Typed'
      BY <1>0, TypedStep
    <3>2. socket'[c] > 0 => Current(c)' \in Sockets
      BY <3>1, SocketsAssumption DEF Typed, DashboardsOK, Current, Sockets
    <3> QED
      BY <3>2 DEF Linked
  <2>2. \A k \in Sockets : link'[k] # "up"
    BY <1>7 DEF ServerRestart, Restart, CutAll
  <2> QED
    BY <2>1, <2>2 DEF Linked
<1>8. ASSUME NEW d \in Clients, Join(d) PROVE Told(c)'
  <2>1. /\ endpoint' = [endpoint EXCEPT ![<<d, socket'[d]>>] = "greet"]
        /\ link' = [link EXCEPT ![<<d, socket'[d]>>] = "up"]
        /\ socket' = [socket EXCEPT ![d] = socket[d] + 1]
        /\ UNCHANGED <<inbox, sending, status, store>>
    BY <1>8 DEF Join, Accept, loopVars
  <2>2. <<d, socket'[d]>> \in Sockets
    BY <1>0, <1>8, <2>1, SocketsAssumption DEF Join, Typed, DashboardsOK, Sockets
  <2>3. c # d
    BY <1>0, <2>1, <2>2 DEF Current, Typed, ConnectionsOK
  <2>4. /\ Current(c)' = Current(c) /\ Current(c) # <<d, socket'[d]>>
        /\ Linked(c) /\ endpoint[Current(c)] = "drain"
    BY <1>0, <2>1, <2>2, <2>3, CurrentSocket DEF Current, Linked, Typed, ConnectionsOK, DashboardsOK
  <2>5. Told(c)
    BY <2>1, <2>4 DEF AllTold
  <2> QED
    BY <2>1, <2>5, ToldKept
<1>9. ASSUME NEW d \in Clients, Cut(d) PROVE Told(c)'
  <2>1. /\ link' = [link EXCEPT ![Current(d)] = "cut"] /\ inbox' = [inbox EXCEPT ![d] = <<>>]
        /\ UNCHANGED <<endpoint, sending, status, socket>> /\ Current(d) \in Sockets
    BY <1>0, <1>9, CurrentSocket DEF Cut, CutLink, loopVars
  <2>2. c # d
    BY <1>0, <2>1 DEF Linked, Current, Typed, ConnectionsOK
  <2>3. store'[c] = store[c] /\ inbox'[c] = inbox[c]
    BY <1>0, <1>9, <2>1, <2>2 DEF Cut, Typed, ConnectionsOK, DashboardsOK
  <2>4. Linked(c) /\ Current(c)' = Current(c) /\ Current(c) # Current(d)
    BY <1>0, <2>1, <2>2 DEF Linked, Current, Typed, ConnectionsOK
  <2>5. Told(c)
    BY <2>1, <2>4 DEF AllTold
  <2> QED
    BY <2>1, <2>3, <2>5, ToldKept
<1>10. ASSUME NEW d \in Clients, Receive(d) PROVE Told(c)'
  <2>1. UNCHANGED <<link, endpoint, sending, status, socket>>
    BY <1>10 DEF Receive, pollVars, loopVars
  <2>2. Told(c)
    BY <2>1 DEF AllTold, Linked, Current
  <2>3. CASE d = c
    BY <1>0, <1>10, <2>2, <2>3, ToldReceived
  <2>4. CASE d # c
    <3>1. inbox'[c] = inbox[c] /\ store'[c] = store[c]
      BY <1>0, <1>10, <2>4, ReceiveEffect DEF Typed, DashboardsOK
    <3> QED
      BY <2>1, <2>2, <3>1, ToldKept
  <2> QED
    BY <2>3, <2>4
<1>11. ASSUME NEW d \in Clients,
              \/ Hydrate(d) \/ AnswerPrices(d) \/ SeedPrices(d)
              \/ \E s \in Symbols : AnswerOpen(d, s) \/ AnswerBuilt(d, s) \/ AnswerNone(d, s)
       PROVE  UNCHANGED <<link, endpoint, socket, status, inbox, sending>>
  BY <1>11 DEF Hydrate, AnswerPrices, SeedPrices, AnswerOpen, AnswerBuilt, AnswerNone,
               connectionVars, pollVars, loopVars
<1>12. CASE UNCHANGED <<link, endpoint, socket, status, inbox, sending>>
  BY <1>0, <1>1, <1>7, <1>9, <1>10, <1>12, ShownStatus
<1>13. CASE UNCHANGED vars
  BY <1>12, <1>13 DEF vars, connectionVars, pollVars, loopVars, dashboardVars
<1> QED
  BY <1>2, <1>3, <1>4, <1>5, <1>6, <1>7, <1>8, <1>9, <1>10, <1>11, <1>12, <1>13, Steps

(* No dashboard is there yet, so all are told.                                *)
LEMMA StatusInit == Init => StatusInv
<1> SUFFICES ASSUME Init PROVE StatusInv
  OBVIOUS
<1>1. /\ \A k \in Sockets : link[k] = "unused"
      /\ \A t \in Tasks : sending[t] = Silent
      /\ \A c \in Clients : socket[c] = 0
  BY DEF Init, ConnectionsInit
<1> QED
  BY <1>1, CycleInit, TasksSplit DEF StatusInv, LinksOK, RunSays, AllTold, Linked, Idle, Silent

(* Every step keeps the status invariant.                                     *)
LEMMA StatusStep == StatusInv /\ [Next]_vars => StatusInv'
BY CycleStep, LinksStep, RunSaysStep, ToldStep DEF StatusInv, CycleInv

(* A connected dashboard that has dispatched all it was sent shows the feed's *)
(* status, whenever it connected and whatever happened to the other sockets.  *)
THEOREM StatusStaysInStep == Spec => []StatusInStep
<1>1. StatusInv => StatusInStep
  <2> SUFFICES ASSUME StatusInv, NEW c \in Clients, Linked(c), endpoint[Current(c)] = "drain",
                      inbox[c] = <<>>, Current(c) \notin sending["_run"].to
               PROVE  store[c].status = status
    BY DEF StatusInStep
  <2>1. Told(c)
    BY DEF StatusInv, AllTold
  <2>2. Len(inbox[c]) = 0
    BY EmptySeq
  <2> QED
    BY <2>1, <2>2 DEF Told
<1> QED
  BY <1>1, StatusInit, StatusStep, PTL DEF Spec
=============================================================================
