------------------------------ MODULE Dashboard ------------------------------
(* The dashboards of one source: useMarketSocket, the bootstrap requests and   *)
(* the market store of each, against the server of PollCycle.                  *)
(*                                                                             *)
(* A signal in a store is "open" or "resolved"; a price is the time it was     *)
(* observed at, and a forming candle the time of its last price.               *)
EXTENDS PollCycle

VARIABLES
    socket,   \* number of each client's newest socket, 0 before the first
    store,    \* each client's market store
    answers,  \* what the server answered to each client's GET /signals/{symbol}/latest
    quotes,   \* what the server answered to each client's GET /prices
    since     \* the socket that was registered when the first of those answers was computed

dashboardVars == <<socket, store, answers, quotes, since>>
vars == <<connectionVars, pollVars, dashboardVars>>

Current(c) == <<c, socket[c]>>
Linked(c) == socket[c] > 0 /\ link[Current(c)] = "up"

EmptyStore ==
    [status |-> "unknown", signals |-> <<>>, seeded |-> FALSE,
     prices |-> [s \in Symbols |-> 0], forming |-> [s \in Symbols |-> 0], quoted |-> FALSE]

Init ==
    /\ ConnectionsInit /\ PollInit
    /\ socket = [c \in Clients |-> 0]
    /\ store = [c \in Clients |-> EmptyStore]
    /\ answers = [c \in Clients |-> <<>>]
    /\ quotes = [c \in Clients |-> <<>>]
    /\ since = [c \in Clients |-> 0]

-----------------------------------------------------------------------------
(* useMarketSocket *)

(* connect: on mounting, and when the reconnect timer fires. *)
Join(c) ==
    /\ ~Linked(c) /\ socket[c] < MaxSockets
    /\ May("joins") /\ Spend("joins")
    /\ socket' = [socket EXCEPT ![c] = @ + 1]
    /\ Accept(<<c, socket'[c]>>)
    /\ UNCHANGED <<polls, loopVars, clock, latest, signals, store, answers, quotes, since>>

(* The connection is lost; the browser may report an error before it closes. *)
Cut(c) ==
    /\ Linked(c)
    /\ May("cuts") /\ Spend("cuts")
    /\ CutLink(Current(c))
    /\ \/ store' = [store EXCEPT ![c].status = "disconnected"]
       \/ UNCHANGED store
    /\ UNCHANGED <<polls, loopVars, clock, latest, signals, socket, answers, quotes, since>>

(* Variant: every price the store takes is folded into the candle. *)
Forming_NoGuard(last, t) == t

(* useFormingCandle: a price that is not newer than the last is left out. *)
Forming(last, t) == IF t <= last THEN last ELSE t

(* setPrice, and what the chart makes of it. *)
Priced(st, s, t) == [st EXCEPT !.prices[s] = t, !.forming[s] = Forming(@, t)]

(* upsertSignal: the message replaces what was there. *)
Put(f, i, x) == [j \in DOMAIN f \union {i} |-> IF j = i THEN x ELSE f[j]]

Dispatched(st, m) ==
    CASE m[1] = "feed_status" -> [st EXCEPT !.status = m[2]]
      [] m[1] = "price"       -> Priced(st, m[2], m[3])
      [] m[1] = "signal"      -> [st EXCEPT !.signals = Put(@, m[2], m[3])]

(* handleMessage *)
Receive(c) ==
    /\ inbox[c] # <<>>
    /\ store' = [store EXCEPT ![c] = Dispatched(@, Head(inbox[c]))]
    /\ inbox' = [inbox EXCEPT ![c] = Tail(@)]
    /\ UNCHANGED <<link, endpoint, registered, sending, pollVars, socket, answers, quotes, since>>

-----------------------------------------------------------------------------
(* The bootstrap requests, one for every symbol; each is answered in a time  *)
(* of its own, and the store is seeded with all the answers at once.         *)

(* Its first answer counts against the bound. *)
Asked(c, s) ==
    /\ ~store[c].seeded /\ s \notin DOMAIN answers[c]
    /\ answers[c] = <<>> => May("boots")
    /\ since' = [since EXCEPT ![c] =
        IF answers[c] # <<>> THEN @
        ELSE IF Current(c) \in registered /\ Linked(c) THEN socket[c] ELSE 0]

Booted(c) == IF answers[c] = <<>> THEN [left EXCEPT !.boots = @ - 1] ELSE left

Answer(c, s, i) == answers' = [answers EXCEPT ![c] = Put(@, s, i)]

(* GET /signals/{symbol}/latest finds an open signal. *)
AnswerOpen(c, s) ==
    /\ Asked(c, s)
    /\ left' = Booted(c)
    /\ \E i \in OpenIds(s) : Answer(c, s, i)
    /\ UNCHANGED <<connectionVars, polls, loopVars, clock, latest, signals, socket, store, quotes>>

(* It finds none and creates one, of which nobody else is told. *)
AnswerBuilt(c, s) ==
    /\ Asked(c, s)
    /\ OpenIds(s) = {}
    /\ May("signals")
    /\ left' = [Booted(c) EXCEPT !.signals = @ - 1]
    /\ signals' = Append(signals, [symbol |-> s, status |-> "open", by |-> c])
    /\ Answer(c, s, Len(signals) + 1)
    /\ UNCHANGED <<connectionVars, polls, loopVars, clock, latest, socket, store, quotes>>

(* 404 *)
AnswerNone(c, s) ==
    /\ Asked(c, s)
    /\ left' = Booted(c)
    /\ OpenIds(s) = {}
    /\ Answer(c, s, 0)
    /\ UNCHANGED <<connectionVars, polls, loopVars, clock, latest, signals, socket, store, quotes>>

(* Variant: the answers replace what the socket has delivered. *)
Hydrated_Replaces(known, found) ==
    [i \in DOMAIN known \union found |-> IF i \in found THEN "open" ELSE known[i]]

(* hydrateSignals: what the store has already is kept. *)
Hydrated(known, found) ==
    [i \in DOMAIN known \union found |-> IF i \in DOMAIN known THEN known[i] ELSE "open"]

Hydrate(c) ==
    /\ ~store[c].seeded /\ DOMAIN answers[c] = Symbols
    /\ store' = [store EXCEPT ![c].seeded = TRUE,
                              ![c].signals = Hydrated(@, {answers[c][s] : s \in Symbols} \ {0})]
    /\ answers' = [answers EXCEPT ![c] = <<>>]
    /\ UNCHANGED <<connectionVars, pollVars, socket, quotes, since>>

(* GET /prices: the newest tick of each symbol that has one.  (For the others *)
(* a stored candle's close stands in, which is older than any tick.)          *)
AnswerPrices(c) ==
    /\ May("quotes") /\ Spend("quotes") /\ ~store[c].quoted /\ quotes[c] = <<>>
    /\ quotes' = [quotes EXCEPT ![c] = latest]
    /\ UNCHANGED <<connectionVars, polls, loopVars, clock, latest, signals, socket, store, answers, since>>

Quoted(st, given) ==
    LET ticked == {s \in Symbols : given[s] > 0}
    IN  [st EXCEPT !.quoted = TRUE,
                   !.prices = [s \in Symbols |-> IF s \in ticked THEN given[s] ELSE @[s]],
                   !.forming = [s \in Symbols |-> IF s \in ticked THEN Forming(@[s], given[s]) ELSE @[s]]]

(* usePricesBootstrap *)
SeedPrices(c) ==
    /\ quotes[c] # <<>>
    /\ store' = [store EXCEPT ![c] = Quoted(@, quotes[c])]
    /\ quotes' = [quotes EXCEPT ![c] = <<>>]
    /\ UNCHANGED <<connectionVars, pollVars, socket, answers, since>>

-----------------------------------------------------------------------------
ServerPoll(s) == PollSymbol(s) /\ UNCHANGED dashboardVars
ServerRun == Run /\ UNCHANGED dashboardVars
ServerSend(t) == (\E k \in Sockets : Send(t, k)) /\ UNCHANGED <<pollVars, dashboardVars>>
ServerGreet(k) == Greet(k, StatusMessage(status)) /\ UNCHANGED <<pollVars, dashboardVars>>
ServerLeave(k) == (GreetFails(k) \/ Leave(k)) /\ UNCHANGED <<pollVars, dashboardVars>>

(* A dashboard notices an error, or only that the socket closed. *)
ServerRestart ==
    /\ Restart
    /\ \E noticed \in SUBSET Clients :
        store' = [c \in Clients |->
            IF c \in noticed /\ Linked(c) THEN [store[c] EXCEPT !.status = "disconnected"] ELSE store[c]]
    /\ UNCHANGED <<socket, answers, quotes, since>>

Next ==
    \/ \E s \in Symbols : ServerPoll(s)
    \/ ServerRun
    \/ \E t \in Tasks : ServerSend(t)
    \/ \E k \in Sockets : ServerGreet(k) \/ ServerLeave(k)
    \/ ServerRestart
    \/ \E c \in Clients :
        \/ Join(c) \/ Cut(c) \/ Receive(c)
        \/ Hydrate(c) \/ AnswerPrices(c) \/ SeedPrices(c)
        \/ \E s \in Symbols : AnswerOpen(c, s) \/ AnswerBuilt(c, s) \/ AnswerNone(c, s)

(* The server's tasks go on; a send ends when the peer reads or uvicorn's     *)
(* keepalive closes the connection; a browser dispatches what it received.    *)
Fairness ==
    /\ \A s \in Symbols : WF_vars(ServerPoll(s))
    /\ WF_vars(ServerRun)
    /\ \A t \in Tasks : WF_vars(ServerSend(t))
    /\ \A k \in Sockets : WF_vars(ServerGreet(k))
    /\ \A c \in Clients : WF_vars(Receive(c))

Spec == Init /\ [][Next]_vars

FairSpec == Spec /\ Fairness

-----------------------------------------------------------------------------
(* The variables have their types, and the backoff stays within its limit    *)
(* (tradingview_feed_service.py:207).                                        *)
TypeOK ==
    /\ link \in [Sockets -> {"unused", "up", "cut"}]
    /\ endpoint \in [Sockets -> {"none", "greet", "drain", "gone"}]
    /\ registered \subseteq Sockets
    /\ \A t \in Tasks : sending[t].to \union sending[t].dead \subseteq Sockets
    /\ \A s \in Symbols :
        /\ polls[s].tf \in 1..Timeframes
        /\ polls[s].at \in {"fetch", "store", "tracked", "served", "done", "failed"}
        /\ latest[s] <= clock
    /\ loop \in {"gather", "sleep", "backoff"}
    /\ backingOff \in BOOLEAN /\ delay \in 1..MaxDelay
    /\ status \in {"live", "disconnected"}
    /\ \A i \in DOMAIN signals : signals[i].status \in {"open", "resolved"}
    /\ socket \in [Clients -> 0..MaxSockets]
    /\ \A c \in Clients : store[c].status \in {"unknown", "live", "disconnected"}

(* Between two cycles no symbol's poll is still at work, with its broadcasts  *)
(* and handlers, and the status says whether the cycle was whole: one failed  *)
(* symbol is enough to report the source disconnected, and a cycle in which   *)
(* none failed reports it live (tradingview_feed_service.py:179-205).         *)
CycleWhole ==
    loop # "gather" =>
        /\ \A s \in Symbols : Idle(s) /\ polls[s].at \in {"done", "failed"} /\ polls[s].news = <<>>
        /\ status = IF Failed = {} THEN "live" ELSE "disconnected"

(* A connected dashboard that has dispatched all it was sent shows the feed's *)
(* status, whenever it connected and whatever happened to the others'         *)
(* sockets: registering before the greeting (websocket.py:20-39) and sending  *)
(* to a copy of the registry past the sockets that refuse                     *)
(* (connection_manager.py:31-39) leave no gap.                                *)
StatusInStep ==
    \A c \in Clients :
        /\ Linked(c) /\ endpoint[Current(c)] = "drain" /\ inbox[c] = <<>>
        /\ Current(c) \notin sending["_run"].to
        => store[c].status = status

OpenShown(c) == {i \in DOMAIN store[c].signals : store[c].signals[i] = "open"}

(* Nothing is on its way to this dashboard. *)
Quiet(c) ==
    /\ inbox[c] = <<>> /\ store[c].seeded
    /\ \A t \in Tasks : Current(c) \notin sending[t].to
    /\ \A s \in Symbols : polls[s].news = <<>>

(* A dashboard whose first socket was registered before its bootstrap         *)
(* requests were answered, and is still connected, shows the open signals of  *)
(* the table, no matter in which order the answers and the messages arrived:  *)
(* no resolved one as open (marketStore.ts:77), and all of them but those     *)
(* that another dashboard's GET created, which are never broadcast            *)
(* (signals.py:78).                                                           *)
ShowsOpenSignals ==
    \A c \in Clients :
        Linked(c) /\ socket[c] = 1 /\ since[c] = 1 /\ Quiet(c) =>
            LET open == UNION {OpenIds(s) : s \in Symbols} IN
            /\ OpenShown(c) \subseteq open
            /\ \A i \in open \ OpenShown(c) : signals[i].by \in Clients \ {c}

(* A signal a dashboard has seen resolved is never open to it again. *)
ResolvedStays ==
    [][\A c \in Clients : \A i \in DOMAIN store[c].signals :
          store[c].signals[i] = "resolved" => store'[c].signals[i] = "resolved"]_vars

(* The chart's forming candle never goes back in time, although the answer of *)
(* GET /prices may reach the store after newer ticks and overwrite the price  *)
(* shown (usePricesBootstrap.ts:41, useFormingCandle.ts:32).                  *)
FormingNeverBehind ==
    [][\A c \in Clients, s \in Symbols :
          store'[c].forming[s] >= store[c].forming[s] /\ store'[c].forming[s] >= store'[c].prices[s]]_vars

(* Once requests stop failing, the feed reports itself live for good, and so  *)
(* does every dashboard that is connected (tradingview_feed_service.py:194).  *)
Recovers == <>[](status = "live" /\ \A c \in Clients : Linked(c) => store[c].status = "live")
=============================================================================
