------------------------------ MODULE SignalProofs ------------------------------
(* Theorems about the signals that the dashboards show, against the table, for *)
(* any number of symbols, dashboards and sockets and any budget of events.     *)
EXTENDS DashboardProofs

-----------------------------------------------------------------------------
(* What is told of a signal.                                                  *)

Over(i) == i \in DOMAIN signals /\ signals[i].status = "resolved"

(* A signal that is created is a new row of the table, and one that is        *)
(* resolved was open: the rows of other symbols and the resolved ones stay.   *)
LEMMA TableGrows ==
    ASSUME Typed, UNCHANGED signals \/ \E row \in SignalRows : signals' = Append(signals, row)
    PROVE  /\ \A i \in DOMAIN signals : i \in DOMAIN signals' /\ signals'[i] = signals[i]
           /\ \A i : Over(i) => Over(i)'
           /\ \A s \in Symbols : OpenIds(s) \subseteq OpenIds(s)'
<1>1. signals \in Seq(SignalRows) /\ DOMAIN signals = 1..Len(signals) /\ Len(signals) \in Nat
  BY LenProperties DEF Typed, PollsOK
<1>2. \A i \in DOMAIN signals : i \in DOMAIN signals' /\ signals'[i] = signals[i]
  <2>1. CASE UNCHANGED signals
    BY <2>1
  <2>2. ASSUME NEW row \in SignalRows, signals' = Append(signals, row)
        PROVE  \A i \in DOMAIN signals : i \in DOMAIN signals' /\ signals'[i] = signals[i]
    <3>1. signals' \in Seq(SignalRows) /\ Len(signals') = Len(signals) + 1
      <4>1. Append(signals, row) \in Seq(SignalRows) /\ Len(Append(signals, row)) = Len(signals) + 1
        BY <1>1, AppendProperties
      <4> QED
        BY <2>2, <4>1
    <3>2. \A i \in 1..Len(signals) : signals'[i] = signals[i]
      <4>1. \A i \in 1..Len(signals) : Append(signals, row)[i] = signals[i]
        BY <1>1, AppendProperties
      <4> QED
        BY <2>2, <4>1
    <3>3. DOMAIN signals' = 1..Len(signals')
      BY <3>1, LenProperties
    <3> QED
      BY <1>1, <3>1, <3>2, <3>3
  <2> QED
    BY <2>1, <2>2
<1> QED
  BY <1>2 DEF Over, OpenIds

(* update_outcome of an open signal: that one is over, no other row           *)
(* changes.                                                                   *)
LEMMA TableResolves ==
    ASSUME Typed, NEW s \in Symbols, NEW i \in OpenIds(s),
           signals' = [signals EXCEPT ![i].status = "resolved"]
    PROVE  /\ i \in DOMAIN signals /\ Over(i)' /\ ~Over(i) /\ DOMAIN signals' = DOMAIN signals
           /\ \A j \in DOMAIN signals : /\ signals'[j].symbol = signals[j].symbol
                                        /\ signals'[j].by = signals[j].by
                                        /\ j # i => signals'[j] = signals[j]
           /\ \A j : Over(j) => Over(j)'
           /\ \A u \in Symbols \ {s} : OpenIds(u)' = OpenIds(u)
           /\ OpenIds(s)' = OpenIds(s) \ {i}
<1>1. /\ signals \in Seq(SignalRows) /\ DOMAIN signals = 1..Len(signals) /\ i \in DOMAIN signals
      /\ signals[i].status = "open" /\ signals[i].symbol = s /\ signals[i] \in SignalRows
  BY LenProperties, ElementOfSeq DEF Typed, PollsOK, OpenIds
<1>2. signals' = [signals EXCEPT ![i] = [signals[i] EXCEPT !.status = "resolved"]]
  OBVIOUS
<1>3. /\ [signals[i] EXCEPT !.status = "resolved"].status = "resolved"
      /\ [signals[i] EXCEPT !.status = "resolved"].symbol = signals[i].symbol
      /\ [signals[i] EXCEPT !.status = "resolved"].by = signals[i].by
  BY <1>1 DEF SignalRows
<1>4. /\ DOMAIN signals' = DOMAIN signals
      /\ signals'[i] = [signals[i] EXCEPT !.status = "resolved"]
      /\ \A j \in DOMAIN signals : j # i => signals'[j] = signals[j]
  BY <1>1, <1>2
<1>5. /\ signals'[i].status = "resolved" /\ signals'[i].symbol = s /\ signals'[i].by = signals[i].by
  BY <1>1, <1>3, <1>4
<1>6. \A j : Over(j) => Over(j)'
  BY <1>1, <1>4, <1>5 DEF Over
<1>7. Over(i)' /\ ~Over(i)
  BY <1>1, <1>4, <1>5 DEF Over
<1>8. \A u \in Symbols \ {s} : OpenIds(u)' = OpenIds(u)
  <2> TAKE u \in Symbols \ {s}
  <2>1. \A j : j \in OpenIds(u)' <=> j \in OpenIds(u)
    BY <1>1, <1>4, <1>5 DEF OpenIds
  <2> QED
    BY <2>1
<1>9. OpenIds(s)' = OpenIds(s) \ {i}
  <2>1. \A j : j \in OpenIds(s)' <=> j \in OpenIds(s) \ {i}
    BY <1>1, <1>4, <1>5 DEF OpenIds
  <2> QED
    BY <2>1
<1> QED
  BY <1>1, <1>4, <1>5, <1>6, <1>7, <1>8, <1>9

(* What a symbol's poll makes of the table and of its own news.               *)
PollQuiet(s) ==
    /\ UNCHANGED signals /\ polls'[s].news = polls[s].news
    /\ UNCHANGED sending \/ \E m \in PriceMessages : Broadcast(s, m)

PollResolves(s, i) ==
    /\ signals' = [signals EXCEPT ![i].status = "resolved"] /\ UNCHANGED sending
    /\ polls[s].news = <<>> /\ polls'[s].news = SignalMessage(i, "resolved")

PollOpens(s) ==
    /\ signals' = Append(signals, [symbol |-> s, status |-> "open", by |-> "feed"])
    /\ UNCHANGED sending /\ OpenIds(s) = {}
    /\ polls[s].news = <<>> /\ polls'[s].news = SignalMessage(Len(signals) + 1, "open")

PollTells(s) ==
    /\ UNCHANGED signals /\ Broadcast(s, polls[s].news)
    /\ polls[s].news \in SignalMessages /\ polls'[s].news = <<>>

(* What a step of a symbol's poll does to the news it has to broadcast.       *)
LEMMA PollNews ==
    ASSUME Typed, NewsOK, NEW s \in Symbols, PollSymbol(s)
    PROVE  /\ \A u \in Symbols \ {s} : polls'[u] = polls[u]
           /\ Idle(s)
           /\ \/ PollQuiet(s) \/ (\E i \in OpenIds(s) : PollResolves(s, i))
              \/ PollOpens(s) \/ PollTells(s)
<1>1. /\ polls \in [Symbols -> Polls] /\ Idle(s) /\ Begun.news = <<>>
  BY PollSays DEF Typed, PollsOK, Begun
<1>2. CASE Frame(s) \/ AnswerBars(s)
  <2>1. /\ \A u \in Symbols \ {s} : polls'[u] = polls[u]
        /\ polls'[s].news = polls[s].news
    BY <1>1, <1>2 DEF Frame, AnswerBars, Goto, Polls
  <2>2. UNCHANGED signals /\ ~Tell(s)
    BY <1>1, <1>2, <2>1 DEF Frame, AnswerBars, Tell, At, NewsOK
  <2> QED
    BY <1>1, <1>2, <2>1, <2>2, PollSays DEF PollQuiet
<1>3. CASE FetchFails(s) \/ AnswerEmpty(s) \/ NothingClosed(s) \/ OpenNone(s)
  <2>1. polls[s].news = <<>> /\ UNCHANGED <<sending, signals>>
    BY <1>3 DEF FetchFails, AnswerEmpty, NothingClosed, OpenNone, At, NewsOK, connectionVars
  <2>2. /\ \A u \in Symbols \ {s} : polls'[u] = polls[u]
        /\ polls'[s].news = <<>>
    BY <1>1, <1>3 DEF FetchFails, AnswerEmpty, NothingClosed, OpenNone, Advance, Begun
  <2> QED
    BY <1>1, <2>1, <2>2 DEF PollQuiet
<1>4. CASE Resolve(s)
  <2>1. PICK i \in OpenIds(s) :
          /\ signals' = [signals EXCEPT ![i].status = "resolved"] /\ UNCHANGED sending
          /\ polls' = [polls EXCEPT ![s].at = "tracked", ![s].news = SignalMessage(i, "resolved")]
    BY <1>4 DEF Resolve, connectionVars
  <2>2. polls[s].news = <<>>
    BY <1>4 DEF Resolve, At, NewsOK
  <2>3. polls' = [polls EXCEPT ![s] = [polls[s] EXCEPT !.at = "tracked",
                                                    !.news = SignalMessage(i, "resolved")]]
    BY <2>1
  <2>4. /\ \A u \in Symbols \ {s} : polls'[u] = polls[u]
        /\ polls'[s].news = SignalMessage(i, "resolved")
    BY <1>1, <2>3 DEF Polls
  <2> QED
    BY <1>1, <2>1, <2>2, <2>4 DEF PollResolves
<1>5. CASE ResolveNone(s)
  <2>1. /\ \A u \in Symbols \ {s} : polls'[u] = polls[u]
        /\ polls'[s].news = polls[s].news
    BY <1>1, <1>5 DEF ResolveNone, Goto, Polls
  <2> QED
    BY <1>1, <1>5, <2>1 DEF ResolveNone, connectionVars, PollQuiet
<1>6. CASE Open(s)
  <2>1. polls' = [polls EXCEPT ![s] = [polls[s] EXCEPT
                    !.at = "served", !.news = SignalMessage(Len(signals) + 1, "open")]]
    BY <1>6 DEF Open
  <2>2. /\ \A u \in Symbols \ {s} : polls'[u] = polls[u]
        /\ polls'[s].news = SignalMessage(Len(signals) + 1, "open")
    BY <1>1, <2>1 DEF Polls
  <2> QED
    BY <1>1, <1>6, <2>2 DEF Open, connectionVars, PollOpens
<1>7. CASE Tell(s)
  <2>1. /\ \A u \in Symbols \ {s} : polls'[u] = polls[u]
        /\ polls'[s].news = <<>> /\ polls[s].news \in SignalMessages
    BY <1>1, <1>7 DEF Tell, Polls
  <2> QED
    BY <1>1, <1>7, <2>1 DEF Tell, PollTells
<1> QED
  BY <1>2, <1>3, <1>4, <1>5, <1>6, <1>7 DEF PollSymbol

(* A step leaves the table, adds an open row to it, or resolves a signal that *)
(* the poll of its symbol goes on to tell.                                    *)
LEMMA TableSteps ==
    ASSUME Typed, NewsOK, [Next]_vars
    PROVE  \/ UNCHANGED signals
           \/ \E row \in SignalRows : /\ signals' = Append(signals, row) /\ row.status = "open"
                                      /\ OpenIds(row.symbol) = {}
           \/ \E s \in Symbols : \E i \in OpenIds(s) : PollSymbol(s) /\ PollResolves(s, i)
<1>1. ASSUME NEW s \in Symbols, PollSymbol(s)
      PROVE  \/ UNCHANGED signals
             \/ \E row \in SignalRows : /\ signals' = Append(signals, row) /\ row.status = "open"
                                        /\ OpenIds(row.symbol) = {}
             \/ \E u \in Symbols : \E i \in OpenIds(u) : PollSymbol(u) /\ PollResolves(u, i)
  <2>1. [symbol |-> s, status |-> "open", by |-> "feed"] \in SignalRows
    BY DEF SignalRows, Lives
  <2> QED
    BY <1>1, <2>1, PollNews DEF PollQuiet, PollOpens, PollTells
<1>2. ASSUME NEW c \in Clients, NEW s \in Symbols, AnswerBuilt(c, s)
      PROVE  \E row \in SignalRows : /\ signals' = Append(signals, row) /\ row.status = "open"
                                     /\ OpenIds(row.symbol) = {}
  <2>1. [symbol |-> s, status |-> "open", by |-> c] \in SignalRows
    BY DEF SignalRows, Lives
  <2> QED
    BY <1>2, <2>1 DEF AnswerBuilt
<1>3. ASSUME NEW c \in Clients,
             \/ Join(c) \/ Cut(c) \/ Receive(c) \/ Hydrate(c) \/ AnswerPrices(c) \/ SeedPrices(c)
             \/ \E s \in Symbols : AnswerOpen(c, s) \/ AnswerNone(c, s)
      PROVE  UNCHANGED signals
  BY <1>3 DEF Join, Cut, Receive, Hydrate, AnswerPrices, SeedPrices, AnswerOpen, AnswerNone, pollVars
<1>4. ASSUME \/ Run \/ ServerRestart \/ UNCHANGED pollVars PROVE UNCHANGED signals
  BY <1>4 DEF Run, CycleFails, CycleSucceeds, Wake, ServerRestart, Restart, pollVars
<1>5. CASE UNCHANGED vars
  BY <1>4, <1>5 DEF vars
<1> QED
  BY <1>1, <1>2, <1>3, <1>4, <1>5, Steps

(* A signal that is resolved in the table stays so.                           *)
LEMMA OverKept ==
    ASSUME Typed, NewsOK, [Next]_vars, NEW i, Over(i)
    PROVE  Over(i)'
BY TableSteps, TableGrows, TableResolves DEF PollResolves

(* A message about a signal that the task of s is still to tell, or telling,  *)
(* is true: s lets nothing happen to the signal until it has told.            *)
TrueNow(s, m) ==
    \A i \in Nat : /\ m = SignalMessage(i, "open") => i \in OpenIds(s)
                   /\ m = SignalMessage(i, "resolved") => Over(i)

NewsTrue == \A s \in Symbols : TrueNow(s, polls[s].news)
SendingTrue == \A s \in Symbols : ~Idle(s) => TrueNow(s, sending[s].msg)

(* A signal a dashboard has heard of, or shows, as resolved is.               *)
HeardOver ==
    \A c \in Clients : \A i \in Nat : \A p \in 1..Len(inbox[c]) :
        inbox[c][p] = SignalMessage(i, "resolved") => Over(i)
ShownOver ==
    \A c \in Clients : \A i \in DOMAIN store[c].signals :
        store[c].signals[i] = "resolved" => Over(i)

(* Nothing about a signal is heard after it was resolved.                     *)
HeardInOrder ==
    \A c \in Clients : \A i \in Nat : \A p \in 1..Len(inbox[c]) :
        inbox[c][p] = SignalMessage(i, "open") =>
            /\ \A r \in 1..Len(inbox[c]) : r < p => inbox[c][r] # SignalMessage(i, "resolved")
            /\ i \in DOMAIN store[c].signals => store[c].signals[i] # "resolved"

SignalInv == CycleInv /\ NewsTrue /\ SendingTrue /\ HeardOver /\ ShownOver /\ HeardInOrder

(* Messages of the other kinds say nothing of a signal, and a signal          *)
(* message names one.                                                         *)
LEMMA NoSignal ==
    /\ \A s \in Symbols, m \in PriceMessages \union StatusMessages \union {<<>>} : TrueNow(s, m)
    /\ \A i, x, j, y : SignalMessage(i, x) = SignalMessage(j, y) => i = j /\ x = y
    /\ \A i, x : SignalMessage(i, x) \notin PriceMessages \union StatusMessages \union {<<>>}
<1>1. \A i, x : SignalMessage(i, x) \notin PriceMessages \union StatusMessages
  BY Kinds DEF PriceMessages, StatusMessages
<1>2. \A i, x : SignalMessage(i, x) # <<>>
  BY DEF SignalMessage
<1>3. \A i, x, j, y : SignalMessage(i, x) = SignalMessage(j, y) => i = j /\ x = y
  BY DEF SignalMessage
<1> QED
  BY <1>1, <1>2, <1>3 DEF TrueNow

(* News waiting in a poll or in a broadcast agree with the table.             *)
LEMMA NewsStep ==
    ASSUME CycleInv, NewsTrue, SendingTrue, [Next]_vars
    PROVE  NewsTrue' /\ SendingTrue'
<1> USE DEF CycleInv
<1>0. /\ Typed /\ NewsOK /\ \A s \in Symbols : s \in Tasks /\ s # "_run"
      /\ sending \in [Tasks -> Sendings]
  BY PollAssumption DEF Typed, ConnectionsOK
<1>1. ASSUME NEW s \in Symbols, OpenIds(s) \subseteq OpenIds(s)', \A i : Over(i) => Over(i)',
             polls'[s].news \in {polls[s].news, <<>>},
             sending'[s].to # {} => ~Idle(s) /\ sending'[s].msg = sending[s].msg
      PROVE  TrueNow(s, polls[s].news)' /\ (~Idle(s) => TrueNow(s, sending[s].msg))'
  <2>1. TrueNow(s, polls'[s].news)
    BY <1>1, NoSignal DEF NewsTrue
  <2>2. sending'[s].to # {} => TrueNow(s, sending'[s].msg)
    BY <1>1 DEF SendingTrue
  <2> QED
    BY <1>1, <2>1, <2>2 DEF TrueNow, Idle
<1>2. ASSUME NEW s \in Symbols, PollSymbol(s), UNCHANGED dashboardVars PROVE NewsTrue' /\ SendingTrue'
  <2>1. /\ \A u \in Symbols \ {s} : polls'[u] = polls[u]
        /\ Idle(s)
        /\ \/ PollQuiet(s) \/ (\E i \in OpenIds(s) : PollResolves(s, i))
           \/ PollOpens(s) \/ PollTells(s)
    BY <1>0, <1>2, PollNews
  <2>2. \A u \in Symbols \ {s} : sending'[u] = sending[u]
    BY <1>0, <2>1 DEF PollQuiet, PollResolves, PollOpens, PollTells, Broadcast
  <2>3. \A i : Over(i) => Over(i)'
    BY <1>0, <1>2, OverKept DEF Next, ServerPoll
  <2>4. ASSUME NEW u \in Symbols \ {s} PROVE OpenIds(u) \subseteq OpenIds(u)'
    <3>1. CASE \E i \in OpenIds(s) : PollResolves(s, i)
      BY <1>0, <3>1, TableResolves, ZenonT(40) DEF PollResolves
    <3>2. CASE PollOpens(s)
      <4>1. [symbol |-> s, status |-> "open", by |-> "feed"] \in SignalRows
        BY DEF SignalRows, Lives
      <4> QED
        BY <1>0, <3>2, <4>1, TableGrows DEF PollOpens
    <3>3. CASE PollQuiet(s) \/ PollTells(s)
      BY <1>0, <3>3, TableGrows DEF PollQuiet, PollTells
    <3> QED
      BY <2>1, <3>1, <3>2, <3>3
  <2>5. ASSUME NEW u \in Symbols \ {s}
        PROVE  TrueNow(u, polls[u].news)' /\ (~Idle(u) => TrueNow(u, sending[u].msg))'
    BY <1>1, <2>1, <2>2, <2>3, <2>4 DEF Idle
  <2>6. TrueNow(s, polls[s].news)' /\ (~Idle(s) => TrueNow(s, sending[s].msg))'
    <3>1. CASE PollQuiet(s)
      <4>1. OpenIds(s) \subseteq OpenIds(s)'
        BY <1>0, <3>1, TableGrows DEF PollQuiet
      <4>2. CASE UNCHANGED sending
        BY <1>1, <2>1, <2>3, <3>1, <4>1, <4>2 DEF PollQuiet, Idle
      <4>3. ASSUME NEW m \in PriceMessages, Broadcast(s, m)
            PROVE  TrueNow(s, polls[s].news)' /\ (~Idle(s) => TrueNow(s, sending[s].msg))'
        <5>1. /\ sending'[s].to = registered
              /\ registered # {} => sending'[s].msg = m
          BY <1>0, <4>3, BroadcastEffect DEF Typed, Messages
        <5>2. (~Idle(s) => TrueNow(s, sending[s].msg))'
          BY <4>3, <5>1, NoSignal DEF TrueNow, Idle
        <5>3. TrueNow(s, polls[s].news)
          BY DEF NewsTrue
        <5> QED
          BY <2>3, <3>1, <4>1, <5>2, <5>3 DEF PollQuiet, TrueNow
      <4> QED
        BY <3>1, <4>2, <4>3 DEF PollQuiet
    <3>2. ASSUME NEW i \in OpenIds(s), PollResolves(s, i)
          PROVE  TrueNow(s, polls[s].news)' /\ (~Idle(s) => TrueNow(s, sending[s].msg))'
      <4>1. Over(i)'
        BY <1>0, <3>2, TableResolves DEF PollResolves
      <4>2. TrueNow(s, polls[s].news)'
        BY <3>2, <4>1, NoSignal DEF PollResolves, TrueNow
      <4>3. Idle(s)'
        BY <2>1, <3>2 DEF PollResolves, Idle
      <4> QED
        BY <4>2, <4>3
    <3>3. CASE PollOpens(s)
      <4>1. Len(signals) + 1 \in OpenIds(s)'
        <5>1. [symbol |-> s, status |-> "open", by |-> "feed"] \in SignalRows
          BY DEF SignalRows, Lives
        <5>2. signals \in Seq(SignalRows)
          BY <1>0 DEF Typed, PollsOK
        <5>3. /\ signals' \in Seq(SignalRows) /\ Len(signals') = Len(signals) + 1
              /\ signals'[Len(signals) + 1] = [symbol |-> s, status |-> "open", by |-> "feed"]
              /\ Len(signals) \in Nat
          BY <3>3, <5>1, <5>2, AppendProperties, LenProperties DEF PollOpens
        <5>4. Len(signals) + 1 \in DOMAIN signals'
          BY <5>3, LenProperties
        <5> QED
          BY <5>3, <5>4 DEF OpenIds
      <4>2. TrueNow(s, polls[s].news)'
        BY <3>3, <4>1, NoSignal DEF PollOpens, TrueNow
      <4>3. Idle(s)'
        BY <2>1, <3>3 DEF PollOpens, Idle
      <4> QED
        BY <4>2, <4>3
    <3>4. CASE PollTells(s)
      <4>1. /\ sending'[s].to = registered
            /\ registered # {} => sending'[s].msg = polls[s].news
        BY <1>0, <3>4, BroadcastEffect DEF Typed, Messages, PollTells
      <4>2. OpenIds(s) \subseteq OpenIds(s)'
        BY <1>0, <3>4, TableGrows DEF PollTells
      <4>3. TrueNow(s, polls[s].news)
        BY DEF NewsTrue
      <4>4. (~Idle(s) => TrueNow(s, sending[s].msg))'
        BY <2>3, <4>1, <4>2, <4>3 DEF TrueNow, Idle
      <4>5. TrueNow(s, polls[s].news)'
        BY <3>4, NoSignal DEF PollTells, TrueNow
      <4> QED
        BY <4>4, <4>5
    <3> QED
      BY <2>1, <3>1, <3>2, <3>3, <3>4
  <2> QED
    BY <2>5, <2>6 DEF NewsTrue, SendingTrue
<1>3. ASSUME \A s \in Symbols : OpenIds(s) \subseteq OpenIds(s)', \A i : Over(i) => Over(i)',
             \A s \in Symbols : polls'[s].news \in {polls[s].news, <<>>},
             \A s \in Symbols : sending'[s].to # {} => ~Idle(s) /\ sending'[s].msg = sending[s].msg
      PROVE  NewsTrue' /\ SendingTrue'
  BY <1>1, <1>3 DEF NewsTrue, SendingTrue
<1>4. ASSUME UNCHANGED signals
      PROVE  (\A s \in Symbols : OpenIds(s) \subseteq OpenIds(s)') /\ \A i : Over(i) => Over(i)'
  BY <1>4 DEF OpenIds, Over
<1>5. ASSUME UNCHANGED <<polls, sending>>
      PROVE  /\ \A s \in Symbols : polls'[s].news \in {polls[s].news, <<>>}
             /\ \A s \in Symbols : sending'[s].to # {} => ~Idle(s) /\ sending'[s].msg = sending[s].msg
  BY <1>5 DEF Idle
<1>6. CASE Run /\ UNCHANGED dashboardVars
  <2>1. \A s \in Symbols : sending'[s] = sending[s]
    BY <1>0, <1>6, RunTells DEF Broadcast
  <2>2. \A s \in Symbols : polls'[s].news \in {polls[s].news, <<>>}
    BY <1>6 DEF Run, CycleFails, CycleSucceeds, Wake, Begun
  <2>3. UNCHANGED signals
    BY <1>0, <1>6, RunTells
  <2> QED
    BY <1>3, <1>4, <2>1, <2>2, <2>3 DEF Idle
<1>7. ASSUME NEW t \in Tasks, NEW k \in Sockets, Send(t, k), UNCHANGED <<pollVars, dashboardVars>>
      PROVE  NewsTrue' /\ SendingTrue'
  <2>1. \A s \in Symbols : sending'[s].to # {} => ~Idle(s) /\ sending'[s].msg = sending[s].msg
    BY <1>0, <1>7, SendEffect DEF Typed, Idle
  <2>2. UNCHANGED <<signals, polls>>
    BY <1>7 DEF pollVars
  <2> QED
    BY <1>3, <1>4, <2>1, <2>2
<1>8. ASSUME ServerRestart PROVE NewsTrue' /\ SendingTrue'
  <2>1. /\ \A s \in Symbols : polls'[s].news = <<>> /\ sending'[s].to = {}
        /\ UNCHANGED signals
    BY <1>0, <1>8 DEF ServerRestart, Restart, CutAll, Silent, Begun
  <2> QED
    BY <1>3, <1>4, <2>1
<1>9. CASE UNCHANGED <<polls, sending, signals>>
  BY <1>3, <1>4, <1>5, <1>9
<1>10. ASSUME NEW k \in Sockets, Greet(k, StatusMessage(status)) \/ GreetFails(k) \/ Leave(k),
              UNCHANGED <<pollVars, dashboardVars>>
       PROVE  UNCHANGED <<polls, sending, signals>>
  BY <1>10 DEF Greet, GreetFails, Leave, pollVars
<1>11. ASSUME NEW c \in Clients,
              \/ Join(c) \/ Cut(c) \/ Receive(c) \/ Hydrate(c) \/ AnswerPrices(c) \/ SeedPrices(c)
              \/ \E s \in Symbols : AnswerOpen(c, s) \/ AnswerNone(c, s)
       PROVE  UNCHANGED <<polls, sending, signals>>
  BY <1>11 DEF Join, Accept, Cut, CutLink, Receive, Hydrate, AnswerPrices, SeedPrices, AnswerOpen,
               AnswerNone, connectionVars, pollVars
<1>12. ASSUME NEW c \in Clients, NEW s \in Symbols, AnswerBuilt(c, s)
       PROVE  NewsTrue' /\ SendingTrue'
  <2>1. [symbol |-> s, status |-> "open", by |-> c] \in SignalRows
    BY DEF SignalRows, Lives
  <2>2. (\A u \in Symbols : OpenIds(u) \subseteq OpenIds(u)') /\ \A i : Over(i) => Over(i)'
    BY <1>0, <1>12, <2>1, TableGrows DEF AnswerBuilt
  <2>3. UNCHANGED <<polls, sending>>
    BY <1>12 DEF AnswerBuilt, connectionVars
  <2> QED
    BY <1>3, <1>5, <2>2, <2>3
<1>13. CASE UNCHANGED vars
  BY <1>9, <1>13 DEF vars, connectionVars, pollVars
<1> QED
  BY <1>2, <1>6, <1>7, <1>8, <1>9, <1>10, <1>11, <1>12, <1>13, Steps

(* What reaches a dashboard in a step: nothing, or, while it is connected, a  *)
(* status or what a task is telling.  What it has received is lost with its   *)
(* connection.                                                                *)
InboxQuiet(c) ==
    /\ inbox'[c] \in {inbox[c], <<>>} /\ store'[c].signals = store[c].signals

InboxGrows(c) ==
    /\ store'[c].signals = store[c].signals /\ UNCHANGED signals /\ Linked(c)
    /\ \E m \in Messages :
        /\ inbox'[c] = Append(inbox[c], m)
        /\ \/ m \in StatusMessages \union PriceMessages
           \/ \E s \in Symbols : ~Idle(s) /\ m = sending[s].msg

(* A step leaves an inbox alone, appends one message, dispatches its first    *)
(* one, or belongs to the bootstrap.                                          *)
LEMMA InboxSteps ==
    ASSUME CycleInv, LinksOK, RunSays, [Next]_vars, NEW c \in Clients
    PROVE  InboxQuiet(c) \/ InboxGrows(c) \/ Receive(c) \/ (Hydrate(c) /\ inbox'[c] = inbox[c])
<1>0. Typed /\ LoopOK
  BY DEF CycleInv
<1>1. ASSUME inbox' = inbox PROVE InboxQuiet(c) \/ Receive(c) \/ (Hydrate(c) /\ inbox'[c] = inbox[c])
  <2>1. CASE SeedPrices(c)
    <3>1. store[c] \in Stores /\ quotes[c] \in [Symbols -> Nat] /\ store'[c] = Quoted(store[c], quotes[c])
      BY <1>0, <2>1, SeedEffect DEF Typed, DashboardsOK
    <3>2. store'[c].signals = store[c].signals
      BY <3>1, QuotedEffect
    <3> QED
      BY <1>1, <3>2 DEF InboxQuiet
  <2> QED
    BY <1>0, <1>1, <2>1, StoreSteps DEF InboxQuiet
<1>2. ASSUME NEW s \in Symbols, PollSymbol(s) PROVE inbox' = inbox
  BY <1>0, <1>2, PollSays
<1>3. ASSUME Run PROVE inbox' = inbox
  BY <1>0, <1>3, RunTells
<1>4. ASSUME NEW k \in Sockets, NEW m \in Messages, Push(k, m), link[k] = "up",
             UNCHANGED <<store, signals>>,
             \/ m \in StatusMessages \union PriceMessages
             \/ \E s \in Symbols : ~Idle(s) /\ m = sending[s].msg
      PROVE  InboxQuiet(c) \/ InboxGrows(c)
  <2>1. /\ inbox'[k[1]] = Append(inbox[k[1]], m)
        /\ \A d \in Clients \ {k[1]} : inbox'[d] = inbox[d]
    BY <1>0, <1>4, PushEffect DEF Typed
  <2>2. k[1] = c => Linked(c)
    BY <1>4, SocketsAssumption DEF LinksOK, Linked, Current, Sockets
  <2> QED
    BY <1>4, <2>1, <2>2 DEF InboxQuiet, InboxGrows
<1>5. ASSUME NEW t \in Tasks, NEW k \in Sockets, Send(t, k), UNCHANGED <<pollVars, dashboardVars>>
      PROVE  InboxQuiet(c) \/ InboxGrows(c)
  <2>1. /\ k \in sending[t].to
        /\ IF link[k] = "up" THEN Push(k, sending[t].msg) ELSE UNCHANGED inbox
        /\ UNCHANGED <<store, signals>> /\ ~Idle(t) /\ sending[t].msg \in Messages
    BY <1>0, <1>5, SendEffect DEF Typed, ConnectionsOK, Idle, pollVars, dashboardVars
  <2>2. CASE link[k] # "up"
    BY <2>1, <2>2 DEF InboxQuiet
  <2>3. CASE link[k] = "up" /\ t = "_run"
    <3>1. sending[t].msg \in StatusMessages
      BY <1>0, <2>1, <2>3 DEF RunSays, StatusMessages, Typed, PollsOK
    <3> QED
      BY <1>4, <2>1, <2>3, <3>1
  <2>4. CASE link[k] = "up" /\ t \in Symbols
    BY <1>4, <2>1, <2>4
  <2> QED
    BY <2>2, <2>3, <2>4, TasksSplit
<1>6. ASSUME NEW k \in Sockets, Greet(k, StatusMessage(status)), UNCHANGED <<pollVars, dashboardVars>>
      PROVE  InboxQuiet(c) \/ InboxGrows(c)
  <2>1. /\ StatusMessage(status) \in StatusMessages /\ StatusMessage(status) \in Messages
        /\ Push(k, StatusMessage(status)) /\ link[k] = "up" /\ UNCHANGED <<store, signals>>
    BY <1>0, <1>6 DEF Greet, Typed, PollsOK, Messages, StatusMessages, pollVars, dashboardVars
  <2> QED
    BY <1>4, <2>1
<1>7. ASSUME ServerRestart PROVE InboxQuiet(c)
  <2>1. inbox'[c] = <<>> /\ store'[c].signals = store[c].signals
    BY <1>0, <1>7, RestartEffect DEF ServerRestart, Restart, CutAll
  <2> QED
    BY <2>1 DEF InboxQuiet
<1>8. ASSUME NEW d \in Clients, Cut(d) PROVE InboxQuiet(c) \/ Receive(c) \/ Hydrate(c)
  <2>1. inbox'[c] \in {inbox[c], <<>>}
    BY <1>0, <1>8 DEF Cut, CutLink, Current, Typed, ConnectionsOK
  <2>2. CASE SeedPrices(c)
    <3>1. store[c] \in Stores /\ quotes[c] \in [Symbols -> Nat] /\ store'[c] = Quoted(store[c], quotes[c])
      BY <1>0, <2>2, SeedEffect DEF Typed, DashboardsOK
    <3>2. store'[c].signals = store[c].signals
      BY <3>1, QuotedEffect
    <3> QED
      BY <2>1, <3>2 DEF InboxQuiet
  <2> QED
    BY <1>0, <1>8, <2>1, <2>2, StoreSteps DEF InboxQuiet
<1>9. ASSUME Hydrate(c) PROVE inbox'[c] = inbox[c]
  BY <1>9 DEF Hydrate, connectionVars
<1>10. ASSUME NEW k \in Sockets, GreetFails(k) \/ Leave(k) PROVE inbox' = inbox
  BY <1>10 DEF GreetFails, Leave
<1>11. ASSUME NEW d \in Clients,
              \/ Join(d) \/ Hydrate(d) \/ AnswerPrices(d) \/ SeedPrices(d)
              \/ \E s \in Symbols : AnswerOpen(d, s) \/ AnswerBuilt(d, s) \/ AnswerNone(d, s)
       PROVE  inbox' = inbox
  BY <1>11 DEF Join, Accept, Hydrate, AnswerPrices, SeedPrices, AnswerOpen, AnswerBuilt, AnswerNone,
               connectionVars
<1>12. ASSUME NEW d \in Clients, Receive(d), d # c PROVE InboxQuiet(c)
  BY <1>0, <1>12, ReceiveEffect DEF InboxQuiet, Typed, DashboardsOK
<1>13. CASE UNCHANGED vars
  BY <1>1, <1>13 DEF vars, connectionVars
<1> QED
  BY <1>1, <1>2, <1>3, <1>5, <1>6, <1>7, <1>8, <1>9, <1>10, <1>11, <1>12, <1>13, Steps

(* What a dashboard makes of its oldest message about a signal, and of the    *)
(* bootstrap's answers.                                                       *)
LEMMA SignalsReceived ==
    ASSUME Typed, NEW c \in Clients, Receive(c)
    PROVE  LET m == inbox[c][1] IN
           /\ Len(inbox[c]) \in Nat \ {0} /\ Len(inbox'[c]) = Len(inbox[c]) - 1
           /\ \A p \in 1..Len(inbox'[c]) : p + 1 \in 1..Len(inbox[c]) /\ inbox'[c][p] = inbox[c][p + 1]
           /\ \/ \E i \in Nat : \E x \in Lives :
                    /\ m = SignalMessage(i, x)
                    /\ i \in DOMAIN store'[c].signals /\ store'[c].signals[i] = x
                    /\ DOMAIN store'[c].signals = DOMAIN store[c].signals \union {i}
                    /\ \A j \in DOMAIN store[c].signals : j # i =>
                           store'[c].signals[j] = store[c].signals[j]
              \/ m \notin SignalMessages /\ store'[c].signals = store[c].signals
<1> DEFINE m == Head(inbox[c])
<1>1. /\ m \in Messages /\ m = inbox[c][1] /\ Len(inbox[c]) \in Nat \ {0}
      /\ Len(inbox'[c]) = Len(inbox[c]) - 1
      /\ \A i \in 1..Len(inbox'[c]) : inbox'[c][i] = inbox[c][i + 1]
      /\ store'[c] = Dispatched(store[c], m) /\ store[c] \in Stores
  BY ReceiveEffect DEF Typed, DashboardsOK
<1> HIDE DEF m
<1>2. store'[c].signals = IF m \in SignalMessages THEN Put(store[c].signals, m[2], m[3])
                                                   ELSE store[c].signals
  <2>1. m \in Messages /\ store[c] \in Stores
    BY <1>1
  <2>2. Dispatched(store[c], m).signals = IF m \in SignalMessages
                                          THEN Put(store[c].signals, m[2], m[3])
                                          ELSE store[c].signals
    BY <2>1, DispatchedEffect, Zenon
  <2> QED
    BY <1>1, <2>2
<1>3. CASE m \in SignalMessages
  <2>1. PICK i \in Nat, x \in Lives : m = SignalMessage(i, x)
    BY <1>3 DEF SignalMessages
  <2>2. store'[c].signals = Put(store[c].signals, i, x)
    BY <1>2, <1>3, <2>1, Kinds
  <2>3. /\ DOMAIN store'[c].signals = DOMAIN store[c].signals \union {i}
        /\ store'[c].signals[i] = x
        /\ \A j \in DOMAIN store[c].signals : j # i =>
                           store'[c].signals[j] = store[c].signals[j]
    BY <2>2 DEF Put
  <2> QED
    BY <1>1, <2>1, <2>3
<1>4. CASE m \notin SignalMessages
  BY <1>1, <1>2, <1>4
<1> QED
  BY <1>3, <1>4

(* hydrateSignals adds the open signals that were answered and keeps every    *)
(* row that is there.                                                         *)
LEMMA SignalsHydrated ==
    ASSUME Typed, NEW c \in Clients, Hydrate(c)
    PROVE  /\ \A i \in DOMAIN store[c].signals : /\ i \in DOMAIN store'[c].signals
                                                 /\ store'[c].signals[i] = store[c].signals[i]
           /\ \A i \in DOMAIN store'[c].signals \ DOMAIN store[c].signals :
                  /\ store'[c].signals[i] = "open" /\ i # 0
                  /\ \E s \in Symbols : answers[c][s] = i
           /\ \A s \in Symbols : answers[c][s] # 0 => answers[c][s] \in DOMAIN store'[c].signals
<1> DEFINE found == {answers[c][s] : s \in Symbols} \ {0}
<1>1. store'[c].signals = Hydrated(store[c].signals, found)
  BY HydrateEffect
<1>2. /\ DOMAIN store'[c].signals = DOMAIN store[c].signals \union found
      /\ \A i \in DOMAIN store'[c].signals :
            store'[c].signals[i] = IF i \in DOMAIN store[c].signals THEN store[c].signals[i] ELSE "open"
  BY <1>1 DEF Hydrated
<1> QED
  BY <1>2

(* What a dashboard has in its inbox and on its screen about a signal stays   *)
(* in the order of the signal's life.                                         *)
LEMMA HeardStep ==
    ASSUME SignalInv, LinksOK, RunSays, [Next]_vars
    PROVE  HeardOver' /\ ShownOver' /\ HeardInOrder'
<1> USE DEF SignalInv
<1>0. Typed /\ NewsOK /\ CycleInv /\ \A i : Over(i) => Over(i)'
  BY OverKept DEF CycleInv
<1>1. ASSUME NEW c \in Clients
      PROVE  /\ \A i \in Nat : \A p \in 1..Len(inbox'[c]) :
                    inbox'[c][p] = SignalMessage(i, "resolved") => Over(i)
             /\ \A i \in DOMAIN store'[c].signals : store'[c].signals[i] = "resolved" => Over(i)
             /\ \A i \in Nat : \A p \in 1..Len(inbox'[c]) :
                    inbox'[c][p] = SignalMessage(i, "open") =>
                        /\ \A r \in 1..Len(inbox'[c]) : r < p =>
                               inbox'[c][r] # SignalMessage(i, "resolved")
                        /\ i \in DOMAIN store'[c].signals => store'[c].signals[i] # "resolved"
  <2>1. CASE InboxQuiet(c)
    <3>1. CASE inbox'[c] = <<>>
      <4>1. 1..Len(inbox'[c]) = {}
        BY <3>1, EmptySeq
      <4> QED
        BY <2>1, <4>1 DEF InboxQuiet, ShownOver
    <3>2. CASE inbox'[c] = inbox[c]
      BY <2>1, <3>2 DEF InboxQuiet, HeardOver, ShownOver, HeardInOrder
    <3> QED
      BY <2>1, <3>1, <3>2 DEF InboxQuiet
  <2>2. ASSUME NEW m \in Messages, inbox'[c] = Append(inbox[c], m),
               store'[c].signals = store[c].signals,
               \/ m \in StatusMessages \union PriceMessages
               \/ \E s \in Symbols : ~Idle(s) /\ m = sending[s].msg
        PROVE  /\ \A i \in Nat : \A p \in 1..Len(inbox'[c]) :
                      inbox'[c][p] = SignalMessage(i, "resolved") => Over(i)
               /\ \A i \in Nat : \A p \in 1..Len(inbox'[c]) :
                      inbox'[c][p] = SignalMessage(i, "open") =>
                          /\ \A r \in 1..Len(inbox'[c]) : r < p =>
                                 inbox'[c][r] # SignalMessage(i, "resolved")
                          /\ i \in DOMAIN store'[c].signals => store'[c].signals[i] # "resolved"
    <3>1. /\ Len(inbox'[c]) = Len(inbox[c]) + 1 /\ Len(inbox[c]) \in Nat
          /\ \A p \in 1..Len(inbox[c]) : inbox'[c][p] = inbox[c][p]
          /\ inbox'[c][Len(inbox[c]) + 1] = m
      BY <1>0, <2>2, AppendProperties, LenProperties DEF Typed, ConnectionsOK
    <3>2. \A p \in 1..Len(inbox'[c]) : p \in 1..Len(inbox[c]) \/ p = Len(inbox[c]) + 1
      BY <3>1
    <3>3. (\E s \in Symbols : TrueNow(s, m)) \/ \A i, x : m # SignalMessage(i, x)
      BY <2>2, NoSignal DEF SendingTrue
    <3>4. \A i \in Nat : m = SignalMessage(i, "resolved") => Over(i)
      BY <3>3 DEF TrueNow
    <3>5. \A i \in Nat : m = SignalMessage(i, "open") => ~Over(i)
      BY <3>3 DEF TrueNow, OpenIds, Over
    <3>6. \A i \in Nat : \A p \in 1..Len(inbox'[c]) :
              inbox'[c][p] = SignalMessage(i, "resolved") => Over(i)
      BY <3>1, <3>2, <3>4 DEF HeardOver
    <3>7. ASSUME NEW i \in Nat, NEW p \in 1..Len(inbox'[c]), inbox'[c][p] = SignalMessage(i, "open")
          PROVE  /\ \A r \in 1..Len(inbox'[c]) : r < p => inbox'[c][r] # SignalMessage(i, "resolved")
                 /\ i \in DOMAIN store'[c].signals => store'[c].signals[i] # "resolved"
      <4>1. CASE p = Len(inbox[c]) + 1
        BY <2>2, <3>1, <3>5, <3>6, <3>7, <4>1 DEF ShownOver
      <4>2. CASE p \in 1..Len(inbox[c])
        <5>1. \A r \in 1..Len(inbox'[c]) : r < p => r \in 1..Len(inbox[c])
          BY <3>1, <4>2
        <5> QED
          BY <2>2, <3>1, <3>7, <4>2, <5>1 DEF HeardInOrder
      <4> QED
        BY <3>2, <4>1, <4>2
    <3> QED
      BY <3>6, <3>7
  <2>3. CASE InboxGrows(c)
    <3>1. \A i \in DOMAIN store'[c].signals : store'[c].signals[i] = "resolved" => Over(i)
      BY <2>3 DEF InboxGrows, ShownOver
    <3> QED
      BY <2>2, <2>3, <3>1 DEF InboxGrows
  <2>4. CASE Receive(c)
    <3>1. /\ Len(inbox[c]) \in Nat \ {0} /\ Len(inbox'[c]) = Len(inbox[c]) - 1
          /\ \A p \in 1..Len(inbox'[c]) : p + 1 \in 1..Len(inbox[c]) /\ inbox'[c][p] = inbox[c][p + 1]
          /\ 1 \in 1..Len(inbox[c])
      BY <1>0, <2>4, SignalsReceived
    <3>2. \A i \in Nat : \A p \in 1..Len(inbox'[c]) :
              inbox'[c][p] = SignalMessage(i, "resolved") => Over(i)
      BY <3>1 DEF HeardOver
    <3>3. \A i \in DOMAIN store'[c].signals : store'[c].signals[i] = "resolved" =>
              \/ i \in DOMAIN store[c].signals /\ store[c].signals[i] = "resolved"
              \/ i \in Nat /\ inbox[c][1] = SignalMessage(i, "resolved")
      BY <1>0, <2>4, SignalsReceived
    <3>4. \A i \in DOMAIN store'[c].signals : store'[c].signals[i] = "resolved" => Over(i)
      BY <3>1, <3>3 DEF HeardOver, ShownOver
    <3>5. ASSUME NEW i \in Nat, NEW p \in 1..Len(inbox'[c]), inbox'[c][p] = SignalMessage(i, "open")
          PROVE  /\ \A r \in 1..Len(inbox'[c]) : r < p => inbox'[c][r] # SignalMessage(i, "resolved")
                 /\ i \in DOMAIN store'[c].signals => store'[c].signals[i] # "resolved"
      <4>1. p + 1 \in 1..Len(inbox[c]) /\ inbox[c][p + 1] = SignalMessage(i, "open") /\ 1 < p + 1
        BY <3>1, <3>5
      <4>2. /\ \A r \in 1..Len(inbox[c]) : r < p + 1 => inbox[c][r] # SignalMessage(i, "resolved")
            /\ i \in DOMAIN store[c].signals => store[c].signals[i] # "resolved"
        BY <4>1 DEF HeardInOrder
      <4>3. ASSUME NEW r \in 1..Len(inbox'[c]), r < p PROVE inbox'[c][r] # SignalMessage(i, "resolved")
        <5>1. r + 1 \in 1..Len(inbox[c]) /\ r + 1 < p + 1 /\ inbox'[c][r] = inbox[c][r + 1]
          BY <3>1, <4>3
        <5> QED
          BY <4>2, <5>1
      <4>4. inbox[c][1] # SignalMessage(i, "resolved")
        BY <3>1, <4>1, <4>2
      <4> QED
        BY <3>3, <4>2, <4>3, <4>4
    <3> QED
      BY <3>2, <3>4, <3>5
  <2>5. CASE Hydrate(c) /\ inbox'[c] = inbox[c]
    <3>1. \A i \in DOMAIN store'[c].signals : store'[c].signals[i] = "resolved" =>
              i \in DOMAIN store[c].signals /\ store[c].signals[i] = "resolved"
      BY <1>0, <2>5, SignalsHydrated
    <3> QED
      BY <2>5, <3>1 DEF HeardOver, ShownOver, HeardInOrder
  <2> QED
    BY <1>0, <2>1, <2>3, <2>4, <2>5, InboxSteps
<1>2. HeardOver'
  BY <1>0, <1>1 DEF HeardOver
<1>3. ShownOver'
  BY <1>0, <1>1 DEF ShownOver
<1>4. HeardInOrder'
  BY <1>1 DEF HeardInOrder
<1> QED
  BY <1>2, <1>3, <1>4

(* There is neither a signal nor a message at the start.                      *)
LEMMA SignalInit == Init => SignalInv
<1> SUFFICES ASSUME Init PROVE SignalInv
  OBVIOUS
<1>1. /\ \A s \in Symbols : polls[s].news = <<>> /\ Idle(s)
      /\ \A c \in Clients : inbox[c] = <<>> /\ store[c].signals = <<>>
  BY TasksSplit DEF Init, PollInit, ConnectionsInit, Begun, Silent, Idle, EmptyStore
<1>2. \A c \in Clients : 1..Len(inbox[c]) = {} /\ DOMAIN store[c].signals = {}
  <2>1. Len(<<>>) = 0 /\ DOMAIN <<>> = {} /\ 1..0 = {}
    BY EmptySeq
  <2> QED
    BY <1>1, <2>1
<1> QED
  BY <1>1, <1>2, CycleInit, NoSignal
     DEF SignalInv, NewsTrue, SendingTrue, HeardOver, ShownOver, HeardInOrder

(* Every step keeps the signal invariant.                                     *)
LEMMA SignalStep == SignalInv /\ StatusInv /\ [Next]_vars => SignalInv'
BY CycleStep, NewsStep, HeardStep DEF SignalInv, StatusInv

(* A signal that a dashboard has shown resolved is never open to it again,    *)
(* whichever of the messages and the bootstrap's answers comes last.          *)
THEOREM ResolvedForGood == Spec => ResolvedStays
<1>1. SignalInv /\ StatusInv /\ [Next]_vars =>
        [\A c \in Clients : \A i \in DOMAIN store[c].signals :
            store[c].signals[i] = "resolved" => store'[c].signals[i] = "resolved"]_vars
  <2> SUFFICES ASSUME SignalInv, StatusInv, [Next]_vars, NEW c \in Clients,
                      NEW i \in DOMAIN store[c].signals, store[c].signals[i] = "resolved"
               PROVE  store'[c].signals[i] = "resolved"
    OBVIOUS
  <2>1. Typed /\ CycleInv /\ LinksOK /\ RunSays
    BY DEF StatusInv, CycleInv
  <2>2. CASE Receive(c)
    <3>1. i \in Nat
      BY <2>1, PartialIs DEF Typed, DashboardsOK, Stores
    <3>2. 1 \in 1..Len(inbox[c])
      BY <2>1, <2>2, SignalsReceived
    <3>3. inbox[c][1] # SignalMessage(i, "open")
      BY <3>1, <3>2 DEF SignalInv, HeardInOrder
    <3> QED
      BY <2>1, <2>2, <3>3, SignalsReceived DEF Lives
  <2>3. CASE Hydrate(c)
    BY <2>1, <2>3, SignalsHydrated
  <2> QED
    BY <2>1, <2>2, <2>3, InboxSteps DEF InboxQuiet, InboxGrows
<1> QED
  BY <1>1, StatusInit, StatusStep, SignalInit, SignalStep, PTL DEF Spec, ResolvedStays

-----------------------------------------------------------------------------
(* The open signals.                                                          *)

OneOpen == \A s \in Symbols : \A i, j \in OpenIds(s) : i = j

(* A dashboard hears and shows nothing before its first socket, and its       *)
(* bootstrap happens once.                                                    *)
Bootstrapped ==
    \A c \in Clients :
        /\ since[c] <= socket[c]
        /\ store[c].seeded => answers[c] = <<>>
        /\ socket[c] = 0 => inbox[c] = <<>> /\ (store[c].seeded \/ DOMAIN store[c].signals = {})

(* The first socket of c is connected, and was when its first request was     *)
(* answered, or is before that.                                               *)
Attentive(c) ==
    Linked(c) /\ socket[c] = 1 /\ (since[c] = 1 \/ (answers[c] = <<>> /\ ~store[c].seeded))

(* A message on its way to c. *)
ComesTo(c, m) ==
    \/ \E s \in Symbols : polls[s].news = m
    \/ \E s \in Symbols : Current(c) \in sending[s].to /\ sending[s].msg = m
    \/ \E p \in 1..Len(inbox[c]) : inbox[c][p] = m

(* c takes signal i for open, or is about to. *)
Believed(c, i) ==
    \/ i \in DOMAIN store[c].signals /\ store[c].signals[i] = "open"
    \/ i # 0 /\ i \notin DOMAIN store[c].signals /\ \E s \in DOMAIN answers[c] : answers[c][s] = i
    \/ \E p \in 1..Len(inbox[c]) : inbox[c][p] = SignalMessage(i, "open")

(* What c takes for open is, or the news that it is resolved comes to c.      *)
NoneStale ==
    \A c \in Clients : Attentive(c) => \A i \in Nat : Believed(c, i) =>
        i \in DOMAIN signals /\ (Over(i) => ComesTo(c, SignalMessage(i, "resolved")))

(* Of an open signal c was answered, shows it or will hear, unless another    *)
(* dashboard's request created it.                                            *)
NoneMissed ==
    \A c \in Clients : Attentive(c) => \A s \in Symbols : \A i \in OpenIds(s) :
        (s \in DOMAIN answers[c] \/ store[c].seeded) /\ signals[i].by \notin Clients \ {c} =>
            \/ s \in DOMAIN answers[c] /\ answers[c][s] = i
            \/ i \in DOMAIN store[c].signals
            \/ ComesTo(c, SignalMessage(i, "open"))

ShownInv == SignalInv /\ StatusInv /\ OneOpen /\ Bootstrapped /\ NoneStale /\ NoneMissed

(* The open signals of a symbol after a step.                                 *)
LEMMA TableAppends ==
    ASSUME Typed, NEW row \in SignalRows, row.status = "open", signals' = Append(signals, row)
    PROVE  /\ Len(signals) + 1 \in DOMAIN signals' /\ Len(signals) + 1 \notin DOMAIN signals
           /\ signals'[Len(signals) + 1] = row
           /\ \A s \in Symbols :
                OpenIds(s)' = OpenIds(s) \union (IF row.symbol = s THEN {Len(signals) + 1} ELSE {})
<1>1. signals \in Seq(SignalRows) /\ DOMAIN signals = 1..Len(signals) /\ Len(signals) \in Nat
  BY LenProperties DEF Typed, PollsOK
<1>2. /\ Append(signals, row) \in Seq(SignalRows) /\ Len(Append(signals, row)) = Len(signals) + 1
      /\ Append(signals, row)[Len(signals) + 1] = row
  BY <1>1, AppendProperties
<1>3. \A i \in 1..Len(signals) : Append(signals, row)[i] = signals[i]
  BY <1>1, AppendProperties
<1>4. DOMAIN signals' = 1..Len(signals) + 1 /\ signals'[Len(signals) + 1] = row
  BY <1>2, LenProperties
<1>5. \A i \in 1..Len(signals) : signals'[i] = signals[i]
  BY <1>3
<1>6. /\ \A i : i \in DOMAIN signals' <=> i \in DOMAIN signals \/ i = Len(signals) + 1
      /\ Len(signals) + 1 \notin DOMAIN signals
  BY <1>1, <1>4
<1>7. ASSUME NEW s \in Symbols
      PROVE  OpenIds(s)' = OpenIds(s) \union (IF row.symbol = s THEN {Len(signals) + 1} ELSE {})
  <2>1. \A i : i \in OpenIds(s)' <=> i \in OpenIds(s) \/ (row.symbol = s /\ i = Len(signals) + 1)
    BY <1>1, <1>4, <1>5, <1>6 DEF OpenIds
  <2> QED
    BY <2>1
<1> QED
  BY <1>4, <1>6, <1>7

(* A step that opens a signal is that of the feed, which goes on to tell it,  *)
(* or a request's; one that resolves a signal goes on to tell it.             *)
LEMMA OpenSteps ==
    ASSUME CycleInv, [Next]_vars, NEW s \in Symbols, NEW i
    PROVE  /\ i \in OpenIds(s)' \ OpenIds(s) =>
                /\ OpenIds(s) = {}
                /\ \/ polls'[s].news = SignalMessage(i, "open")
                   \/ \E d \in Clients : AnswerBuilt(d, s) /\ signals'[i].by = d
           /\ i \in OpenIds(s) => i \in DOMAIN signals' /\ signals'[i].by = signals[i].by
           /\ i \in DOMAIN signals /\ ~Over(i) /\ Over(i)' =>
                \E u \in Symbols : polls'[u].news = SignalMessage(i, "resolved")
<1>0. Typed /\ NewsOK
  BY DEF CycleInv
<1>1. CASE UNCHANGED signals
  BY <1>1 DEF OpenIds, Over
<1>2. ASSUME NEW u \in Symbols, NEW j \in OpenIds(u), PollResolves(u, j)
      PROVE  /\ OpenIds(s)' \subseteq OpenIds(s)
             /\ i \in OpenIds(s) => i \in DOMAIN signals' /\ signals'[i].by = signals[i].by
             /\ i \in DOMAIN signals /\ ~Over(i) /\ Over(i)' =>
                    polls'[u].news = SignalMessage(i, "resolved")
  <2>1. /\ DOMAIN signals' = DOMAIN signals
        /\ \A n \in DOMAIN signals : /\ signals'[n].by = signals[n].by
                                     /\ n # j => signals'[n] = signals[n]
        /\ \A n \in Symbols \ {u} : OpenIds(n)' = OpenIds(n)
        /\ OpenIds(u)' = OpenIds(u) \ {j}
    BY <1>0, <1>2, TableResolves DEF PollResolves
  <2> QED
    BY <1>2, <2>1 DEF PollResolves, Over, OpenIds
<1>3. ASSUME NEW row \in SignalRows, row.status = "open", signals' = Append(signals, row)
      PROVE  /\ OpenIds(s)' = OpenIds(s) \union (IF row.symbol = s THEN {Len(signals) + 1} ELSE {})
             /\ signals'[Len(signals) + 1] = row
             /\ i \in OpenIds(s) => i \in DOMAIN signals' /\ signals'[i].by = signals[i].by
             /\ i \in DOMAIN signals /\ ~Over(i) => ~Over(i)'
  <2>1. /\ OpenIds(s)' = OpenIds(s) \union (IF row.symbol = s THEN {Len(signals) + 1} ELSE {})
        /\ signals'[Len(signals) + 1] = row
    BY <1>0, <1>3, TableAppends
  <2>2. \A n \in DOMAIN signals : n \in DOMAIN signals' /\ signals'[n] = signals[n]
    BY <1>0, <1>3, TableGrows
  <2> QED
    BY <2>1, <2>2 DEF OpenIds, Over
<1>4. ASSUME NEW u \in Symbols, PollOpens(u)
      PROVE  /\ i \in OpenIds(s)' \ OpenIds(s) =>
                 OpenIds(s) = {} /\ polls'[s].news = SignalMessage(i, "open")
             /\ i \in OpenIds(s) => i \in DOMAIN signals' /\ signals'[i].by = signals[i].by
             /\ i \in DOMAIN signals /\ ~Over(i) => ~Over(i)'
  <2>1. [symbol |-> u, status |-> "open", by |-> "feed"] \in SignalRows
    BY DEF SignalRows, Lives
  <2> QED
    BY <1>3, <1>4, <2>1 DEF PollOpens
<1>5. ASSUME NEW d \in Clients, NEW u \in Symbols, AnswerBuilt(d, u)
      PROVE  /\ i \in OpenIds(s)' \ OpenIds(s) =>
                 OpenIds(s) = {} /\ AnswerBuilt(d, s) /\ signals'[i].by = d
             /\ i \in OpenIds(s) => i \in DOMAIN signals' /\ signals'[i].by = signals[i].by
             /\ i \in DOMAIN signals /\ ~Over(i) => ~Over(i)'
  <2>1. [symbol |-> u, status |-> "open", by |-> d] \in SignalRows
    BY DEF SignalRows, Lives
  <2>2. signals' = Append(signals, [symbol |-> u, status |-> "open", by |-> d]) /\ OpenIds(u) = {}
    BY <1>5 DEF AnswerBuilt
  <2> QED
    BY <1>3, <1>5, <2>1, <2>2
<1>6. ASSUME NEW u \in Symbols, PollSymbol(u)
      PROVE  UNCHANGED signals \/ (\E j \in OpenIds(u) : PollResolves(u, j)) \/ PollOpens(u)
  BY <1>0, <1>6, PollNews DEF PollQuiet, PollTells
<1>7. ASSUME NEW c \in Clients,
             \/ Join(c) \/ Cut(c) \/ Receive(c) \/ Hydrate(c) \/ AnswerPrices(c) \/ SeedPrices(c)
             \/ \E u \in Symbols : AnswerOpen(c, u) \/ AnswerNone(c, u)
      PROVE  UNCHANGED signals
  BY <1>7 DEF Join, Cut, Receive, Hydrate, AnswerPrices, SeedPrices, AnswerOpen, AnswerNone, pollVars
<1>8. ASSUME \/ Run \/ ServerRestart \/ UNCHANGED pollVars PROVE UNCHANGED signals
  BY <1>8 DEF Run, CycleFails, CycleSucceeds, Wake, ServerRestart, Restart, pollVars
<1>9. CASE UNCHANGED vars
  BY <1>1, <1>8, <1>9 DEF vars
<1>10. ASSUME NEW u \in Symbols, PollSymbol(u)
       PROVE  /\ i \in OpenIds(s)' \ OpenIds(s) =>
                   OpenIds(s) = {} /\ polls'[s].news = SignalMessage(i, "open")
              /\ i \in OpenIds(s) => i \in DOMAIN signals' /\ signals'[i].by = signals[i].by
              /\ i \in DOMAIN signals /\ ~Over(i) /\ Over(i)' =>
                   \E n \in Symbols : polls'[n].news = SignalMessage(i, "resolved")
  <2>1. CASE UNCHANGED signals
    BY <2>1 DEF OpenIds, Over
  <2> QED
    BY <1>2, <1>4, <1>6, <1>10, <2>1
<1> QED
  BY <1>1, <1>5, <1>7, <1>8, <1>9, <1>10, Steps

(* With its guard atomic, a symbol has at most one open signal.               *)
LEMMA OneOpenStep == ASSUME CycleInv, OneOpen, [Next]_vars PROVE OneOpen'
<1> SUFFICES ASSUME NEW s \in Symbols, NEW i \in OpenIds(s)', NEW j \in OpenIds(s)' PROVE i = j
  BY DEF OneOpen
<1>0. Typed /\ NewsOK
  BY DEF CycleInv
<1>1. CASE UNCHANGED signals
  BY <1>1 DEF OneOpen, OpenIds
<1>2. ASSUME NEW row \in SignalRows, signals' = Append(signals, row), row.status = "open",
             OpenIds(row.symbol) = {}
      PROVE  i = j
  BY <1>0, <1>2, TableAppends DEF OneOpen
<1>3. ASSUME NEW u \in Symbols, NEW n \in OpenIds(u), PollResolves(u, n) PROVE i = j
  <2>1. OpenIds(s)' \subseteq OpenIds(s)
    BY <1>0, <1>3, TableResolves DEF PollResolves
  <2> QED
    BY <2>1 DEF OneOpen
<1> QED
  BY <1>0, <1>1, <1>2, <1>3, TableSteps

(* While its connection lasts, a message that is coming to c keeps coming,    *)
(* until c dispatches it.                                                     *)
LEMMA KeepsComing ==
    ASSUME StatusInv, [Next]_vars, NEW c \in Clients, Linked(c), Linked(c)', socket'[c] = socket[c],
           NEW m \in SignalMessages, ComesTo(c, m)
    PROVE  ComesTo(c, m)' \/ (Receive(c) /\ inbox[c][1] = m)
<1>0. /\ Typed /\ NewsOK /\ LoopOK /\ LinksOK /\ CycleInv
      /\ \A s \in Symbols : s \in Tasks /\ s # "_run"
      /\ sending \in [Tasks -> Sendings] /\ m \in Messages /\ m # <<>>
  BY PollAssumption, NoSignal DEF StatusInv, CycleInv, Typed, ConnectionsOK, Messages, SignalMessages
<1>1. /\ Current(c) \in Sockets /\ Current(c)' = Current(c) /\ link[Current(c)] = "up"
      /\ link'[Current(c)] = "up" /\ Current(c) \in registered /\ Current(c)[1] = c
  BY <1>0, CurrentSocket DEF Linked, Current, LinksOK
<1>2. ASSUME \A s \in Symbols : polls[s].news = m => polls'[s].news = m,
             \A s \in Symbols : Current(c) \in sending[s].to /\ sending[s].msg = m =>
                 Current(c) \in sending'[s].to /\ sending'[s].msg = m,
             inbox'[c] = inbox[c]
      PROVE  ComesTo(c, m)'
  BY <1>1, <1>2 DEF ComesTo
<1>3. ASSUME NEW s \in Symbols, PollSymbol(s) PROVE ComesTo(c, m)'
  <2>1. /\ \A u \in Symbols \ {s} : polls'[u] = polls[u]
        /\ Idle(s)
        /\ \/ PollQuiet(s) \/ (\E i \in OpenIds(s) : PollResolves(s, i))
           \/ PollOpens(s) \/ PollTells(s)
        /\ inbox' = inbox
    BY <1>0, <1>3, PollNews, PollSays
  <2>2. \A u \in Symbols \ {s} : sending'[u] = sending[u]
    BY <1>0, <2>1 DEF PollQuiet, PollResolves, PollOpens, PollTells, Broadcast
  <2>3. \A u \in Symbols : Current(c) \in sending[u].to /\ sending[u].msg = m =>
            Current(c) \in sending'[u].to /\ sending'[u].msg = m
    BY <2>1, <2>2 DEF Idle
  <2>4. CASE polls[s].news = m /\ PollTells(s)
    <3>1. /\ sending'[s].to = registered
          /\ registered # {} => sending'[s].msg = m
      BY <1>0, <2>4, BroadcastEffect DEF PollTells, Typed
    <3> QED
      BY <1>1, <3>1 DEF ComesTo
  <2>5. CASE polls[s].news = m /\ PollQuiet(s)
    BY <1>2, <2>1, <2>3, <2>5 DEF PollQuiet
  <2>6. CASE polls[s].news # m
    BY <1>2, <2>1, <2>3, <2>6
  <2> QED
    BY <1>0, <2>1, <2>4, <2>5, <2>6 DEF PollResolves, PollOpens
<1>4. CASE Run /\ UNCHANGED dashboardVars
  <2>1. \A s \in Symbols : sending'[s] = sending[s]
    BY <1>0, <1>4, RunTells DEF Broadcast
  <2>2. \A s \in Symbols : polls[s].news = m => polls'[s].news = m
    BY <1>0, <1>4 DEF Run, CycleFails, CycleSucceeds, Wake, CycleInv, CycleWhole
  <2>3. inbox' = inbox
    BY <1>0, <1>4, RunTells
  <2> QED
    BY <1>2, <2>1, <2>2, <2>3
<1>5. ASSUME NEW k \in Sockets, NEW n \in Messages, Push(k, n),
             \E p \in 1..Len(inbox[c]) : inbox[c][p] = m
      PROVE  \E p \in 1..Len(inbox'[c]) : inbox'[c][p] = m
  <2>1. CASE k[1] = c
    <3>1. inbox'[c] = Append(inbox[c], n) /\ inbox[c] \in Seq(Messages)
      BY <1>0, <1>5, <2>1, PushEffect DEF Typed, ConnectionsOK
    <3>2. /\ Len(inbox'[c]) = Len(inbox[c]) + 1 /\ Len(inbox[c]) \in Nat
          /\ \A p \in 1..Len(inbox[c]) : inbox'[c][p] = inbox[c][p]
      BY <3>1, AppendProperties, LenProperties
    <3> QED
      BY <1>5, <3>2
  <2>2. CASE k[1] # c
    BY <1>0, <1>5, <2>2, PushEffect DEF Typed
  <2> QED
    BY <2>1, <2>2
<1>6. ASSUME NEW t \in Tasks, NEW k \in Sockets, Send(t, k), UNCHANGED <<pollVars, dashboardVars>>
      PROVE  ComesTo(c, m)'
  <2>1. /\ \A u \in Tasks \ {t} : sending'[u] = sending[u]
        /\ sending'[t].to = sending[t].to \ {k} /\ k \in sending[t].to
        /\ sending'[t].to # {} => sending'[t].msg = sending[t].msg
        /\ IF link[k] = "up" THEN Push(k, sending[t].msg) ELSE UNCHANGED inbox
        /\ polls' = polls /\ sending[t].msg \in Messages
    BY <1>0, <1>6, SendEffect DEF Typed, ConnectionsOK, Idle, pollVars
  <2>2. ASSUME NEW s \in Symbols, polls[s].news = m PROVE ComesTo(c, m)'
    BY <2>1, <2>2 DEF ComesTo
  <2>3. ASSUME NEW s \in Symbols, Current(c) \in sending[s].to, sending[s].msg = m
        PROVE  ComesTo(c, m)'
    <3>1. CASE s = t /\ k = Current(c)
      <4>1. inbox'[c] = Append(inbox[c], m) /\ inbox[c] \in Seq(Messages)
        BY <1>0, <1>1, <2>1, <2>3, <3>1, PushEffect DEF Typed, ConnectionsOK
      <4>2. /\ Len(inbox'[c]) = Len(inbox[c]) + 1 /\ Len(inbox[c]) \in Nat
            /\ inbox'[c][Len(inbox[c]) + 1] = m
        BY <1>0, <4>1, AppendProperties, LenProperties
      <4>3. Len(inbox[c]) + 1 \in 1..Len(inbox'[c])
        BY <4>2
      <4> QED
        BY <4>2, <4>3 DEF ComesTo
    <3>2. CASE ~(s = t /\ k = Current(c))
      <4>1. Current(c) \in sending'[s].to /\ sending'[s].msg = m
        BY <1>0, <2>1, <2>3, <3>2
      <4> QED
        BY <1>1, <4>1 DEF ComesTo
    <3> QED
      BY <3>1, <3>2
  <2>4. ASSUME \E p \in 1..Len(inbox[c]) : inbox[c][p] = m PROVE ComesTo(c, m)'
    BY <1>5, <2>1, <2>4 DEF ComesTo
  <2> QED
    BY <2>2, <2>3, <2>4 DEF ComesTo
<1>7. ASSUME NEW k \in Sockets, Greet(k, StatusMessage(status)), UNCHANGED <<pollVars, dashboardVars>>
      PROVE  ComesTo(c, m)'
  <2>1. /\ StatusMessage(status) \in Messages
        /\ Push(k, StatusMessage(status)) /\ UNCHANGED <<polls, sending>>
    BY <1>0, <1>7 DEF Greet, Typed, PollsOK, Messages, StatusMessages, pollVars
  <2> QED
    BY <1>1, <1>5, <2>1 DEF ComesTo
<1>8. ASSUME ServerRestart PROVE FALSE
  BY <1>1, <1>8 DEF ServerRestart, Restart, CutAll
<1>9. CASE UNCHANGED <<polls, sending>> /\ inbox'[c] = inbox[c]
  BY <1>2, <1>9
<1>10. ASSUME NEW d \in Clients, Cut(d) PROVE UNCHANGED <<polls, sending>> /\ inbox'[c] = inbox[c]
  <2>1. /\ link' = [link EXCEPT ![Current(d)] = "cut"] /\ inbox' = [inbox EXCEPT ![d] = <<>>]
        /\ UNCHANGED <<polls, sending>>
    BY <1>10 DEF Cut, CutLink, Current
  <2>2. c # d
    BY <1>0, <1>1, <2>1 DEF Typed, ConnectionsOK
  <2> QED
    BY <1>0, <2>1, <2>2 DEF Typed, ConnectionsOK
<1>11. ASSUME NEW d \in Clients, Receive(d), d # c
       PROVE  UNCHANGED <<polls, sending>> /\ inbox'[c] = inbox[c]
  BY <1>0, <1>11, ReceiveEffect DEF Receive, pollVars
<1>12. ASSUME Receive(c), inbox[c][1] # m PROVE ComesTo(c, m)'
  <2>1. /\ Len(inbox[c]) \in Nat \ {0} /\ Len(inbox'[c]) = Len(inbox[c]) - 1
        /\ \A p \in 1..Len(inbox'[c]) : inbox'[c][p] = inbox[c][p + 1]
        /\ UNCHANGED <<polls, sending>>
    BY <1>0, <1>12, SignalsReceived DEF Receive, pollVars
  <2>2. ASSUME NEW p \in 1..Len(inbox[c]), inbox[c][p] = m PROVE ComesTo(c, m)'
    <3>1. p - 1 \in 1..Len(inbox'[c]) /\ inbox'[c][p - 1] = m
      <4>1. p # 1
        BY <1>12, <2>2
      <4>2. p - 1 \in 1..Len(inbox'[c]) /\ (p - 1) + 1 = p
        BY <2>1, <4>1
      <4> QED
        BY <2>1, <2>2, <4>2
    <3> QED
      BY <3>1 DEF ComesTo
  <2> QED
    BY <1>1, <2>1, <2>2 DEF ComesTo
<1>13. ASSUME NEW k \in Sockets, GreetFails(k) \/ Leave(k), UNCHANGED <<pollVars, dashboardVars>>
       PROVE  UNCHANGED <<polls, sending, inbox>>
  BY <1>13 DEF GreetFails, Leave, pollVars
<1>14. ASSUME NEW d \in Clients,
              \/ Join(d) \/ Hydrate(d) \/ AnswerPrices(d) \/ SeedPrices(d)
              \/ \E s \in Symbols : AnswerOpen(d, s) \/ AnswerBuilt(d, s) \/ AnswerNone(d, s)
       PROVE  UNCHANGED <<polls, sending, inbox>>
  BY <1>14 DEF Join, Accept, Hydrate, AnswerPrices, SeedPrices, AnswerOpen, AnswerBuilt, AnswerNone,
               connectionVars, pollVars
<1>15. CASE UNCHANGED vars
  BY <1>9, <1>15 DEF vars, connectionVars, pollVars
<1> QED
  BY <1>3, <1>4, <1>6, <1>7, <1>8, <1>9, <1>10, <1>11, <1>12, <1>13, <1>14, <1>15, Steps

(* A dashboard gets a new connection only with a new socket.                  *)
LEMMA SocketSteps ==
    ASSUME CycleInv, [Next]_vars, NEW c \in Clients
    PROVE  \/ socket'[c] = socket[c] /\ (Linked(c)' => Linked(c))
           \/ Join(c) /\ socket'[c] = socket[c] + 1 /\ UNCHANGED <<store, answers, since, inbox>>
<1>0. Typed /\ LoopOK
  BY DEF CycleInv
<1>1. CASE UNCHANGED <<link, socket>>
  BY <1>1 DEF Linked, Current
<1>2. ASSUME NEW s \in Symbols, PollSymbol(s), UNCHANGED dashboardVars PROVE UNCHANGED <<link, socket>>
  BY <1>0, <1>2, PollSays DEF dashboardVars
<1>3. ASSUME Run /\ UNCHANGED dashboardVars PROVE UNCHANGED <<link, socket>>
  BY <1>0, <1>3, RunTells DEF dashboardVars
<1>4. ASSUME NEW t \in Tasks, NEW k \in Sockets, Send(t, k), UNCHANGED <<pollVars, dashboardVars>>
      PROVE  UNCHANGED <<link, socket>>
  BY <1>0, <1>4, SendEffect DEF Typed, dashboardVars
<1>5. ASSUME NEW k \in Sockets, Greet(k, StatusMessage(status)) \/ GreetFails(k) \/ Leave(k),
             UNCHANGED <<pollVars, dashboardVars>>
      PROVE  UNCHANGED <<link, socket>>
  BY <1>5 DEF Greet, GreetFails, Leave, dashboardVars
<1>6. ASSUME ServerRestart PROVE socket'[c] = socket[c] /\ ~Linked(c)'
  <2>1. socket' = socket /\ \A k \in Sockets : link'[k] # "up"
    BY <1>6 DEF ServerRestart, Restart, CutAll
  <2>2. socket[c] > 0 => Current(c)' \in Sockets
    BY <1>0, <2>1, CurrentSocket DEF Current
  <2> QED
    BY <2>1, <2>2 DEF Linked
<1>7. ASSUME NEW d \in Clients, Join(d)
      PROVE  \/ socket'[c] = socket[c] /\ (Linked(c)' => Linked(c))
             \/ Join(c) /\ socket'[c] = socket[c] + 1 /\ UNCHANGED <<store, answers, since, inbox>>
  <2>1. /\ link' = [link EXCEPT ![<<d, socket'[d]>>] = "up"]
        /\ socket' = [socket EXCEPT ![d] = socket[d] + 1]
        /\ UNCHANGED <<store, answers, since, inbox>>
    BY <1>7 DEF Join, Accept
  <2>2. CASE d = c
    BY <1>0, <1>7, <2>1, <2>2 DEF Typed, DashboardsOK
  <2>3. CASE d # c
    <3>1. socket'[c] = socket[c]
      BY <1>0, <2>1, <2>3 DEF Typed, DashboardsOK
    <3>2. ASSUME Linked(c)' PROVE Linked(c)
      <4>1. /\ socket[c] > 0 /\ link'[<<c, socket[c]>>] = "up" /\ <<c, socket[c]>> # <<d, socket'[d]>>
            /\ <<c, socket[c]>> \in Sockets
        BY <1>0, <2>3, <3>1, <3>2, CurrentSocket DEF Linked, Current
      <4> QED
        BY <1>0, <2>1, <4>1 DEF Linked, Current, Typed, ConnectionsOK
    <3> QED
      BY <3>1, <3>2
  <2> QED
    BY <2>2, <2>3
<1>8. ASSUME NEW d \in Clients, Cut(d) PROVE socket'[c] = socket[c] /\ (Linked(c)' => Linked(c))
  <2>1. /\ link' = [link EXCEPT ![Current(d)] = "cut"] /\ socket' = socket
    BY <1>8 DEF Cut, CutLink
  <2>2. socket[c] > 0 => Current(c) \in Sockets
    BY <1>0, CurrentSocket
  <2> QED
    BY <1>0, <2>1, <2>2 DEF Linked, Current, Typed, ConnectionsOK
<1>9. ASSUME NEW d \in Clients,
             \/ Receive(d) \/ Hydrate(d) \/ AnswerPrices(d) \/ SeedPrices(d)
             \/ \E s \in Symbols : AnswerOpen(d, s) \/ AnswerBuilt(d, s) \/ AnswerNone(d, s)
      PROVE  UNCHANGED <<link, socket>>
  BY <1>9 DEF Receive, Hydrate, AnswerPrices, SeedPrices, AnswerOpen, AnswerBuilt, AnswerNone,
              connectionVars
<1>10. CASE UNCHANGED vars
  BY <1>1, <1>10 DEF vars, connectionVars, dashboardVars
<1> QED
  BY <1>1, <1>2, <1>3, <1>4, <1>5, <1>6, <1>7, <1>8, <1>9, <1>10, Steps

(* A request of c for s is answered with the open signal of s, or with 0.     *)
Answered(c, s) ==
    /\ Asked(c, s) /\ UNCHANGED <<store, connectionVars, socket>>
    /\ \E j \in Nat : /\ answers'[c] = Put(answers[c], s, j)
                      /\ j \in OpenIds(s)' \/ (j = 0 /\ OpenIds(s)' = {})

(* A step leaves the answers of a dashboard alone, uses them up, or brings    *)
(* one of them.                                                               *)
LEMMA AnswerSteps ==
    ASSUME CycleInv, [Next]_vars, NEW c \in Clients
    PROVE  \/ answers'[c] = answers[c] /\ since'[c] = since[c]
           \/ Hydrate(c)
           \/ \E s \in Symbols : Answered(c, s)
<1>0. Typed
  BY DEF CycleInv
<1>1. ASSUME NEW d \in Clients, NEW s \in Symbols,
             AnswerOpen(d, s) \/ AnswerBuilt(d, s) \/ AnswerNone(d, s)
      PROVE  Answered(c, s) \/ (answers'[c] = answers[c] /\ since'[c] = since[c])
  <2>1. Len(signals) \in Nat /\ OpenIds(s) \subseteq Nat
    BY <1>0, LenProperties DEF OpenIds, Typed, PollsOK
  <2>2. PICK j \in Nat : /\ Asked(d, s) /\ Answer(d, s, j)
                         /\ UNCHANGED <<store, connectionVars, socket>>
                         /\ j \in OpenIds(s)' \/ (j = 0 /\ OpenIds(s)' = {})
    <3>1. CASE AnswerOpen(d, s)
      <4>1. OpenIds(s)' = OpenIds(s)
        BY <3>1 DEF AnswerOpen, OpenIds
      <4> QED
        BY <2>1, <3>1, <4>1 DEF AnswerOpen
    <3>2. CASE AnswerBuilt(d, s)
      <4>1. [symbol |-> s, status |-> "open", by |-> d] \in SignalRows
        BY DEF SignalRows, Lives
      <4>2. Len(signals) + 1 \in OpenIds(s)'
        BY <1>0, <3>2, <4>1, TableAppends DEF AnswerBuilt
      <4> QED
        BY <2>1, <3>2, <4>2 DEF AnswerBuilt
    <3>3. CASE AnswerNone(d, s)
      <4>1. OpenIds(s)' = OpenIds(s)
        BY <3>3 DEF AnswerNone, OpenIds
      <4> QED
        BY <3>3, <4>1 DEF AnswerNone
    <3> QED
      BY <1>1, <3>1, <3>2, <3>3
  <2>3. /\ answers'[d] = Put(answers[d], s, j)
        /\ \A n \in Clients \ {d} : answers'[n] = answers[n] /\ since'[n] = since[n]
    BY <1>0, <2>2, AnswerEffect
  <2> QED
    BY <2>2, <2>3 DEF Answered
<1>2. ASSUME NEW d \in Clients, Hydrate(d)
      PROVE  Hydrate(c) \/ (answers'[c] = answers[c] /\ since'[c] = since[c])
  <2>1. since' = since /\ \A n \in Clients \ {d} : answers'[n] = answers[n]
    BY <1>0, <1>2, HydrateEffect DEF Hydrate
  <2> QED
    BY <1>2, <2>1
<1>3. ASSUME NEW d \in Clients,
             Join(d) \/ Cut(d) \/ Receive(d) \/ AnswerPrices(d) \/ SeedPrices(d)
      PROVE  UNCHANGED <<answers, since>>
  BY <1>3 DEF Join, Cut, Receive, AnswerPrices, SeedPrices
<1>4. ASSUME ServerRestart \/ UNCHANGED dashboardVars PROVE UNCHANGED <<answers, since>>
  BY <1>4 DEF ServerRestart, dashboardVars
<1>5. CASE UNCHANGED vars
  BY <1>4, <1>5 DEF vars
<1> QED
  BY <1>1, <1>2, <1>3, <1>4, <1>5, Steps

(* A dashboard is seeded by hydrateSignals and by nothing else.               *)
LEMMA SeededSteps ==
    ASSUME Typed, [Next]_vars, NEW c \in Clients
    PROVE  (Hydrate(c) /\ store'[c].seeded) \/ store'[c].seeded = store[c].seeded
<1>1. CASE Receive(c)
  <2>1. /\ store'[c] = Dispatched(store[c], Head(inbox[c])) /\ Head(inbox[c]) \in Messages
        /\ store[c] \in Stores
    BY <1>1, ReceiveEffect DEF Typed, DashboardsOK
  <2>2. Dispatched(store[c], Head(inbox[c])).seeded = store[c].seeded
    BY <2>1, DispatchedEffect, Zenon
  <2> QED
    BY <2>1, <2>2
<1>2. CASE SeedPrices(c)
  <2>1. store[c] \in Stores /\ quotes[c] \in [Symbols -> Nat] /\ store'[c] = Quoted(store[c], quotes[c])
    BY <1>2, SeedEffect DEF Typed, DashboardsOK
  <2> QED
    BY <2>1, QuotedEffect
<1>3. CASE Hydrate(c)
  BY <1>3, HydrateEffect
<1> QED
  BY <1>1, <1>2, <1>3, StoreSteps

(* The bootstrap happens once, and nothing is heard before the first          *)
(* socket.                                                                    *)
LEMMA BootstrappedStep ==
    ASSUME StatusInv, Bootstrapped, [Next]_vars
    PROVE  Bootstrapped'
<1> SUFFICES ASSUME NEW c \in Clients
             PROVE  /\ since'[c] <= socket'[c]
                    /\ store'[c].seeded => answers'[c] = <<>>
                    /\ socket'[c] = 0 => /\ inbox'[c] = <<>>
                                         /\ store'[c].seeded \/ DOMAIN store'[c].signals = {}
  BY DEF Bootstrapped
<1>0. Typed /\ CycleInv /\ LinksOK /\ RunSays
  BY DEF StatusInv, CycleInv
<1>1. /\ since[c] \in Nat /\ socket[c] \in Nat /\ since[c] <= socket[c]
      /\ socket'[c] = socket[c] \/ socket'[c] = socket[c] + 1
  BY <1>0, SocketsAssumption, SocketSteps DEF Bootstrapped, Typed, DashboardsOK
<1>2. since'[c] <= socket'[c]
  <2>1. CASE since'[c] = since[c]
    BY <1>1, <2>1
  <2>2. ASSUME NEW s \in Symbols, Answered(c, s) PROVE since'[c] \in {since[c], socket[c], 0}
    BY <1>0, <2>2 DEF Answered, Asked, Typed, DashboardsOK
  <2>3. Hydrate(c) => since' = since
    BY DEF Hydrate
  <2> QED
    BY <1>0, <1>1, <2>1, <2>2, <2>3, AnswerSteps
<1>3. store'[c].seeded => answers'[c] = <<>>
  <2>1. CASE Hydrate(c)
    BY <1>0, <2>1, HydrateEffect
  <2>2. CASE ~Hydrate(c)
    BY <1>0, <2>2, SeededSteps, AnswerSteps DEF Bootstrapped, Answered, Asked
  <2> QED
    BY <2>1, <2>2
<1>4. ASSUME socket'[c] = 0
      PROVE  inbox'[c] = <<>> /\ (store'[c].seeded \/ DOMAIN store'[c].signals = {})
  <2>1. socket[c] = 0 /\ inbox[c] = <<>> /\ (store[c].seeded \/ DOMAIN store[c].signals = {})
    BY <1>1, <1>4 DEF Bootstrapped
  <2>2. ~Receive(c) /\ ~InboxGrows(c)
    BY <2>1 DEF Receive, InboxGrows, Linked
  <2>3. CASE Hydrate(c) /\ inbox'[c] = inbox[c]
    BY <1>0, <2>1, <2>3, HydrateEffect
  <2>4. CASE InboxQuiet(c)
    BY <1>0, <2>1, <2>4, SeededSteps DEF InboxQuiet
  <2> QED
    BY <1>0, <2>2, <2>3, <2>4, InboxSteps
<1> QED
  BY <1>2, <1>3, <1>4

(* A dashboard is attentive from its first connection, when it has heard and  *)
(* asked nothing, until that connection is lost.                              *)
LEMMA AttentiveSteps ==
    ASSUME StatusInv, Bootstrapped, [Next]_vars, NEW c \in Clients, Attentive(c)'
    PROVE  \/ Attentive(c) /\ socket'[c] = socket[c]
           \/ /\ inbox'[c] = <<>> /\ DOMAIN store'[c].signals = {}
              /\ answers'[c] = <<>> /\ ~store'[c].seeded
<1>0. Typed /\ CycleInv
  BY DEF StatusInv, CycleInv
<1>1. /\ Linked(c)' /\ socket'[c] = 1 /\ socket[c] \in Nat /\ since[c] \in Nat
      /\ since'[c] = 1 \/ (answers'[c] = <<>> /\ ~store'[c].seeded)
  BY <1>0, SocketsAssumption DEF Attentive, Typed, DashboardsOK
<1>2. CASE Join(c) /\ socket'[c] = socket[c] + 1 /\ UNCHANGED <<store, answers, since, inbox>>
  BY <1>1, <1>2 DEF Bootstrapped
<1>3. CASE socket'[c] = socket[c] /\ Linked(c)
  <2>1. ASSUME NEW s \in Symbols, Answered(c, s)
        PROVE  since[c] = 1 \/ (answers[c] = <<>> /\ ~store[c].seeded)
    <3>1. PICK j \in Nat : answers'[c] = Put(answers[c], s, j)
      BY <2>1 DEF Answered
    <3>2. s \in DOMAIN answers'[c] /\ DOMAIN <<>> = {}
      BY <3>1, EmptySeq DEF Put
    <3>3. since'[c] = 1
      BY <1>1, <3>2
    <3> QED
      BY <1>0, <2>1, <3>3 DEF Answered, Asked, Typed, DashboardsOK
  <2>2. ASSUME Hydrate(c) PROVE since[c] = 1
    <3>1. store'[c].seeded /\ since' = since
      BY <1>0, <2>2, HydrateEffect DEF Hydrate
    <3> QED
      BY <1>1, <3>1
  <2>3. CASE ~Hydrate(c) /\ answers'[c] = answers[c] /\ since'[c] = since[c]
    BY <1>0, <1>1, <1>3, <2>3, SeededSteps DEF Attentive
  <2> QED
    BY <1>0, <1>1, <1>3, <2>1, <2>2, <2>3, AnswerSteps DEF Attentive
<1> QED
  BY <1>0, <1>1, <1>2, <1>3, SocketSteps

(* What a dashboard comes to take for open was already so, or is open now.    *)
LEMMA BelievedSteps ==
    ASSUME SignalInv, StatusInv, Bootstrapped, [Next]_vars, NEW c \in Clients, NEW i \in Nat,
           Believed(c, i)'
    PROVE  Believed(c, i) \/ (i \in DOMAIN signals' /\ ~Over(i)')
<1>0. Typed /\ CycleInv /\ LinksOK /\ RunSays
  BY DEF StatusInv, CycleInv
<1>1. \A s \in Symbols : i \in OpenIds(s)' => i \in DOMAIN signals' /\ ~Over(i)'
  BY DEF OpenIds, Over
<1>2. ASSUME NEW s \in Symbols, Answered(c, s)
      PROVE  Believed(c, i) \/ (i \in DOMAIN signals' /\ ~Over(i)')
  <2>1. UNCHANGED <<store, inbox>>
    BY <1>2 DEF Answered, connectionVars
  <2>2. PICK j \in Nat : /\ answers'[c] = Put(answers[c], s, j)
                         /\ j \in OpenIds(s)' \/ (j = 0 /\ OpenIds(s)' = {})
    BY <1>2 DEF Answered
  <2>3. ASSUME NEW u \in DOMAIN answers'[c], answers'[c][u] = i, i # 0
        PROVE  i \in OpenIds(s)' \/ (u \in DOMAIN answers[c] /\ answers[c][u] = i)
    BY <2>2, <2>3 DEF Put
  <2> QED
    BY <1>1, <2>1, <2>3 DEF Believed
<1>3. CASE Hydrate(c)
  <2>1. /\ inbox' = inbox /\ answers'[c] = <<>> /\ DOMAIN answers[c] = Symbols
    BY <1>0, <1>3, HydrateEffect DEF Hydrate, connectionVars
  <2>2. DOMAIN answers'[c] = {}
    BY <2>1, EmptySeq
  <2>3. CASE i \in DOMAIN store'[c].signals /\ store'[c].signals[i] = "open"
    BY <1>0, <1>3, <2>1, <2>3, SignalsHydrated DEF Believed
  <2> QED
    BY <2>1, <2>2, <2>3 DEF Believed
<1>4. CASE answers'[c] = answers[c] /\ InboxQuiet(c)
  <2>1. Len(<<>>) = 0 /\ 1..0 = {}
    BY EmptySeq
  <2> QED
    BY <1>4, <2>1 DEF InboxQuiet, Believed
<1>5. CASE answers'[c] = answers[c] /\ InboxGrows(c)
  <2>1. PICK m \in Messages : /\ inbox'[c] = Append(inbox[c], m)
                              /\ \/ m \in StatusMessages \union PriceMessages
                                 \/ \E s \in Symbols : ~Idle(s) /\ m = sending[s].msg
    BY <1>5 DEF InboxGrows
  <2>2. /\ Len(inbox'[c]) = Len(inbox[c]) + 1 /\ Len(inbox[c]) \in Nat
        /\ \A p \in 1..Len(inbox[c]) : inbox'[c][p] = inbox[c][p]
        /\ inbox'[c][Len(inbox[c]) + 1] = m
    BY <1>0, <2>1, AppendProperties, LenProperties DEF Typed, ConnectionsOK
  <2>3. \A p \in 1..Len(inbox'[c]) : p \in 1..Len(inbox[c]) \/ p = Len(inbox[c]) + 1
    BY <2>2
  <2>4. m = SignalMessage(i, "open") => \E s \in Symbols : i \in OpenIds(s)
    BY <2>1, NoSignal DEF SignalInv, SendingTrue, TrueNow
  <2>5. m = SignalMessage(i, "open") => i \in DOMAIN signals' /\ ~Over(i)'
    BY <1>5, <2>4 DEF InboxGrows, OpenIds, Over
  <2> QED
    BY <1>5, <2>2, <2>3, <2>5 DEF InboxGrows, Believed
<1>6. CASE answers'[c] = answers[c] /\ Receive(c)
  <2>1. /\ Len(inbox[c]) \in Nat \ {0} /\ 1 \in 1..Len(inbox[c])
        /\ \A p \in 1..Len(inbox'[c]) : p + 1 \in 1..Len(inbox[c]) /\ inbox'[c][p] = inbox[c][p + 1]
    BY <1>0, <1>6, SignalsReceived
  <2>2. ASSUME i \in DOMAIN store'[c].signals, store'[c].signals[i] = "open"
        PROVE  Believed(c, i)
    <3>1. \/ i \in DOMAIN store[c].signals /\ store[c].signals[i] = "open"
          \/ inbox[c][1] = SignalMessage(i, "open")
      BY <1>0, <1>6, <2>2, SignalsReceived, SMTT(20)
    <3> QED
      BY <2>1, <3>1 DEF Believed
  <2>3. DOMAIN store[c].signals \subseteq DOMAIN store'[c].signals
    BY <1>0, <1>6, SignalsReceived
  <2>4. (\E p \in 1..Len(inbox'[c]) : inbox'[c][p] = SignalMessage(i, "open")) => Believed(c, i)
    BY <2>1 DEF Believed
  <2> QED
    BY <1>6, <2>2, <2>3, <2>4 DEF Believed
<1>7. Hydrate(c) \/ answers'[c] = answers[c] \/ \E s \in Symbols : Answered(c, s)
  BY <1>0, AnswerSteps
<1> QED
  BY <1>0, <1>2, <1>3, <1>4, <1>5, <1>6, <1>7, InboxSteps

(* No step makes an attentive dashboard show, or be about to show, a          *)
(* resolved signal as open without the news on its way.                       *)
LEMMA NoneStaleStep ==
    ASSUME ShownInv, [Next]_vars
    PROVE  NoneStale'
<1> SUFFICES ASSUME NEW c \in Clients, Attentive(c)', NEW i \in Nat, Believed(c, i)'
             PROVE  i \in DOMAIN signals' /\ (Over(i)' => ComesTo(c, SignalMessage(i, "resolved"))')
  BY DEF NoneStale
<1>0. /\ SignalInv /\ StatusInv /\ Bootstrapped /\ Typed /\ CycleInv /\ NewsOK
      /\ SignalMessage(i, "resolved") \in SignalMessages
  BY DEF ShownInv, StatusInv, CycleInv, SignalMessages, Lives
<1>1. CASE inbox'[c] = <<>> /\ DOMAIN store'[c].signals = {} /\ answers'[c] = <<>>
  <2>1. Len(<<>>) = 0 /\ 1..0 = {} /\ DOMAIN <<>> = {}
    BY EmptySeq
  <2> QED
    BY <1>1, <2>1 DEF Believed
<1>2. CASE Attentive(c) /\ socket'[c] = socket[c]
  <2>1. CASE i \in DOMAIN signals' /\ ~Over(i)'
    BY <2>1
  <2>2. CASE Believed(c, i)
    <3>1. i \in DOMAIN signals /\ (Over(i) => ComesTo(c, SignalMessage(i, "resolved")))
      BY <1>2, <2>2 DEF ShownInv, NoneStale
    <3>2. i \in DOMAIN signals'
      <4>1. \A s \in Symbols : \A n \in OpenIds(s) :
               PollResolves(s, n) => DOMAIN signals' = DOMAIN signals
        BY <1>0, TableResolves DEF PollResolves
      <4> QED
        BY <1>0, <3>1, <4>1, TableSteps, TableGrows
    <3>3. ASSUME ~Over(i), Over(i)' PROVE ComesTo(c, SignalMessage(i, "resolved"))'
      <4>1. signals \in Seq(SignalRows) /\ i \in 1..Len(signals)
        BY <1>0, <3>1, LenProperties DEF Typed, PollsOK
      <4>2. signals[i].symbol \in Symbols
        <5>1. signals[i] \in SignalRows
          BY <4>1, ElementOfSeq
        <5> QED
          BY <5>1 DEF SignalRows
      <4>3. \E u \in Symbols : polls'[u].news = SignalMessage(i, "resolved")
        BY <1>0, <3>1, <3>3, <4>2, OpenSteps
      <4> QED
        BY <4>3 DEF ComesTo
    <3>4. ASSUME Over(i) PROVE ComesTo(c, SignalMessage(i, "resolved"))'
      <4>1. \/ ComesTo(c, SignalMessage(i, "resolved"))'
            \/ Receive(c) /\ inbox[c][1] = SignalMessage(i, "resolved")
        BY <1>0, <1>2, <3>1, <3>4, KeepsComing DEF Attentive
      <4>2. ASSUME Receive(c), inbox[c][1] = SignalMessage(i, "resolved") PROVE FALSE
        <5>1. /\ Len(inbox[c]) \in Nat \ {0} /\ 1 \in 1..Len(inbox[c])
              /\ \A p \in 1..Len(inbox'[c]) : p + 1 \in 1..Len(inbox[c]) /\ inbox'[c][p] = inbox[c][p + 1]
              /\ Len(inbox'[c]) = Len(inbox[c]) - 1
          BY <1>0, <4>2, SignalsReceived
        <5>2. i \in DOMAIN store'[c].signals /\ store'[c].signals[i] = "resolved"
          BY <1>0, <4>2, SignalsReceived, NoSignal DEF SignalMessages
        <5>3. PICK p \in 1..Len(inbox'[c]) : inbox'[c][p] = SignalMessage(i, "open")
          BY <5>2 DEF Believed
        <5>4. p + 1 \in 1..Len(inbox[c]) /\ inbox[c][p + 1] = SignalMessage(i, "open") /\ 1 < p + 1
          BY <5>1, <5>3
        <5> QED
          BY <1>0, <4>2, <5>1, <5>4 DEF SignalInv, HeardInOrder
      <4> QED
        BY <4>1, <4>2
    <3> QED
      BY <3>2, <3>3, <3>4
  <2> QED
    BY <1>0, <2>1, <2>2, BelievedSteps
<1> QED
  BY <1>0, <1>1, <1>2, AttentiveSteps

(* No step hides an open signal from an attentive dashboard: it is shown,     *)
(* answered, or on its way.                                                   *)
LEMMA NoneMissedStep ==
    ASSUME ShownInv, [Next]_vars
    PROVE  NoneMissed'
<1> SUFFICES ASSUME NEW c \in Clients, Attentive(c)', NEW s \in Symbols, NEW i \in OpenIds(s)',
                    s \in DOMAIN answers'[c] \/ store'[c].seeded,
                    signals'[i].by \notin Clients \ {c}
             PROVE  \/ s \in DOMAIN answers'[c] /\ answers'[c][s] = i
                    \/ i \in DOMAIN store'[c].signals
                    \/ ComesTo(c, SignalMessage(i, "open"))'
  BY DEF NoneMissed
<1>0. /\ StatusInv /\ Bootstrapped /\ Typed /\ CycleInv /\ LinksOK /\ RunSays /\ OneOpen'
  BY OneOpenStep DEF ShownInv, StatusInv, CycleInv
<1>1. i \in Nat /\ i # 0 /\ SignalMessage(i, "open") \in SignalMessages
  <2>1. Typed'
    BY <1>0, TypedStep
  <2>2. signals' \in Seq(SignalRows) /\ i \in DOMAIN signals'
    BY <2>1 DEF Typed, PollsOK, OpenIds
  <2>3. i \in 1..Len(signals') /\ Len(signals') \in Nat
    BY <2>2, LenProperties
  <2> QED
    BY <2>3 DEF SignalMessages, Lives
<1>2. CASE /\ inbox'[c] = <<>> /\ DOMAIN store'[c].signals = {}
           /\ answers'[c] = <<>> /\ ~store'[c].seeded
  <2>1. DOMAIN <<>> = {}
    BY EmptySeq
  <2> QED
    BY <1>2, <2>1
<1>3. ASSUME NEW u \in Symbols, Answered(c, u)
      PROVE  \E j \in Nat : /\ answers'[c] = Put(answers[c], u, j) /\ u \notin DOMAIN answers[c]
                            /\ u = s => j = i
  BY <1>0, <1>1, <1>3 DEF Answered, Asked, OneOpen
<1>4. CASE Attentive(c) /\ socket'[c] = socket[c]
  <2>1. CASE \E u \in Symbols : Answered(c, u) /\ u = s
    <3>1. answers'[c] = Put(answers[c], s, i)
      BY <1>3, <2>1
    <3> QED
      BY <3>1 DEF Put
  <2>2. CASE i \in OpenIds(s) /\ ~(\E u \in Symbols : Answered(c, u) /\ u = s)
    <3>1. signals[i].by \notin Clients \ {c}
      BY <1>0, <2>2, OpenSteps
    <3>2. s \in DOMAIN answers[c] \/ store[c].seeded
      <4>1. CASE Hydrate(c)
        BY <4>1 DEF Hydrate
      <4>2. ASSUME NEW u \in Symbols, Answered(c, u), u # s PROVE s \in DOMAIN answers[c] \/ store[c].seeded
        BY <1>0, <1>3, <2>2, <4>2, SeededSteps DEF Put, Answered
      <4>3. CASE answers'[c] = answers[c] /\ ~Hydrate(c)
        BY <1>0, <4>3, SeededSteps
      <4> QED
        BY <1>0, <2>2, <4>1, <4>2, <4>3, AnswerSteps
    <3>3. \/ s \in DOMAIN answers[c] /\ answers[c][s] = i
          \/ i \in DOMAIN store[c].signals
          \/ ComesTo(c, SignalMessage(i, "open"))
      BY <1>4, <2>2, <3>1, <3>2 DEF ShownInv, NoneMissed
    <3>4. CASE s \in DOMAIN answers[c] /\ answers[c][s] = i
      <4>1. CASE Hydrate(c)
        BY <1>0, <1>1, <3>4, <4>1, SignalsHydrated
      <4>2. ASSUME NEW u \in Symbols, Answered(c, u) PROVE s \in DOMAIN answers'[c] /\ answers'[c][s] = i
        <5>1. PICK j \in Nat : answers'[c] = Put(answers[c], u, j) /\ u \notin DOMAIN answers[c]
          BY <1>3, <4>2
        <5> QED
          BY <3>4, <5>1 DEF Put
      <4> QED
        BY <1>0, <3>4, <4>1, <4>2, AnswerSteps
    <3>5. CASE i \in DOMAIN store[c].signals
      <4>1. CASE Receive(c)
        BY <1>0, <3>5, <4>1, SignalsReceived
      <4>2. CASE Hydrate(c)
        BY <1>0, <3>5, <4>2, SignalsHydrated
      <4> QED
        BY <1>0, <3>5, <4>1, <4>2, InboxSteps DEF InboxQuiet, InboxGrows
    <3>6. CASE ComesTo(c, SignalMessage(i, "open"))
      <4>1. \/ ComesTo(c, SignalMessage(i, "open"))'
            \/ Receive(c) /\ inbox[c][1] = SignalMessage(i, "open")
        BY <1>0, <1>1, <1>4, <3>6, KeepsComing DEF Attentive
      <4>2. Receive(c) /\ inbox[c][1] = SignalMessage(i, "open") => i \in DOMAIN store'[c].signals
        BY <1>0, <1>1, SignalsReceived, NoSignal
      <4> QED
        BY <4>1, <4>2
    <3> QED
      BY <3>3, <3>4, <3>5, <3>6
  <2>3. CASE i \notin OpenIds(s)
    <3>1. \/ polls'[s].news = SignalMessage(i, "open")
          \/ \E d \in Clients : AnswerBuilt(d, s) /\ signals'[i].by = d
      BY <1>0, <2>3, OpenSteps
    <3>2. CASE polls'[s].news = SignalMessage(i, "open")
      BY <3>2 DEF ComesTo
    <3>3. ASSUME AnswerBuilt(c, s) PROVE s \in DOMAIN answers'[c] /\ answers'[c][s] = i
      <4>1. [symbol |-> s, status |-> "open", by |-> c] \in SignalRows
        BY DEF SignalRows, Lives
      <4>2. Len(signals) + 1 \in OpenIds(s)'
        BY <1>0, <3>3, <4>1, TableAppends DEF AnswerBuilt
      <4>3. i = Len(signals) + 1
        BY <1>0, <4>2 DEF OneOpen
      <4>4. Answer(c, s, i) /\ Asked(c, s)
        BY <3>3, <4>3 DEF AnswerBuilt
      <4>5. answers'[c] = Put(answers[c], s, i)
        BY <1>0, <1>1, <4>4, AnswerEffect
      <4> QED
        BY <4>5 DEF Put
    <3> QED
      BY <3>1, <3>2, <3>3
  <2> QED
    BY <2>1, <2>2, <2>3
<1> QED
  BY <1>0, <1>2, <1>4, AttentiveSteps

(* There is no open signal at the start.                                      *)
LEMMA ShownInit == Init => ShownInv
<1> SUFFICES ASSUME Init PROVE ShownInv
  OBVIOUS
<1>1. /\ signals = <<>>
      /\ \A c \in Clients : /\ inbox[c] = <<>> /\ store[c].signals = <<>> /\ answers[c] = <<>>
                            /\ socket[c] = 0 /\ since[c] = 0 /\ ~store[c].seeded
  BY DEF Init, PollInit, ConnectionsInit, EmptyStore
<1>2. DOMAIN <<>> = {}
  BY EmptySeq
<1>3. OneOpen
  BY <1>1, <1>2 DEF OneOpen, OpenIds
<1>4. Bootstrapped
  <2> SUFFICES ASSUME NEW c \in Clients
               PROVE  /\ since[c] <= socket[c]
                      /\ store[c].seeded => answers[c] = <<>>
                      /\ socket[c] = 0 => /\ inbox[c] = <<>>
                                          /\ store[c].seeded \/ DOMAIN store[c].signals = {}
    BY DEF Bootstrapped
  <2> QED
    BY <1>1, <1>2
<1>5. \A c \in Clients : socket[c] # 1
  <2>1. 0 # 1
    OBVIOUS
  <2> QED
    BY <1>1, <2>1
<1> QED
  BY <1>3, <1>4, <1>5, SignalInit, StatusInit DEF ShownInv, Attentive, NoneStale, NoneMissed

(* Every step keeps the invariant of the open signals.                        *)
LEMMA ShownStep == ShownInv /\ [Next]_vars => ShownInv'
BY SignalStep, StatusStep, OneOpenStep, BootstrappedStep, NoneStaleStep, NoneMissedStep
   DEF ShownInv, StatusInv

(* A dashboard whose first socket was registered before its bootstrap         *)
(* requests were answered, and is still connected, shows the open signals of  *)
(* the table, in whatever order the answers and the messages arrived, but for *)
(* those another dashboard's GET created, which are never broadcast.          *)
THEOREM OpenSignalsShown == Spec => []ShowsOpenSignals
<1>1. ShownInv => ShowsOpenSignals
  <2> SUFFICES ASSUME ShownInv, NEW c \in Clients, Linked(c), socket[c] = 1, since[c] = 1, Quiet(c)
               PROVE  LET open == UNION {OpenIds(s) : s \in Symbols} IN
                      /\ OpenShown(c) \subseteq open
                      /\ \A i \in open \ OpenShown(c) : signals[i].by \in Clients \ {c}
    BY DEF ShowsOpenSignals
  <2>0. Typed
    BY DEF ShownInv, StatusInv, CycleInv
  <2>1. /\ Attentive(c) /\ store[c].seeded /\ answers[c] = <<>> /\ DOMAIN answers[c] = {}
    BY EmptySeq DEF Attentive, Quiet, ShownInv, Bootstrapped
  <2>2. \A m \in SignalMessages : ~ComesTo(c, m)
    <3>1. Len(<<>>) = 0 /\ 1..0 = {}
      BY EmptySeq
    <3>2. \A s \in Symbols : s \in Tasks
      BY TasksSplit
    <3> QED
      BY <3>1, <3>2, NoSignal DEF Quiet, ComesTo, SignalMessages
  <2>3. signals \in Seq(SignalRows) /\ DOMAIN signals = 1..Len(signals) /\ Len(signals) \in Nat
    BY <2>0, LenProperties DEF Typed, PollsOK
  <2>4. ASSUME NEW i \in OpenShown(c) PROVE \E s \in Symbols : i \in OpenIds(s)
    <3>1. i \in Nat /\ Believed(c, i)
      BY <2>0, <2>4, PartialIs DEF OpenShown, Believed, Typed, DashboardsOK, Stores
    <3>2. SignalMessage(i, "resolved") \in SignalMessages
      BY <3>1 DEF SignalMessages, Lives
    <3>3. i \in DOMAIN signals /\ ~Over(i)
      BY <2>1, <2>2, <3>1, <3>2 DEF ShownInv, NoneStale
    <3>4. signals[i] \in SignalRows
      BY <2>3, <3>3, ElementOfSeq
    <3> QED
      BY <3>3, <3>4 DEF SignalRows, Lives, Over, OpenIds
  <2>5. ASSUME NEW s \in Symbols, NEW i \in OpenIds(s), i \notin OpenShown(c)
        PROVE  signals[i].by \in Clients \ {c}
    <3>1. i \in Nat /\ SignalMessage(i, "open") \in SignalMessages
      BY <2>3 DEF OpenIds, SignalMessages, Lives
    <3>2. ASSUME i \in DOMAIN store[c].signals PROVE FALSE
      <4>1. store[c].signals[i] \in Lives
        BY <2>0, <3>2, PartialIs DEF Typed, DashboardsOK, Stores
      <4>2. store[c].signals[i] # "resolved"
        BY <3>2 DEF ShownInv, SignalInv, ShownOver, Over, OpenIds
      <4> QED
        BY <2>5, <3>2, <4>1, <4>2 DEF Lives, OpenShown
    <3> QED
      BY <2>1, <2>2, <3>1, <3>2 DEF ShownInv, NoneMissed
  <2> QED
    BY <2>4, <2>5
<1> QED
  BY <1>1, ShownInit, ShownStep, PTL DEF Spec
=============================================================================
