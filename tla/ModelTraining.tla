---------------------------- MODULE ModelTraining ----------------------------
(* python -m app.ml.train writes one model file per symbol and timeframe;     *)
(* the serving process reads them, lazily and once, in MLStrategy, or votes   *)
(* by rule.  The two processes share nothing but the files.                   *)
EXTENDS Prediction, SequencesExt

CONSTANTS
    Pairs,             \* sequence of records [symbol, timeframe]
    TrainingWindow,    \* CANDLE_WINDOW, of the training rows
    MinExamples,       \* _MIN_TRAINING_EXAMPLES
    TrainingHistories, \* what the provider may answer to the trainer
    LiveWindows,       \* candle windows a prediction may be asked for
    Probabilities,     \* of "up", in percent, from a model of both classes
    Strategies,        \* settings.prediction_strategy
    NoModel, Torn, Unread \* of a file and of a cache entry

ASSUME TrainingAssumption ==
    /\ MinExamples \in Nat \ {0} /\ TrainingWindow \in Nat
    /\ \A h \in TrainingHistories : h \in Seq(Range(h))

(* A pair is a symbol and a timeframe and nothing else.                       *)
ASSUME PairsAssumption ==
    /\ Pairs \in Seq(Range(Pairs)) /\ Pairs # <<>>
    /\ \A p \in Range(Pairs) : p = [symbol |-> p.symbol, timeframe |-> p.timeframe]

VARIABLES
    plan,      \* the pairs still to train, the first one in work
    examples,  \* its training examples
    stage,     \* "fetch", "fitted", "writing" its file, "dead"
    disk,      \* the model files
    strategy,
    cache,     \* MLStrategy._models
    answer     \* the latest prediction

tvars == <<plan, examples, stage, disk, strategy, cache, answer>>

PairSet == Range(Pairs)

PathOf(pair) == <<pair.symbol, pair.timeframe>>

NoAnswer == [pair |-> Pairs[1], features |-> {}, call |-> Call("neutral", 0), model |-> Unread]

TrainInit ==
    /\ plan = Pairs /\ examples = <<>> /\ stage = "fetch"
    /\ disk = [path \in {PathOf(p) : p \in PairSet} |-> NoModel]
    /\ strategy \in Strategies
    /\ cache = [p \in PairSet |-> Unread]
    /\ answer = NoAnswer

(* build_training_examples: every candle behind a window with all indicators, *)
(* labelled by whether it closed higher than the window.  The rows are        *)
(* numbered by their candles, whose order is theirs.                          *)
Examples(candles) ==
    LET window(i) == SubSeq(candles, i - TrainingWindow, i - 1)
    IN  [i \in {i \in (TrainingWindow + 1)..Len(candles) : HasVector(FeatureSet(window(i)))} |->
            candles[i].close > candles[i - 1].close]

(* fetch_history and the examples; too few of them skip the pair.             *)
FetchExamples ==
    /\ stage = "fetch" /\ plan # <<>>
    /\ \E candles \in TrainingHistories :
          IF Cardinality(DOMAIN Examples(candles)) < MinExamples
          THEN plan' = Tail(plan) /\ UNCHANGED <<examples, stage>>
          ELSE examples' = Examples(candles) /\ stage' = "fitted" /\ UNCHANGED plan
    /\ UNCHANGED <<disk, strategy, cache, answer>>

(* joblib.dump opens, and so empties, the file it is about to write.          *)
DumpStart ==
    /\ stage = "fitted"
    /\ stage' = "writing"
    /\ disk' = [disk EXCEPT ![PathOf(plan[1])] = Torn]
    /\ UNCHANGED <<plan, examples, strategy, cache, answer>>

(* How many rows come before one.                                             *)
Rank(rows, i) == Cardinality({j \in DOMAIN rows : j < i})

(* Variant: the rows are dealt out, every fifth to the holdout.               *)
TrainingRows_Dealt(rows) == {i \in DOMAIN rows : Rank(rows, i) % 5 # 0}

(* The first 80 percent.                                                      *)
TrainingRows(rows) == {i \in DOMAIN rows : Rank(rows, i) < (4 * Cardinality(DOMAIN rows)) \div 5}

Model(pair, rows) ==
    [pair |-> pair,
     labels |-> {rows[i] : i \in TrainingRows(rows)},
     train |-> TrainingRows(rows),
     holdout |-> DOMAIN rows \ TrainingRows(rows)]

DumpEnd ==
    /\ stage = "writing"
    /\ disk' = [disk EXCEPT ![PathOf(plan[1])] = Model(plan[1], examples)]
    /\ plan' = Tail(plan) /\ examples' = <<>> /\ stage' = "fetch"
    /\ UNCHANGED <<strategy, cache, answer>>

(* A failed fetch, or an interruption anywhere.                               *)
TrainingDies ==
    /\ stage # "dead" /\ plan # <<>>
    /\ stage' = "dead"
    /\ UNCHANGED <<plan, examples, disk, strategy, cache, answer>>

(* Variant: whatever the file holds is taken for a model.                     *)
Load_Unguarded(path) == disk[path]

(* _load_from_disk: a file that cannot be read is as good as none.            *)
Load(path) == IF disk[path] = Torn THEN NoModel ELSE disk[path]

(* _load_model: once per pair, the lack of a model included.                  *)
Known(pair) == IF cache[pair] = Unread THEN Load(PathOf(pair)) ELSE cache[pair]

(* _extract_up_probability: a model of one class knows no other answer.       *)
UpProbabilities(model) ==
    IF TRUE \notin model.labels THEN {50} ELSE IF FALSE \notin model.labels THEN {100} ELSE Probabilities

(* MLStrategy.evaluate *)
MlCalls(model, f) ==
    IF model = NoModel \/ ~HasVector(f) THEN {Call("neutral", 0)}
    ELSE {FromProbability(up) : up \in UpProbabilities(model)}

(* PredictionEngine.run with the strategy of create_strategy.                 *)
Evaluate ==
    /\ \E pair \in PairSet, w \in LiveWindows :
          LET f == FeatureSet(w)
          IN  IF strategy = "rule_based"
              THEN /\ answer' = [pair |-> pair, features |-> {f}, call |-> RuleBased(f), model |-> Unread]
                   /\ UNCHANGED cache
              ELSE /\ cache' = [cache EXCEPT ![pair] = Known(pair)]
                   /\ \E call \in MlCalls(Known(pair), f) :
                         answer' = [pair |-> pair, features |-> {f}, call |-> call, model |-> Known(pair)]
    /\ UNCHANGED <<plan, examples, stage, disk, strategy>>

ServingRestart ==
    /\ cache' = [p \in PairSet |-> Unread]
    /\ answer' = NoAnswer
    /\ UNCHANGED <<plan, examples, stage, disk, strategy>>

TrainNext ==
    \/ FetchExamples \/ DumpStart \/ DumpEnd \/ TrainingDies
    \/ Evaluate \/ ServingRestart
-----------------------------------------------------------------------------
(* A prediction is sure of itself only on grounds.  By rule: full confidence  *)
(* takes the structure's vote, and no indicator that is there may be on the   *)
(* other side or undecided.  By model: confidence takes every indicator that  *)
(* makes the vector, a whole model file, and a model that has seen a rise.    *)
ConfidenceEarned ==
    \A f \in answer.features :
        /\ strategy = "rule_based" /\ answer.call.confidence = 100
              => /\ f.structure = answer.call.direction
                 /\ \E side \in {1, -1} :
                       /\ Sign(StructureVote(f)) = side
                       /\ f.trend \union f.rsi \union f.momentum \subseteq {side}
        /\ strategy = "ml" /\ answer.call.confidence > 0
              => HasVector(f) /\ TRUE \in answer.model.labels

(* What is served for a pair was trained on that pair and written to its end: *)
(* no interruption of the trainer, and no prediction asked for while it       *)
(* writes, puts half a file or another pair's model behind an answer.         *)
ServedWhole ==
    \A p \in PairSet : cache[p] \notin {Unread, NoModel} => cache[p] # Torn /\ cache[p].pair = p

(* The holdout is later than the training: no row the model was fitted to is  *)
(* labelled by a candle the holdout's windows have not reached, so that the   *)
(* accuracy printed is one on candles never seen.                             *)
HoldoutUnseen ==
    \A path \in DOMAIN disk : disk[path] \notin {NoModel, Torn} =>
        /\ disk[path].holdout # {}
        /\ \A i \in disk[path].train, j \in disk[path].holdout : i < j
=============================================================================
