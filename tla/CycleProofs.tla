----------------------------- MODULE CycleProofs ------------------------------
(***************************************************************************)
(* Theorems about AgentCycle, for any depth cap and any size of a round.   *)
(***************************************************************************)
EXTENDS AgentCycle, SequenceTheorems, TLAPS

\* What is awaited, and what the last event says about it: before a cycle is over it
\* has no result, its depth is below the cap, the last event names the phase, and the
\* model is asked only where the rules leave it open.
Position ==
  /\ result = "none" <=> phase # "over"
  /\ phase # "over" =>
       /\ depth < MaxDepth
       /\ trace # <<>>
       /\ trace[Len(trace)] = Ev(CASE phase = "producer"   -> "iteration_start"
                                   [] phase = "joiner"     -> "producer"
                                   [] phase = "controller" -> "joiner", depth)
  /\ phase = "controller" => Rule(acc) = "ask"

Events == [name : EvNames, depth : 0..MaxDepth]

-------------------------------------------------------------------------------
(* Sequences of events.                                                    *)

\* Appending to the right part of a concatenation.
LEMMA ConcatAppend ==
  ASSUME NEW S, NEW u \in Seq(S), NEW v \in Seq(S), NEW e \in S
  PROVE  /\ u \o v \in Seq(S)
         /\ u \o Append(v, e) = Append(u \o v, e)
  <1>1. <<e>> \in Seq(S) OBVIOUS
  <1>2. u \o v \in Seq(S) BY ConcatProperties
  <1>3. Append(v, e) = v \o <<e>> /\ Append(u \o v, e) = (u \o v) \o <<e>>
    BY <1>2, AppendIsConcat
  <1>4. (u \o v) \o <<e>> = u \o (v \o <<e>>) BY <1>1, ConcatAssociative
  <1>5. QED BY <1>2, <1>3, <1>4

\* The same for two events.
LEMMA ConcatAppendTwo ==
  ASSUME NEW S, NEW u \in Seq(S), NEW v \in Seq(S), NEW d \in S, NEW e \in S
  PROVE  u \o Append(Append(v, d), e) = Append(Append(u \o v, d), e)
  <1>1. Append(v, d) \in Seq(S) BY AppendProperties
  <1>2. u \o Append(v, d) = Append(u \o v, d) BY ConcatAppend
  <1>3. u \o Append(Append(v, d), e) = Append(u \o Append(v, d), e)
    BY <1>1, ConcatAppend
  <1>4. QED BY <1>2, <1>3

\* A concatenation with at most two events is that many appends.
LEMMA ConcatFew ==
  ASSUME NEW S, NEW s \in Seq(S), NEW a \in S, NEW b \in S
  PROVE  /\ s \o <<>> = s
         /\ s \o <<a>> = Append(s, a)
         /\ s \o <<a, b>> = Append(Append(s, a), b)
  <1>1. s \o <<>> = s BY ConcatEmptySeq
  <1>2. s \o <<a>> = Append(s, a) BY AppendIsConcat
  <1>3. <<a>> \in Seq(S) OBVIOUS
  <1>4. Append(<<a>>, b) = <<a, b>>
    <2>1. /\ Append(<<a>>, b) \in Seq(S) /\ Len(Append(<<a>>, b)) = 2
          /\ Append(<<a>>, b)[1] = a /\ Append(<<a>>, b)[2] = b
      BY <1>3, AppendProperties
    <2>2. <<a, b>> \in Seq(S) /\ Len(<<a, b>>) = 2 /\ <<a, b>>[1] = a /\ <<a, b>>[2] = b
      OBVIOUS
    <2>3. \A i \in 1..2 : i = 1 \/ i = 2 OBVIOUS
    <2>4. QED BY <2>1, <2>2, <2>3, SeqEqual
  <1>5. s \o Append(<<a>>, b) = Append(s \o <<a>>, b) BY <1>3, ConcatAppend
  <1>6. QED BY <1>1, <1>2, <1>4, <1>5

\* An event that may follow the last one keeps the order.
LEMMA AppendInOrder ==
  ASSUME NEW s \in Seq(Events), NEW e \in Events,
         InOrder(s), s # <<>>,
         s[Len(s)].name \notin {"cycle_aborted", "cycle_complete"},
         Follows(s[Len(s)], e),
         e.depth = MaxDepth => e.name = "cycle_complete"
  PROVE  /\ InOrder(Append(s, e))
         /\ Append(s, e) \in Seq(Events)
         /\ Append(s, e) # <<>>
         /\ Append(s, e)[Len(Append(s, e))] = e
  <1> DEFINE t == Append(s, e)
  <1>1. /\ t \in Seq(Events)
        /\ Len(s) \in Nat
        /\ Len(t) = Len(s) + 1
        /\ \A i \in 1..Len(s) : t[i] = s[i]
        /\ t[Len(s) + 1] = e
    BY AppendProperties, LenProperties
  <1>2. Len(s) > 0 BY EmptySeq
  <1>3. ASSUME NEW i \in 1..(Len(t) - 1)
        PROVE  t[i].name \notin {"cycle_aborted", "cycle_complete"} /\ Follows(t[i], t[i + 1])
    <2>1. CASE i = Len(s)
      <3>1. t[i] = s[Len(s)] /\ t[i + 1] = e BY <1>1, <1>2, <2>1
      <3>2. QED BY <3>1
    <2>2. CASE i # Len(s)
      <3>1. i \in 1..(Len(s) - 1) /\ i \in 1..Len(s) /\ i + 1 \in 1..Len(s) BY <1>1, <1>2, <2>2
      <3>2. t[i] = s[i] /\ t[i + 1] = s[i + 1] BY <1>1, <3>1
      <3>3. QED BY <3>1, <3>2 DEF InOrder
    <2>3. QED BY <2>1, <2>2
  <1>4. ASSUME NEW i \in 1..Len(t), t[i].depth = MaxDepth PROVE t[i].name = "cycle_complete"
    <2>1. CASE i = Len(s) + 1 BY <1>1, <1>4, <2>1
    <2>2. CASE i # Len(s) + 1
      <3>1. i \in 1..Len(s) BY <1>1, <2>2
      <3>2. t[i] = s[i] BY <1>1, <3>1
      <3>3. QED BY <1>4, <3>1, <3>2 DEF InOrder
    <2>3. QED BY <2>1, <2>2
  <1>5. InOrder(t) BY <1>3, <1>4 DEF InOrder
  <1>6. t # <<>> BY <1>1, <1>2, EmptySeq
  <1> HIDE DEF t
  <1>7. t[Len(t)] = e BY <1>1
  <1>8. QED BY <1>1, <1>5, <1>6, <1>7 DEF t

-------------------------------------------------------------------------------
(* What a verdict of the controller does.                                  *)

\* The verdict ends the cycle at the cap or on a stop, and starts a round otherwise.
LEMMA VerdictEffect ==
  ASSUME CycleTypeOK, depth < MaxDepth,
         NEW go \in BOOLEAN, NEW s \in 0..MaxDepth, NEW evs \in Seq(Events),
         Verdict(go, s, evs)
  PROVE  LET c == Ev("controller", depth)
             round == Ev("iteration_start", depth + 1)
             over == Ev("cycle_complete", depth')
         IN
         /\ c \in Events /\ trace \o evs \in Seq(Events) /\ tee \o evs \in Seq(Events)
         /\ decision' = [should_continue |-> go, summary |-> summary]
         /\ summary' = s
         /\ depth' \in 0..MaxDepth
         /\ \/ /\ depth' = depth + 1 /\ depth' < MaxDepth
               /\ round \in Events
               /\ phase' = "producer" /\ result' = result
               /\ trace' = Append(Append(trace \o evs, c), round)
               /\ tee' = Append(Append(tee \o evs, c), round)
            \/ /\ go /\ depth' = depth + 1 /\ depth' = MaxDepth
               /\ over \in Events
               /\ phase' = "over" /\ result' = "complete"
               /\ trace' = Append(Append(trace \o evs, c), over)
               /\ tee' = Append(tee \o evs, c)
            \/ /\ ~go /\ depth' = depth
               /\ over \in Events
               /\ phase' = "over" /\ result' = "complete"
               /\ trace' = Append(Append(trace \o evs, c), over)
               /\ tee' = Append(tee \o evs, c)
  <1> DEFINE c == Ev("controller", depth)
             round == Ev("iteration_start", depth + 1)
             over == Ev("cycle_complete", depth')
  <1>1. /\ trace \in Seq(Events) /\ tee \in Seq(Events) /\ depth \in 0..MaxDepth
        /\ MaxDepth \in Nat
    BY CycleConstants DEF CycleTypeOK, Events
  <1>2. c \in Events BY <1>1 DEF Ev, Events, EvNames, Phases
  <1>3. Append(evs, c) \in Seq(Events) BY <1>2, AppendProperties
  <1>4. \A u \in Seq(Events) :
          /\ u \o evs \in Seq(Events)
          /\ u \o Append(evs, c) = Append(u \o evs, c)
    BY <1>2, ConcatAppend
  <1>5. \A u \in Seq(Events), e \in Events :
          u \o Append(Append(evs, c), e) = Append(Append(u \o evs, c), e)
    <2> SUFFICES ASSUME NEW u \in Seq(Events), NEW e \in Events
                 PROVE  u \o Append(Append(evs, c), e) = Append(Append(u \o evs, c), e)
      OBVIOUS
    <2> HIDE DEF c
    <2> QED BY <1>2, ConcatAppendTwo
  <1>6. depth' = IF go THEN depth + 1 ELSE depth BY DEF Verdict
  <1>7. depth' \in 0..MaxDepth BY <1>1, <1>6
  <1>8. over \in Events BY <1>7 DEF Ev, Events, EvNames
  <1>9. CASE go /\ depth + 1 < MaxDepth
    <2>1. round \in Events BY <1>1, <1>9 DEF Ev, Events, EvNames
    <2>2. /\ phase' = "producer" /\ result' = result
          /\ trace' = trace \o Append(Append(evs, c), round)
          /\ tee' = tee \o Append(Append(evs, c), round)
      BY <1>9 DEF Verdict
    <2>3. /\ trace' = Append(Append(trace \o evs, c), round)
          /\ tee' = Append(Append(tee \o evs, c), round)
      BY <1>1, <1>5, <2>1, <2>2
    <2>4. depth' = depth + 1 /\ depth' < MaxDepth BY <1>6, <1>9
    <2>5. QED BY <1>1, <1>2, <1>4, <1>7, <2>1, <2>2, <2>3, <2>4 DEF Verdict
  <1>10. CASE ~(go /\ depth + 1 < MaxDepth)
    <2>1. End("complete", Append(Append(evs, c), over), Append(evs, c))
      BY <1>10 DEF Verdict
    <2>2. /\ phase' = "over" /\ result' = "complete"
          /\ trace' = trace \o Append(Append(evs, c), over)
          /\ tee' = tee \o Append(evs, c)
      BY <2>1 DEF End
    <2>3. /\ trace' = Append(Append(trace \o evs, c), over)
          /\ tee' = Append(tee \o evs, c)
      BY <1>1, <1>4, <1>5, <1>8, <2>2
    <2>4. (go /\ depth' = depth + 1 /\ depth' = MaxDepth) \/ (~go /\ depth' = depth)
      BY <1>1, <1>6, <1>10
    <2>5. QED BY <1>1, <1>2, <1>4, <1>7, <1>8, <2>2, <2>3, <2>4 DEF Verdict
  <1>11. QED BY <1>9, <1>10

-------------------------------------------------------------------------------
(* One step of each action, in the same terms.                             *)

Consistent == CycleTypeOK /\ Position /\ RoundsInOrder /\ RecordsAgree /\ StopsOnEvidence

\* Facts that every action starts from.
LEMMA Start ==
  ASSUME Consistent, phase # "over"
  PROVE  /\ MaxDepth \in Nat /\ depth \in 0..MaxDepth /\ depth < MaxDepth
         /\ trace \in Seq(Events) /\ trace # <<>> /\ InOrder(trace)
         /\ tee = trace
         /\ result = "none"
         /\ \A n \in EvNames : Ev(n, depth) \in Events
  BY CycleConstants DEF Consistent, CycleTypeOK, Position, RoundsInOrder, RecordsAgree,
     Events, Ev

\* An abort: the two records get the same last event, or one of them does.
LEMMA AbortStep ==
  ASSUME Consistent, phase # "over",
         NEW res \in {"aborted", "raised", "cancelled"},
         NEW f \in {<<>>, <<Ev("cycle_aborted", depth)>>},
         NEW p \in {<<>>, <<Ev("cycle_aborted", depth)>>},
         res = "aborted" => f # <<>> /\ p # <<>>,
         res = "raised" => f = <<>> /\ p # <<>>,
         res = "cancelled" => f # <<>> /\ p = <<>>,
         End(res, f, p), UNCHANGED <<depth, acc, summary, decision>>
  PROVE  Consistent'
  <1> DEFINE a == Ev("cycle_aborted", depth)
  <1>1. /\ trace \in Seq(Events) /\ tee = trace /\ a \in Events /\ trace # <<>>
        /\ InOrder(trace) /\ depth < MaxDepth /\ depth \in 0..MaxDepth /\ MaxDepth \in Nat
    BY Start DEF EvNames
  <1>2. trace \o <<>> = trace /\ trace \o <<a>> = Append(trace, a)
    BY <1>1, ConcatFew
  <1>3. trace[Len(trace)].name \in Phases \cup {"iteration_start"}
        /\ trace[Len(trace)].depth = depth
    BY DEF Consistent, Position, CycleTypeOK, Ev, Phases
  <1>4. Follows(trace[Len(trace)], a)
    BY <1>3 DEF Follows, Ev, Phases
  <1>5. InOrder(Append(trace, a)) /\ Append(trace, a) \in Seq(Events)
    <2>1. a.depth = depth /\ a.depth # MaxDepth BY <1>1 DEF Ev
    <2>2. trace[Len(trace)].name \notin {"cycle_aborted", "cycle_complete"}
      BY <1>3 DEF Phases
    <2> HIDE DEF a
    <2>3. QED BY <1>1, <1>4, <2>1, <2>2, AppendInOrder
  <1>6. /\ phase' = "over" /\ result' = res
        /\ trace' = (IF f = <<>> THEN trace ELSE Append(trace, a))
        /\ tee' = (IF p = <<>> THEN trace ELSE Append(trace, a))
    BY <1>1, <1>2 DEF End
  <1>7. trace' \in Seq(Events) /\ tee' \in Seq(Events) /\ InOrder(trace')
    BY <1>1, <1>5, <1>6
  <1>8. CycleTypeOK' BY <1>6, <1>7 DEF Consistent, CycleTypeOK, Events
  <1>9. Position' BY <1>6 DEF Position
  <1>10. RoundsInOrder' BY <1>7 DEF RoundsInOrder, InOrder, Follows
  <1>11. RecordsAgree'
    <2>1. Ev("cycle_aborted", depth)' = a BY DEF Ev
    <2> HIDE DEF a
    <2>2. QED BY <1>6, <2>1 DEF RecordsAgree
  <1>12. StopsOnEvidence' BY <1>6 DEF StopsOnEvidence
  <1>13. QED BY <1>8, <1>9, <1>10, <1>11, <1>12 DEF Consistent

\* A verdict after evs, which end with the joiner's event of this round.
LEMMA VerdictStep ==
  ASSUME Consistent, phase # "over",
         NEW go \in BOOLEAN, NEW s \in 0..MaxDepth, NEW evs \in Seq(Events),
         Verdict(go, s, evs),
         acc' \in [Classes -> Nat],
         ~go => /\ Useful(acc') > 0
                /\ Useful(acc') >= MinUsefulItems \/ Useful(acc') >= acc'["insufficient"],
         trace \o evs # <<>>, InOrder(trace \o evs),
         (trace \o evs)[Len(trace \o evs)] = Ev("joiner", depth)
  PROVE  Consistent'
  <1> DEFINE c == Ev("controller", depth)
             round == Ev("iteration_start", depth + 1)
             over == Ev("cycle_complete", depth')
             b == trace \o evs
             said == Append(b, c)
  <1>1. /\ CycleTypeOK /\ depth < MaxDepth /\ MaxDepth \in Nat /\ depth \in 0..MaxDepth
        /\ tee = trace /\ result = "none" /\ summary \in 0..MaxDepth
    BY Start DEF Consistent, CycleTypeOK
  <1>2. /\ c \in Events /\ b \in Seq(Events)
        /\ decision' = [should_continue |-> go, summary |-> summary] /\ summary' = s
        /\ depth' \in 0..MaxDepth
        /\ \/ /\ depth' = depth + 1 /\ depth' < MaxDepth /\ round \in Events
              /\ phase' = "producer" /\ result' = result
              /\ trace' = Append(said, round) /\ tee' = Append(said, round)
           \/ /\ go /\ depth' = depth + 1 /\ depth' = MaxDepth /\ over \in Events
              /\ phase' = "over" /\ result' = "complete"
              /\ trace' = Append(said, over) /\ tee' = said
           \/ /\ ~go /\ depth' = depth /\ over \in Events
              /\ phase' = "over" /\ result' = "complete"
              /\ trace' = Append(said, over) /\ tee' = said
    BY <1>1, VerdictEffect
  <1>3. /\ InOrder(said) /\ said \in Seq(Events) /\ said # <<>>
        /\ said[Len(said)] = c
    <2>1. /\ b[Len(b)].name \notin {"cycle_aborted", "cycle_complete"}
          /\ Follows(b[Len(b)], c) /\ c.depth # MaxDepth
      BY <1>1 DEF Ev, Follows
    <2>2. InOrder(b) /\ b # <<>> OBVIOUS
    <2> HIDE DEF b, c
    <2>3. QED BY <1>2, <2>1, <2>2, AppendInOrder
  <1>4. ASSUME NEW e \in Events, Follows(c, e), e.depth = MaxDepth => e.name = "cycle_complete"
        PROVE  /\ InOrder(Append(said, e)) /\ Append(said, e) \in Seq(Events)
               /\ Append(said, e) # <<>>
               /\ Append(said, e)[Len(Append(said, e))] = e
    <2>1. c.name \notin {"cycle_aborted", "cycle_complete"} BY DEF Ev
    <2> HIDE DEF said, c
    <2>2. QED BY <1>3, <1>4, <2>1, AppendInOrder
  <1>5. CASE phase' = "producer"
    <2>1. /\ depth' = depth + 1 /\ depth' < MaxDepth /\ round \in Events /\ result' = "none"
          /\ trace' = Append(said, round) /\ tee' = trace'
      BY <1>1, <1>2, <1>5
    <2>2. Follows(c, round) /\ round.depth # MaxDepth BY <1>1, <2>1 DEF Follows, Ev
    <2>3. round = Ev("iteration_start", depth') BY <2>1 DEF Ev
    <2> HIDE DEF said, c, round
    <2>4. /\ InOrder(trace') /\ trace' \in Seq(Events) /\ trace' # <<>>
          /\ trace'[Len(trace')] = round
      BY <1>4, <2>1, <2>2
    <2>5. CycleTypeOK'
      <3>1. tee' \in Seq(Events) BY <2>1, <2>4
      <3>2. /\ decision' \in [should_continue : BOOLEAN, summary : 0..MaxDepth]
            /\ summary' \in 0..MaxDepth /\ depth' \in 0..MaxDepth
        BY <1>1, <1>2
      <3>3. result' = "none" BY <2>1
      <3>4. trace' \in Seq(Events) /\ acc' \in [Classes -> Nat] BY <2>4
      <3>5. QED BY ONLY <1>5, <3>1, <3>2, <3>3, <3>4 DEF CycleTypeOK, Events, Phases
    <2>6. Position'
      <3>1. Ev("iteration_start", depth)' = round BY <2>3 DEF Ev
      <3>2. trace'[Len(trace')] = Ev("iteration_start", depth)' BY <2>4, <3>1
      <3>3. QED BY <1>5, <2>1, <2>4, <3>2 DEF Position, Ev
    <2>7. RoundsInOrder' BY <2>4 DEF RoundsInOrder, InOrder, Follows
    <2>8. RecordsAgree' BY <2>1 DEF RecordsAgree
    <2>9. StopsOnEvidence' BY <2>1 DEF StopsOnEvidence
    <2>10. QED BY <2>5, <2>6, <2>7, <2>8, <2>9 DEF Consistent
  <1>6. CASE phase' = "over"
    <2>1. /\ over \in Events /\ result' = "complete"
          /\ trace' = Append(said, over) /\ tee' = said
          /\ (go /\ depth' = depth + 1 /\ depth' = MaxDepth) \/ (~go /\ depth' = depth)
      BY <1>2, <1>6
    <2>2. Follows(c, over) /\ over.name = "cycle_complete" BY <2>1 DEF Follows, Ev
    <2>3. over = Ev("cycle_complete", depth)' BY DEF Ev
    <2>4. depth' < MaxDepth => ~go BY <1>1, <2>1
    <2> HIDE DEF said, c, over
    <2>5. InOrder(trace') /\ trace' \in Seq(Events) BY <1>4, <2>1, <2>2
    <2>6. CycleTypeOK'
      <3>1. tee' \in Seq(Events) BY <1>3, <2>1
      <3>2. /\ decision' \in [should_continue : BOOLEAN, summary : 0..MaxDepth]
            /\ summary' \in 0..MaxDepth /\ depth' \in 0..MaxDepth
        BY <1>1, <1>2
      <3>3. result' = "complete" BY <2>1
      <3>4. trace' \in Seq(Events) /\ acc' \in [Classes -> Nat] BY <2>5
      <3>5. QED BY ONLY <1>6, <3>1, <3>2, <3>3, <3>4 DEF CycleTypeOK, Events
    <2>7. Position' BY <1>6, <2>1 DEF Position
    <2>8. RoundsInOrder' BY <2>5 DEF RoundsInOrder, InOrder, Follows
    <2>9. RecordsAgree' BY <2>1, <2>3 DEF RecordsAgree
    <2>10. StopsOnEvidence' BY <2>1, <2>4 DEF StopsOnEvidence
    <2>11. QED BY <2>6, <2>7, <2>8, <2>9, <2>10 DEF Consistent
  <1>7. QED BY <1>2, <1>5, <1>6

\* The evidence behind a stop: of a rule, or of the model where the rules are silent.
LEMMA Evidence ==
  ASSUME NEW a \in [Classes -> Nat], Rule(a) \in {"stop", "ask"}
  PROVE  /\ Useful(a) > 0
         /\ Useful(a) >= MinUsefulItems \/ Useful(a) >= a["insufficient"]
  <1>1. /\ a["local_gem"] \in Nat /\ a["tourist_trap"] \in Nat /\ a["neutral"] \in Nat
        /\ a["insufficient"] \in Nat
    BY DEF Classes
  <1>2. Useful(a) \in Nat /\ Useful(a) = a["local_gem"] + a["tourist_trap"] + a["neutral"]
    BY <1>1 DEF Useful
  <1>3. CASE Rule(a) = "stop"
    <2>1. Useful(a) >= 5
      BY <1>1, <1>2, <1>3 DEF Rule, MinUsefulItems, MinLocalGems, MinTouristTraps
    <2>2. QED BY <1>2, <2>1 DEF MinUsefulItems
  <1>4. CASE Rule(a) = "ask"
    <2>1. Useful(a) + a["insufficient"] # 0 /\ ~(a["insufficient"] > Useful(a))
      BY <1>4 DEF Rule
    <2>2. QED BY <1>1, <1>2, <2>1
  <1>5. QED BY <1>3, <1>4

\* An answer of the producer: one event, or two and the end when it has no candidates.
LEMMA ProducedStep ==
  ASSUME Consistent, NEW found \in BOOLEAN, Produced(found)
  PROVE  Consistent'
  <1> DEFINE e == Ev("producer", depth)
             a == Ev("cycle_aborted", depth)
  <1>1. phase = "producer" BY DEF Produced
  <1>2. /\ trace \in Seq(Events) /\ trace # <<>> /\ InOrder(trace) /\ tee = trace
        /\ e \in Events /\ a \in Events /\ depth < MaxDepth /\ depth \in 0..MaxDepth
        /\ MaxDepth \in Nat /\ result = "none"
    BY <1>1, Start DEF EvNames, Phases
  <1>3. /\ InOrder(Append(trace, e)) /\ Append(trace, e) \in Seq(Events)
        /\ Append(trace, e) # <<>> /\ Append(trace, e)[Len(Append(trace, e))] = e
    <2>1. trace[Len(trace)] = Ev("iteration_start", depth) BY <1>1 DEF Consistent, Position
    <2>2. /\ trace[Len(trace)].name \notin {"cycle_aborted", "cycle_complete"}
          /\ Follows(trace[Len(trace)], e) /\ e.depth # MaxDepth
      BY <1>2, <2>1 DEF Ev, Follows
    <2> HIDE DEF e
    <2>3. QED BY <1>2, <2>2, AppendInOrder
  <1>4. CASE found
    <2>1. /\ phase' = "joiner" /\ trace' = Append(trace, e) /\ tee' = trace'
          /\ UNCHANGED <<depth, acc, summary, decision, result>>
      BY <1>2, <1>4 DEF Produced
    <2>2. Ev("producer", depth)' = e BY <2>1 DEF Ev
    <2> HIDE DEF e
    <2>3. InOrder(trace') /\ trace' \in Seq(Events) /\ trace' # <<>> /\ trace'[Len(trace')] = e
      BY <1>3, <2>1
    <2>4. CycleTypeOK' BY <2>1, <2>3 DEF Consistent, CycleTypeOK, Events, Phases
    <2>5. Position'
      <3>1. trace'[Len(trace')] = Ev("producer", depth)' BY <2>2, <2>3
      <3>2. QED BY <1>2, <2>1, <2>3, <3>1 DEF Position, Ev
    <2>6. RoundsInOrder' BY <2>3 DEF RoundsInOrder, InOrder, Follows
    <2>7. RecordsAgree' BY <1>2, <2>1 DEF RecordsAgree
    <2>8. StopsOnEvidence' BY <1>2, <2>1 DEF StopsOnEvidence
    <2>9. QED BY <2>4, <2>5, <2>6, <2>7, <2>8 DEF Consistent
  <1>5. CASE ~found
    <2>1. /\ phase' = "over" /\ result' = "aborted"
          /\ trace' = trace \o <<e, a>> /\ tee' = trace \o <<e, a>>
          /\ UNCHANGED <<depth, acc, summary, decision>>
      BY <1>2, <1>5 DEF Produced, End
    <2>2. trace' = Append(Append(trace, e), a) /\ tee' = trace'
      BY <1>2, <2>1, ConcatFew
    <2>3. /\ e.name \notin {"cycle_aborted", "cycle_complete"}
          /\ Follows(e, a) /\ a.depth # MaxDepth
      BY <1>2 DEF Ev, Follows
    <2> HIDE DEF e, a
    <2>4. InOrder(trace') /\ trace' \in Seq(Events) BY <1>2, <1>3, <2>2, <2>3, AppendInOrder
    <2>5. CycleTypeOK' BY <2>1, <2>2, <2>4 DEF Consistent, CycleTypeOK, Events
    <2>6. Position' BY <2>1 DEF Position
    <2>7. RoundsInOrder' BY <2>4 DEF RoundsInOrder, InOrder, Follows
    <2>8. RecordsAgree' BY <2>1, <2>2 DEF RecordsAgree
    <2>9. StopsOnEvidence' BY <2>1 DEF StopsOnEvidence
    <2>10. QED BY <2>5, <2>6, <2>7, <2>8, <2>9 DEF Consistent
  <1>6. QED BY <1>4, <1>5

\* An answer of the joiner: the rules decide at once, or the model is asked.
LEMMA JoinedStep ==
  ASSUME Consistent, NEW new \in [Classes -> 0..MaxNew], Joined(new)
  PROVE  Consistent'
  <1> DEFINE a == [c \in Classes |-> acc[c] + new[c]]
             e == Ev("joiner", depth)
  <1>1. phase = "joiner" BY DEF Joined
  <1>2. /\ trace \in Seq(Events) /\ trace # <<>> /\ InOrder(trace) /\ tee = trace
        /\ e \in Events /\ depth < MaxDepth /\ depth \in 0..MaxDepth
        /\ MaxDepth \in Nat /\ result = "none"
    BY <1>1, Start DEF EvNames, Phases
  <1>3. a \in [Classes -> Nat] /\ acc' = a
    <2>1. \A c \in Classes : acc[c] \in Nat /\ new[c] \in Nat
      BY CycleConstants DEF Consistent, CycleTypeOK
    <2>2. QED BY <2>1 DEF Joined
  <1>4. /\ InOrder(Append(trace, e)) /\ Append(trace, e) \in Seq(Events)
        /\ Append(trace, e) # <<>> /\ Append(trace, e)[Len(Append(trace, e))] = e
    <2>1. trace[Len(trace)] = Ev("producer", depth) BY <1>1 DEF Consistent, Position
    <2>2. /\ trace[Len(trace)].name \notin {"cycle_aborted", "cycle_complete"}
          /\ Follows(trace[Len(trace)], e) /\ e.depth # MaxDepth
      BY <1>2, <2>1 DEF Ev, Follows
    <2> HIDE DEF e
    <2>3. QED BY <1>2, <2>2, AppendInOrder
  <1> HIDE DEF a
  <1>5. CASE Rule(a) = "ask"
    <2>1. /\ phase' = "controller" /\ trace' = Append(trace, e) /\ tee' = trace'
          /\ UNCHANGED <<depth, summary, decision, result>>
      BY <1>2, <1>5 DEF Joined, a
    <2>2. Ev("joiner", depth)' = e BY <2>1 DEF Ev
    <2> HIDE DEF e
    <2>3. InOrder(trace') /\ trace' \in Seq(Events) /\ trace' # <<>> /\ trace'[Len(trace')] = e
      BY <1>4, <2>1
    <2>4. CycleTypeOK' BY <1>3, <2>1, <2>3 DEF Consistent, CycleTypeOK, Events, Phases
    <2>5. Position'
      <3>1. trace'[Len(trace')] = Ev("joiner", depth)' BY <2>2, <2>3
      <3>2. Rule(acc)' = "ask" BY <1>3, <1>5 DEF Rule, Useful
      <3>3. QED BY <1>2, <2>1, <2>3, <3>1, <3>2 DEF Position, Ev
    <2>6. RoundsInOrder' BY <2>3 DEF RoundsInOrder, InOrder, Follows
    <2>7. RecordsAgree' BY <1>2, <2>1 DEF RecordsAgree
    <2>8. StopsOnEvidence' BY <1>2, <2>1 DEF StopsOnEvidence
    <2>9. QED BY <2>4, <2>5, <2>6, <2>7, <2>8 DEF Consistent
  <1>6. CASE Rule(a) # "ask"
    <2> DEFINE go == Rule(a) = "continue"
    <2>1. Verdict(go, summary, <<e>>) BY <1>6 DEF Joined, a
    <2>2. go \in BOOLEAN /\ summary \in 0..MaxDepth BY DEF Consistent, CycleTypeOK
    <2>3. <<e>> \in Seq(Events) BY <1>2
    <2>4. trace \o <<e>> = Append(trace, e) BY <1>2, ConcatFew
    <2>5. /\ trace \o <<e>> # <<>> /\ InOrder(trace \o <<e>>)
          /\ (trace \o <<e>>)[Len(trace \o <<e>>)] = Ev("joiner", depth)
      BY <1>4, <2>4
    <2>6. Rule(a) \in {"stop", "continue", "ask"} BY DEF Rule
    <2>7. ~go => /\ Useful(acc') > 0
                 /\ Useful(acc') >= MinUsefulItems \/ Useful(acc') >= acc'["insufficient"]
      BY <1>3, <1>6, <2>6, Evidence
    <2>8. acc' \in [Classes -> Nat] BY <1>3
    <2>9. phase # "over" BY <1>1
    <2> HIDE DEF go, e
    <2>10. QED BY <2>1, <2>2, <2>3, <2>5, <2>7, <2>8, <2>9, VerdictStep
  <1>7. QED BY <1>5, <1>6

\* The model's answer, where the rules were silent.
LEMMA DecidedStep ==
  ASSUME Consistent, NEW go \in BOOLEAN, NEW s \in 0..MaxDepth, Decided(go, s)
  PROVE  Consistent'
  <1>1. phase = "controller" /\ Verdict(go, s, <<>>) /\ acc' = acc BY DEF Decided
  <1>2. trace \in Seq(Events) /\ trace # <<>> /\ InOrder(trace) BY <1>1, Start
  <1>3. trace \o <<>> = trace BY <1>2, ConcatEmptySeq
  <1>4. trace[Len(trace)] = Ev("joiner", depth) /\ Rule(acc) = "ask" /\ acc \in [Classes -> Nat]
    BY <1>1 DEF Consistent, Position, CycleTypeOK
  <1>5. /\ Useful(acc) > 0
        /\ Useful(acc) >= MinUsefulItems \/ Useful(acc) >= acc["insufficient"]
    BY <1>4, Evidence
  <1>6. /\ Useful(acc') > 0
        /\ Useful(acc') >= MinUsefulItems \/ Useful(acc') >= acc'["insufficient"]
    BY <1>1, <1>5 DEF Useful
  <1>7. <<>> \in Seq(Events) BY EmptySeq
  <1>8. phase # "over" BY <1>1
  <1>9. QED BY <1>1, <1>2, <1>3, <1>4, <1>6, <1>7, <1>8, VerdictStep

\* A cycle starts consistent, with empty records.
LEMMA Initially == Init => Consistent
  <1> SUFFICES ASSUME Init PROVE Consistent
    OBVIOUS
  <1> DEFINE e == Ev("iteration_start", 0)
  <1>1. MaxDepth \in Nat /\ MaxDepth > 0 BY CycleConstants
  <1>2. e \in Events BY <1>1 DEF Ev, Events, EvNames
  <1>3. /\ trace = <<e>> /\ tee = <<e>> /\ <<e>> \in Seq(Events)
        /\ Len(<<e>>) = 1 /\ <<e>>[1] = e
    BY <1>2 DEF Init
  <1>4. CycleTypeOK BY <1>1, <1>3 DEF Init, CycleTypeOK, Events, NoItems, Phases
  <1>5. Position
    <2>1. trace[Len(trace)] = Ev("iteration_start", depth) /\ trace # <<>>
      BY <1>3 DEF Init
    <2>2. QED BY <1>1, <2>1 DEF Init, Position
  <1>6. RoundsInOrder
    <2>1. e.depth # MaxDepth BY <1>1 DEF Ev
    <2> HIDE DEF e
    <2>2. QED BY <1>3, <2>1 DEF RoundsInOrder, InOrder
  <1>7. RecordsAgree BY DEF Init, RecordsAgree
  <1>8. StopsOnEvidence BY DEF Init, StopsOnEvidence
  <1>9. QED BY <1>4, <1>5, <1>6, <1>7, <1>8 DEF Consistent

\* Every step keeps a cycle consistent.
LEMMA ConsistentStep == Consistent /\ [Next]_vars => Consistent'
  <1> SUFFICES ASSUME Consistent, [Next]_vars PROVE Consistent'
    OBVIOUS
  <1>1. ASSUME NEW found \in BOOLEAN, Produced(found) PROVE Consistent'
    BY <1>1, ProducedStep
  <1>2. ASSUME NEW new \in [Classes -> 0..MaxNew], Joined(new) PROVE Consistent'
    BY <1>2, JoinedStep
  <1>3. ASSUME NEW go \in BOOLEAN, NEW s \in 0..MaxDepth, Decided(go, s) PROVE Consistent'
    BY <1>3, DecidedStep
  <1>4. CASE TimedOut
    <2>1. <<Ev("cycle_aborted", depth)>> # <<>> OBVIOUS
    <2>2. QED BY <1>4, <2>1, AbortStep DEF TimedOut
  <1>5. CASE Raised
    <2>1. <<Ev("cycle_aborted", depth)>> # <<>> OBVIOUS
    <2>2. QED BY <1>5, <2>1, AbortStep DEF Raised
  <1>6. CASE Cancelled
    <2>1. <<Ev("cycle_aborted", depth)>> # <<>> OBVIOUS
    <2>2. QED BY <1>6, <2>1, AbortStep DEF Cancelled
  <1>7. CASE UNCHANGED vars
    BY <1>7 DEF vars, Consistent, CycleTypeOK, Position, RoundsInOrder, InOrder, Follows,
       RecordsAgree, StopsOnEvidence, Ev, Rule, Useful
  <1>8. QED BY <1>1, <1>2, <1>3, <1>4, <1>5, <1>6, <1>7 DEF Next

\* The inductive invariant holds in every reachable state.
LEMMA AlwaysConsistent == Spec => []Consistent
  BY Initially, ConsistentStep, PTL DEF Spec

\* Every reachable state of a cycle is well typed; in particular its depth never
\* exceeds the cap, whatever cap run_trip chooses.
THEOREM CycleTyped == Spec => []CycleTypeOK
  <1>1. Consistent => CycleTypeOK BY DEF Consistent
  <1>2. QED BY <1>1, AlwaysConsistent, PTL

\* The framework's record of a cycle and the one run_trip publishes and stores agree
\* up to the last event, however a phase ends.
THEOREM RecordsStayEqual == Spec => []RecordsAgree
  <1>1. Consistent => RecordsAgree BY DEF Consistent
  <1>2. QED BY <1>1, AlwaysConsistent, PTL

\* The events of a cycle are in order, for any depth cap.
THEOREM OrderKept == Spec => []RoundsInOrder
  <1>1. Consistent => RoundsInOrder BY DEF Consistent
  <1>2. QED BY <1>1, AlwaysConsistent, PTL

\* A cycle that stops before its depth cap has evidence, for rounds of any size.
THEOREM EvidenceBehindStop == Spec => []StopsOnEvidence
  <1>1. Consistent => StopsOnEvidence BY DEF Consistent
  <1>2. QED BY <1>1, AlwaysConsistent, PTL

-------------------------------------------------------------------------------
(* The contract with the trip runs (CycleContract).                        *)

\* How far a round has come: four events each, of which the last one starts the next
\* round.
Place(p) == IF p = "producer" THEN 1 ELSE IF p = "joiner" THEN 2 ELSE 3

\* While a cycle runs, the number of published events tells its place, and items are
\* those of a joiner that has answered.
Counted ==
  phase # "over" =>
    /\ Len(tee) = 4 * depth + Place(phase)
    /\ acc # NoItems => depth > 0 \/ phase = "controller"

\* Appending counts.
LEMMA AppendLength ==
  ASSUME NEW S, NEW s \in Seq(S), NEW e
  PROVE  Len(Append(s, e)) = Len(s) + 1 /\ Len(s) \in Nat
  BY LenProperties

\* A round is four events.
LEMMA WholeRounds ==
  ASSUME NEW d \in Nat, NEW m \in Nat, d < m
  PROVE  (4 * d + 4) % 4 = 0 /\ 4 * d + 4 <= 4 * m
  <1>1. 4 * d + 4 <= 4 * m OBVIOUS
  <1>2. (4 * d + 4) % 4 = 0 OBVIOUS
  <1>3. QED BY <1>1, <1>2

\* Every step keeps the count and is one that the contract allows.
LEMMA CountedStep ==
  ASSUME Consistent, Counted, [Next]_vars
  PROVE  Counted' /\ [Contract!Next]_Contract!cvars
  <1> DEFINE Good == Counted' /\ Contract!Next
  <1>1. ASSUME phase # "over"
        PROVE  /\ MaxDepth \in Nat /\ depth \in Nat /\ depth < MaxDepth
               /\ tee \in Seq(Events) /\ Len(tee) \in Nat
               /\ result = "none"
               /\ Len(tee) = 4 * depth + Place(phase)
               /\ acc # NoItems => depth > 0 \/ phase = "controller"
               /\ phase \in Phases
               /\ acc \in [Classes -> Nat]
    BY <1>1, Start, LenProperties DEF Counted, Consistent, CycleTypeOK
  \* The cycle ends early: any record of it counts one event for the end, or none.
  <1>2. ASSUME phase # "over", UNCHANGED <<depth, acc>>, phase' = "over",
               result' \in {"aborted", "raised"}, Len(tee') = Len(tee) + 1
        PROVE  Good
    <2>1. Counted' BY <1>2 DEF Counted
    <2>2. Saved' # NoItems => Len(tee) >= 3
      BY <1>1, <1>2 DEF Saved, Place, NoItems, Phases
    <2>3. Contract!Abort
      BY <1>1, <1>2, <2>2 DEF Contract!Abort, NoItems
    <2>4. QED BY <2>1, <2>3 DEF Contract!Next
  <1>3. ASSUME phase # "over", NEW n \in 1..3,
               phase' \in Phases, result' = result, Len(tee') = Len(tee) + n,
               depth' \in Nat, depth' < MaxDepth,
               Len(tee') = 4 * depth' + Place(phase'),
               acc' # NoItems => depth' > 0 \/ phase' = "controller"
        PROVE  Good
    <2>1. Counted' BY <1>3 DEF Counted, NoItems
    <2>2. Len(tee') < 4 * MaxDepth
      BY <1>1, <1>3 DEF Place, Phases
    <2>3. Contract!Progress
      BY <1>1, <1>3, <2>2 DEF Contract!Progress
    <2>4. QED BY <2>1, <2>3 DEF Contract!Next
  <1>4. ASSUME phase # "over", NEW n \in 1..2,
               phase' = "over", result' = "complete", Len(tee') = Len(tee) + n,
               Len(tee') = 4 * depth + 4
        PROVE  Good
    <2>1. Counted' BY <1>4 DEF Counted
    <2>2. Len(tee') % 4 = 0 /\ Len(tee') <= 4 * MaxDepth
      <3>1. Len(tee') = 4 * depth + 4 /\ depth \in Nat /\ MaxDepth \in Nat /\ depth < MaxDepth
        BY <1>1, <1>4
      <3>2. QED BY <3>1, WholeRounds
    <2>3. Contract!Complete
      BY <1>1, <1>4, <2>2 DEF Contract!Complete
    <2>4. QED BY <2>1, <2>3 DEF Contract!Next
  <1>5. ASSUME NEW found \in BOOLEAN, Produced(found) PROVE Good
    <2> DEFINE e == Ev("producer", depth)
               a == Ev("cycle_aborted", depth)
    <2>1. phase = "producer" /\ UNCHANGED <<depth, acc>> BY <1>5 DEF Produced
    <2>2. e \in Events /\ a \in Events BY <2>1, Start DEF EvNames, Phases
    <2>3. CASE found
      <3>1. phase' = "joiner" /\ tee' = Append(tee, e) /\ result' = result
        BY <1>5, <2>3 DEF Produced
      <3>2. Len(tee') = Len(tee) + 1 BY <1>1, <2>1, <3>1, AppendLength
      <3>3. Len(tee') = 4 * depth' + Place(phase')
        <4>1. Place(phase') = 2 BY <3>1 DEF Place
        <4>2. Len(tee) = 4 * depth + 1 /\ depth \in Nat BY <1>1, <2>1 DEF Place
        <4>3. QED BY <2>1, <3>2, <4>1, <4>2
      <3>4. QED BY <1>1, <1>3, <2>1, <3>1, <3>2, <3>3 DEF Phases
    <2>4. CASE ~found
      <3>1. /\ phase' = "over" /\ result' = "aborted" /\ tee' = tee \o <<e, a>>
        BY <1>5, <2>4 DEF Produced, End
      <3>2. Len(tee') = Len(tee) + 2
        <4>1. tee \o <<e, a>> = Append(Append(tee, e), a) BY <1>1, <2>1, <2>2, ConcatFew
        <4>2. Append(tee, e) \in Seq(Events) BY <1>1, <2>1, <2>2, AppendProperties
        <4>3. Len(Append(Append(tee, e), a)) = Len(tee) + 2
          BY <1>1, <2>1, <4>2, AppendLength
        <4>4. QED BY <3>1, <4>1, <4>3
      <3>3. Counted' BY <3>1 DEF Counted
      <3>4. acc = NoItems \/ Len(tee) >= 3
        BY <1>1, <2>1 DEF Place
      <3>5. Saved' # NoItems => Len(tee) >= 3
        BY <2>1, <3>1, <3>4 DEF Saved, NoItems
      <3>6. Contract!Abort
        BY <1>1, <2>1, <3>1, <3>2, <3>5 DEF Contract!Abort, NoItems
      <3>7. QED BY <3>3, <3>6 DEF Contract!Next
    <2>5. QED BY <2>3, <2>4
  \* A verdict, after the events evs that complete the round but for its own.
  <1>6. ASSUME NEW go \in BOOLEAN, NEW s \in 0..MaxDepth, NEW evs \in Seq(Events),
               phase # "over", Verdict(go, s, evs),
               Len(tee \o evs) = 4 * depth + 3, Len(tee \o evs) - Len(tee) \in {0, 1}
        PROVE  Good
    <2> DEFINE c == Ev("controller", depth)
               round == Ev("iteration_start", depth + 1)
               b == tee \o evs
               k == Len(b) - Len(tee)
    <2>1. /\ c \in Events /\ b \in Seq(Events)
          /\ \/ /\ depth' = depth + 1 /\ depth' < MaxDepth
                /\ phase' = "producer" /\ result' = result
                /\ tee' = Append(Append(b, c), round)
             \/ /\ phase' = "over" /\ result' = "complete"
                /\ tee' = Append(b, c)
      <3>1. CycleTypeOK /\ depth < MaxDepth BY <1>1, <1>6 DEF Consistent
      <3>2. QED BY <1>6, <3>1, VerdictEffect
    <2>2. Append(b, c) \in Seq(Events) BY <2>1, AppendProperties
    <2>3. Len(Append(b, c)) = Len(b) + 1 /\ Len(b) \in Nat BY <2>1, AppendLength
    <2>4. Len(Append(Append(b, c), round)) = Len(b) + 2 BY <2>2, <2>3, AppendLength
    <2>5. Len(b) = 4 * depth + 3 /\ k \in {0, 1} BY <1>6
    <2> HIDE DEF b, c, round
    <2>6. CASE phase' = "producer"
      <3>1. depth' = depth + 1 /\ depth' < MaxDepth /\ result' = result
            /\ Len(tee') = Len(b) + 2
        BY <2>1, <2>4, <2>6
      <3>2. Len(tee') = Len(tee) + (k + 2) /\ k + 2 \in 1..3
        <4>1. Len(tee) \in Nat /\ Len(b) \in Nat /\ k \in {0, 1} BY <1>1, <1>6, <2>3, <2>5
        <4>2. QED BY <3>1, <4>1
      <3>3. Len(tee') = 4 * depth' + Place(phase')
        <4>1. Place(phase') = 1 BY <2>6 DEF Place
        <4>2. Len(b) = 4 * depth + 3 /\ depth \in Nat BY <1>1, <1>6, <2>5
        <4>3. QED BY <3>1, <4>1, <4>2
      <3>4. depth' \in Nat /\ depth' > 0 BY <1>1, <1>6, <3>1
      <3> HIDE DEF k
      <3>5. QED BY <1>3, <1>6, <2>6, <3>1, <3>2, <3>3, <3>4 DEF Phases
    <2>7. CASE phase' = "over"
      <3>1. result' = "complete" /\ Len(tee') = Len(b) + 1
        BY <2>1, <2>3, <2>7
      <3>2. Len(tee') = Len(tee) + (k + 1) /\ k + 1 \in 1..2
        <4>1. Len(tee) \in Nat /\ Len(b) \in Nat /\ k \in {0, 1} BY <1>1, <1>6, <2>3, <2>5
        <4>2. QED BY <3>1, <4>1
      <3>3. Len(tee') = 4 * depth + 4 BY <1>1, <1>6, <2>5, <3>1
      <3> HIDE DEF k
      <3>4. QED BY <1>4, <1>6, <2>7, <3>1, <3>2, <3>3
    <2>8. QED BY <2>1, <2>6, <2>7
  <1>7. ASSUME NEW new \in [Classes -> 0..MaxNew], Joined(new) PROVE Good
    <2> DEFINE a == [c \in Classes |-> acc[c] + new[c]]
               e == Ev("joiner", depth)
    <2>1. phase = "joiner" BY <1>7 DEF Joined
    <2>2. e \in Events BY <2>1, Start DEF EvNames, Phases
    <2>3. Len(tee) = 4 * depth + 2 BY <1>1, <2>1 DEF Place
    <2>4. Len(Append(tee, e)) = Len(tee) + 1 BY <1>1, <2>1, AppendLength
    <2>5. CASE Rule(a) = "ask"
      <3>1. phase' = "controller" /\ tee' = Append(tee, e)
            /\ UNCHANGED <<depth, result>>
        BY <1>7, <2>5 DEF Joined
      <3>2. Len(tee') = 4 * depth' + Place(phase')
        BY <1>1, <2>1, <2>3, <2>4, <3>1 DEF Place
      <3>3. QED BY <1>1, <1>3, <2>1, <2>4, <3>1, <3>2 DEF Phases
    <2>6. CASE Rule(a) # "ask"
      <3> DEFINE go == Rule(a) = "continue"
      <3>1. Verdict(go, summary, <<e>>) BY <1>7, <2>6 DEF Joined
      <3>2. go \in BOOLEAN /\ summary \in 0..MaxDepth BY DEF Consistent, CycleTypeOK
      <3>3. <<e>> \in Seq(Events) BY <2>2
      <3>4. tee \o <<e>> = Append(tee, e) BY <1>1, <2>1, <2>2, ConcatFew
      <3>5. Len(tee \o <<e>>) = 4 * depth + 3 /\ Len(tee \o <<e>>) - Len(tee) \in {0, 1}
        BY <1>1, <2>1, <2>3, <2>4, <3>4
      <3>6. phase # "over" BY <2>1
      <3> HIDE DEF go, e
      <3>7. QED BY <1>6, <3>1, <3>2, <3>3, <3>5, <3>6
    <2>7. QED BY <2>5, <2>6
  <1>8. ASSUME NEW go \in BOOLEAN, NEW s \in 0..MaxDepth, Decided(go, s) PROVE Good
    <2>1. phase = "controller" /\ Verdict(go, s, <<>>) BY <1>8 DEF Decided
    <2>2. tee \o <<>> = tee BY <1>1, <2>1, ConcatEmptySeq
    <2>3. Len(tee) = 4 * depth + 3 BY <1>1, <2>1 DEF Place
    <2>4. Len(tee \o <<>>) = 4 * depth + 3 /\ Len(tee \o <<>>) - Len(tee) \in {0, 1}
      BY <1>1, <2>1, <2>2, <2>3
    <2>5. <<>> \in Seq(Events) /\ phase # "over" BY <2>1, EmptySeq
    <2>6. QED BY <1>6, <2>1, <2>4, <2>5
  \* An end that the stream is told of with one event.
  <1>9. ASSUME TimedOut \/ Raised PROVE Good
    <2> DEFINE a == Ev("cycle_aborted", depth)
    <2>1. /\ phase # "over" /\ phase' = "over" /\ UNCHANGED <<depth, acc>>
          /\ result' \in {"aborted", "raised"} /\ tee' = tee \o <<a>>
      BY <1>9 DEF TimedOut, Raised, End
    <2>2. a \in Events BY <2>1, Start DEF EvNames
    <2>3. tee' = Append(tee, a) BY <1>1, <2>1, <2>2, ConcatFew
    <2>4. Len(tee') = Len(tee) + 1 BY <1>1, <2>1, <2>3, AppendLength
    <2>5. QED BY <1>2, <2>1, <2>4
  <1>10. ASSUME Cancelled PROVE Good
    <2>1. /\ phase # "over" /\ phase' = "over" /\ result' = "cancelled"
          /\ tee' = tee \o <<>>
      BY <1>10 DEF Cancelled, End
    <2>2. tee' = tee BY <1>1, <2>1, ConcatEmptySeq
    <2>3. Counted' BY <2>1 DEF Counted
    <2>4. Contract!Lose
      BY <1>1, <2>1, <2>2 DEF Contract!Lose
    <2>5. QED BY <2>3, <2>4 DEF Contract!Next
  <1>11. CASE UNCHANGED vars
    <2>1. Counted' BY <1>11 DEF vars, Counted, Place, NoItems
    <2>2. UNCHANGED Contract!cvars BY <1>11 DEF vars, Contract!cvars, Saved, NoItems
    <2>3. QED BY <2>1, <2>2
  <1>12. QED BY <1>5, <1>7, <1>8, <1>9, <1>10, <1>11 DEF Next

\* The first round has been announced, with the first event.
LEMMA CountedInit == Init => Counted /\ Contract!Init
  <1> SUFFICES ASSUME Init PROVE Counted /\ Contract!Init
    OBVIOUS
  <1>1. Len(tee) = 1 /\ phase = "producer" /\ depth = 0 /\ acc = NoItems /\ result = "none"
    BY DEF Init
  <1>2. Counted BY <1>1 DEF Counted, Place
  <1>3. Contract!Init BY <1>1 DEF Contract!Init
  <1>4. QED BY <1>2, <1>3

\* A cycle keeps the promise that the trip runs build on: at most MaxDepth rounds of
\* four progress events, a result only after whole rounds, items only after a joiner
\* has answered, and nothing once it is over.
THEOREM CycleKeepsContract == Spec => ImplementsContract
  <1>1. Consistent /\ Counted /\ [Next]_vars => Counted' /\ [Contract!Next]_Contract!cvars
    BY CountedStep
  <1>2. QED BY AlwaysConsistent, CountedInit, <1>1, PTL
    DEF Spec, ImplementsContract, Contract!Spec
===============================================================================
