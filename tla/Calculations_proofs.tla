------------------------- MODULE Calculations_proofs -------------------------
(***************************************************************************)
(* Proofs about Calculations: the cells of a study and of a matrix, for    *)
(* any lists they are made from, and the weight of a memory of any age.    *)
(***************************************************************************)
EXTENDS Calculations, FiniteSetTheorems, TLAPS

(***************************************************************************)
(* The cells a phase may offer.  A cell of phase 5 is fixed by its memory  *)
(* type and its reranker; the ranking weight of a decay by the phase.      *)
(***************************************************************************)
Literals ==
  {"phase1", "phase2", "phase3", "phase4", "phase4b", "phase5", "bm25", "bm25l", "recency", "semantic",
   "colbert", "adaptive", "hybrid", "llm_rerank", "none", "periodic", "exponential",
   "logarithmic", "linear", "tiered", "all-MiniLM-L6-v2", "sentence-transformers", "ollama"}
Names == STRING \cup Literals     \* the provers do not know that a literal is a STRING
Decays == [policy : Names, lambda : Nat, alpha : Nat, floor : Nat]
PhaseDecays(phase) ==
  {d \in Decays :
     /\ d.policy # "periodic"
     /\ d.policy = "none" => d = NoDecay
     /\ d.policy # "none" => d.alpha = (IF phase \in {"phase4", "phase4b"} THEN 50 ELSE 0)}
StudyCells ==
  {c \in [phase : Names, mem : Names, strategy : Names, decay : Decays, model : Names,
          backend : Names, weight : Nat, reranker : Names] :
     /\ c.decay \in PhaseDecays(c.phase)
     /\ c.phase = "phase5" =>
         /\ c.strategy = ControlStrategy(c.reranker)
         /\ c.decay = DefaultDecay /\ c.model = DefaultModel /\ c.backend = Local
         /\ c.weight = (IF c.reranker = "none" THEN 100 ELSE 0)}

LEMMA DivisionBounds ==
  ASSUME NEW a \in Nat, NEW b \in Nat, NEW n \in Nat, n < a * b
  PROVE  /\ b > 0
         /\ n \div b \in Nat /\ n \div b < a
         /\ n % b \in 0..(b - 1)
         /\ n = b * (n \div b) + (n % b)
<1>1. b > 0
  <2>1. ASSUME b = 0 PROVE FALSE
    <3>1. a * b = 0
      BY <2>1
    <3> QED BY <3>1
  <2> QED BY <2>1
<1> DEFINE q == n \div b
           r == n % b
<1>2. q \in Int /\ r \in 0..(b - 1) /\ n = b * q + r
  BY <1>1
<1> HIDE DEF q, r
<1>3. q \in Nat
  <2>1. ASSUME q < 0 PROVE FALSE
    <3>1. b * q <= b * (-1)
      BY <1>1, <1>2, <2>1
    <3> QED BY <1>2, <3>1
  <2> QED BY <1>2, <2>1
<1>4. q < a
  <2>1. ASSUME q >= a PROVE FALSE
    <3>1. b * q >= a * b
      BY <1>1, <1>2, <2>1
    <3> QED BY <1>2, <3>1
  <2> QED BY <1>2, <2>1
<1> QED BY <1>1, <1>2, <1>3, <1>4 DEF q, r

(* The two indices of a cell made by nested loops.                         *)
LEMMA LoopIndices ==
  ASSUME NEW S, NEW T, NEW A \in Seq(S), NEW B \in Seq(T), NEW i \in 1..(Len(A) * Len(B))
  PROVE  /\ A[((i - 1) \div Len(B)) + 1] \in S
         /\ B[((i - 1) % Len(B)) + 1] \in T
<1>1. Len(A) \in Nat /\ Len(B) \in Nat
  OBVIOUS
<1>2. ((i - 1) \div Len(B)) + 1 \in 1..Len(A) /\ ((i - 1) % Len(B)) + 1 \in 1..Len(B)
  <2>1. i - 1 \in Nat /\ i - 1 < Len(A) * Len(B)
    BY <1>1
  <2> DEFINE n == i - 1
             b == Len(B)
  <2>2. n \in Nat /\ b \in Nat /\ n < Len(A) * b
    BY <1>1, <2>1
  <2> HIDE DEF n, b
  <2>3. n \div b \in Nat /\ n \div b < Len(A) /\ n % b \in 0..(b - 1)
    BY <1>1, <2>2, DivisionBounds
  <2>4. (n \div b) + 1 \in 1..Len(A) /\ (n % b) + 1 \in 1..b
    BY <1>1, <2>2, <2>3
  <2> QED BY <2>4 DEF n, b
<1> QED BY <1>2

(***************************************************************************)
(* The lists of the phases.                                                *)
(***************************************************************************)
LEMMA DecaysTyped ==
  ASSUME NEW p \in Names, NEW l \in Nat, NEW x \in Nat, NEW f \in Nat
  PROVE  Decay(p, l, x, f) \in Decays
BY DEF Decay, Decays

LEMMA NamedDecays ==
  /\ NoDecay \in Decays /\ DefaultDecay \in Decays
  /\ \A phase : NoDecay \in PhaseDecays(phase)
  /\ \A phase : phase \notin {"phase4", "phase4b"} => DefaultDecay \in PhaseDecays(phase)
<1>1. "none" \in Names /\ "exponential" \in Names
  BY DEF Names, Literals
<1>2. NoDecay \in Decays /\ DefaultDecay \in Decays
  BY <1>1, DecaysTyped DEF NoDecay, DefaultDecay, DefaultFloor
<1>3. NoDecay.policy = "none"
  BY DEF NoDecay, Decay
<1>4. DefaultDecay.policy = "exponential" /\ DefaultDecay.alpha = 0
  BY DEF DefaultDecay, Decay
<1> QED BY <1>2, <1>3, <1>4 DEF PhaseDecays

LEMMA SweptDecays ==
  ASSUME NEW p \in Names, p \notin {"none", "periodic"}, NEW l \in Nat, NEW f \in Nat,
         NEW phase \in {"phase4", "phase4b"}
  PROVE  Decay(p, l, 50, f) \in PhaseDecays(phase)
<1> DEFINE d == Decay(p, l, 50, f)
<1>1. d \in Decays /\ d.policy = p /\ d.alpha = 50
  BY DecaysTyped DEF Decay
<1> HIDE DEF d
<1>2. d \in PhaseDecays(phase)
  BY <1>1 DEF PhaseDecays
<1> QED BY <1>2 DEF d

LEMMA ThreeRows ==
  ASSUME NEW S, NEW a \in S, NEW b \in S, NEW c \in S
  PROVE  <<a, b, c>> \in Seq(S)
OBVIOUS

LEMMA CellTyped ==
  ASSUME NEW phase \in Names, NEW mem \in Names, NEW strategy \in Names,
         NEW decay \in PhaseDecays(phase), NEW model \in Names, NEW backend \in Names, NEW weight \in Nat, NEW reranker \in Names,
         phase # "phase5"
  PROVE  StudyCell(phase, mem, strategy, decay, model, backend, weight, reranker) \in StudyCells
<1> DEFINE c == StudyCell(phase, mem, strategy, decay, model, backend, weight, reranker)
<1>1. c \in [phase : Names, mem : Names, strategy : Names, decay : Decays, model : Names,
             backend : Names, weight : Nat, reranker : Names]
  BY DEF StudyCell, PhaseDecays
<1>2. c.phase # "phase5" /\ c.decay \in PhaseDecays(c.phase)
  BY DEF StudyCell
<1> HIDE DEF c
<1>3. c \in StudyCells
  BY <1>1, <1>2 DEF StudyCells
<1> QED BY <1>3 DEF c

LEMMA BaselinesTyped ==
  ASSUME NEW mems \in Seq(Names)
  PROVE  Baselines(mems) \in Seq(StudyCells)
<1> DEFINE strats == <<"bm25", "bm25l", "recency">>
           Cell(m, s) == StudyCell("phase1", m, s, NoDecay, "none", "none",
                                   IF s = "recency" THEN 0 ELSE 100, "none")
           n == Len(mems) * Len(strats)
           f == Baselines(mems)
<1>1. strats \in Seq(Names)
  <2>1. "bm25" \in Names /\ "bm25l" \in Names /\ "recency" \in Names
    BY DEF Names, Literals
  <2> QED BY <2>1, ThreeRows
<1>2. f = [i \in 1..n |-> Cell(mems[((i - 1) \div Len(strats)) + 1],
                               strats[((i - 1) % Len(strats)) + 1])]
  BY DEF Baselines, ForEach2
<1>3. ASSUME NEW m \in Names, NEW s \in Names PROVE Cell(m, s) \in StudyCells
  <2>1. "phase1" \in Names /\ "none" \in Names /\ "phase1" # "phase5"
    BY DEF Names, Literals
  <2>2. (IF s = "recency" THEN 0 ELSE 100) \in Nat
    OBVIOUS
  <2>3. NoDecay \in PhaseDecays("phase1")
    BY NamedDecays
  <2> QED BY <1>3, <2>1, <2>2, <2>3, CellTyped
<1> HIDE DEF strats, Cell
<1>4. n \in Nat
  BY <1>1
<1>5. ASSUME NEW i \in 1..n
      PROVE  Cell(mems[((i - 1) \div Len(strats)) + 1], strats[((i - 1) % Len(strats)) + 1])
               \in StudyCells
  BY <1>1, <1>3, LoopIndices
<1> HIDE DEF f, n
<1> QED BY <1>2, <1>4, <1>5 DEF f

LEMMA EmbeddingsTyped ==
  ASSUME NEW mems \in Seq(Names), NEW locals \in Seq(Names), NEW ollamas \in Seq(Names)
  PROVE  EmbeddingComparison(mems, locals, ollamas) \in Seq(StudyCells)
<1> DEFINE Phase2(s, m, x, b) == StudyCell("phase2", m, s, DefaultDecay, x, b, 0, "none")
           routed == <<"colbert", "adaptive">>
           OnLocal(x, m) == Phase2("semantic", m, x, Local)
           OnOllama(x, m) == Phase2("semantic", m, x, "ollama")
           Routed(s, m) == Phase2(s, m, DefaultModel, Local)
           f == [i \in 1..(Len(locals) * Len(mems)) |->
                   OnLocal(locals[((i - 1) \div Len(mems)) + 1], mems[((i - 1) % Len(mems)) + 1])]
           g == [i \in 1..(Len(ollamas) * Len(mems)) |->
                   OnOllama(ollamas[((i - 1) \div Len(mems)) + 1], mems[((i - 1) % Len(mems)) + 1])]
           h == [i \in 1..(Len(routed) * Len(mems)) |->
                   Routed(routed[((i - 1) \div Len(mems)) + 1], mems[((i - 1) % Len(mems)) + 1])]
<1>1. EmbeddingComparison(mems, locals, ollamas) = f \o g \o h
  BY DEF EmbeddingComparison, ForEach2
<1>2. /\ "phase2" \in Names /\ "none" \in Names /\ "phase2" # "phase5" /\ "semantic" \in Names
      /\ "ollama" \in Names /\ Local \in Names /\ DefaultModel \in Names
      /\ "colbert" \in Names /\ "adaptive" \in Names
  BY DEF Names, Literals, Local, DefaultModel
<1>3. ASSUME NEW s \in Names, NEW m \in Names, NEW x \in Names, NEW b \in Names
      PROVE  Phase2(s, m, x, b) \in StudyCells
  <2>1. DefaultDecay \in PhaseDecays("phase2")
    BY NamedDecays
  <2> QED BY <1>2, <2>1, CellTyped
<1>4. routed \in Seq(Names)
  <2>1. ASSUME NEW S, NEW a \in S, NEW b \in S PROVE <<a, b>> \in Seq(S)
    OBVIOUS
  <2> QED BY <1>2, <2>1
<1>5. Len(mems) \in Nat /\ Len(locals) \in Nat /\ Len(ollamas) \in Nat /\ Len(routed) \in Nat
  BY <1>4
<1> HIDE DEF Phase2, routed
<1>6. f \in Seq(StudyCells)
  BY <1>2, <1>3, <1>5, LoopIndices
<1>7. g \in Seq(StudyCells)
  BY <1>2, <1>3, <1>5, LoopIndices
<1>8. h \in Seq(StudyCells)
  BY <1>2, <1>3, <1>4, <1>5, LoopIndices
<1> HIDE DEF f, g, h
<1> QED BY <1>1, <1>6, <1>7, <1>8

LEMMA HybridTyped ==
  ASSUME NEW phase \in Names, phase \notin {"phase4", "phase4b", "phase5"}, NEW weights \in Seq(Nat), NEW mems \in Seq(Names),
         NEW model \in Names, NEW backend \in Names
  PROVE  HybridSweep(phase, weights, mems, model, backend) \in Seq(StudyCells)
<1> DEFINE Cell(w, m) == StudyCell(phase, m, "hybrid", DefaultDecay, model, backend, w, "none")
           f == [i \in 1..(Len(weights) * Len(mems)) |->
                   Cell(weights[((i - 1) \div Len(mems)) + 1], mems[((i - 1) % Len(mems)) + 1])]
<1>1. HybridSweep(phase, weights, mems, model, backend) = f
  BY DEF HybridSweep, ForEach2
<1>2. "hybrid" \in Names /\ "none" \in Names
  BY DEF Names, Literals
<1>3. ASSUME NEW w \in Nat, NEW m \in Names PROVE Cell(w, m) \in StudyCells
  <2>1. DefaultDecay \in PhaseDecays(phase)
    BY NamedDecays
  <2> QED BY <1>2, <2>1, CellTyped
<1> HIDE DEF Cell
<1>4. Len(weights) * Len(mems) \in Nat
  OBVIOUS
<1>5. f \in Seq(StudyCells)
  BY <1>3, <1>4, LoopIndices
<1> QED BY <1>1, <1>5

LEMMA SweepTyped ==
  ASSUME NEW strategy \in Names, NEW mems \in Seq(Names), NEW model \in Names, NEW backend \in Names
  PROVE  DecaySweep(strategy, mems, model, backend) \in Seq(StudyCells)
<1> DEFINE Swept(d, m) == StudyCell("phase4", m, strategy, d, model, backend, 50, "none")
           specs == [i \in 1..(Len(DecayPolicies) * Len(LambdaSteps)) |->
                       Decay(DecayPolicies[((i - 1) \div Len(LambdaSteps)) + 1],
                             LambdaSteps[((i - 1) % Len(LambdaSteps)) + 1], 50, DefaultFloor)]
           all == Append(specs, NoDecay)
           f == [i \in 1..(Len(all) * Len(mems)) |->
                   Swept(all[((i - 1) \div Len(mems)) + 1], mems[((i - 1) % Len(mems)) + 1])]
<1>1. DecaySweep(strategy, mems, model, backend) = f
  BY DEF DecaySweep, ForEach2
<1>2. "phase4" \in Names /\ "none" \in Names /\ "phase4" # "phase5"
  BY DEF Names, Literals
<1> DEFINE Swings == {"exponential", "logarithmic", "linear", "tiered"}
<1>3. DecayPolicies \in Seq(Swings) /\ LambdaSteps \in Seq(Nat)
  BY DEF DecayPolicies, LambdaSteps
<1>4. specs \in Seq(PhaseDecays("phase4"))
  <2>1. ASSUME NEW p \in Swings, NEW l \in Nat
        PROVE  Decay(p, l, 50, DefaultFloor) \in PhaseDecays("phase4")
    <3>1. p \in Names /\ p \notin {"none", "periodic"} /\ DefaultFloor \in Nat
      BY DEF Names, Literals, DefaultFloor
    <3> QED BY <3>1, SweptDecays
  <2> HIDE DEF Swings
  <2>2. Len(DecayPolicies) * Len(LambdaSteps) \in Nat
    BY <1>3
  <2> QED BY <1>3, <2>1, <2>2, LoopIndices
<1> HIDE DEF specs, Swings
<1>5. all \in Seq(PhaseDecays("phase4"))
  BY <1>4, NamedDecays
<1> HIDE DEF all
<1>6. ASSUME NEW d \in PhaseDecays("phase4"), NEW m \in Names PROVE Swept(d, m) \in StudyCells
  BY <1>2, CellTyped
<1> HIDE DEF Swept
<1>7. Len(all) * Len(mems) \in Nat
  BY <1>5
<1>8. f \in Seq(StudyCells)
  BY <1>5, <1>6, <1>7, LoopIndices
<1> QED BY <1>1, <1>8

LEMMA FloorsTyped ==
  ASSUME NEW strategy \in Names, NEW mems \in Seq(Names), NEW model \in Names, NEW backend \in Names,
         NEW policy \in Names, policy \notin {"none", "periodic"}, NEW lambda \in Nat
  PROVE  FloorSweep(strategy, mems, model, backend, policy, lambda) \in Seq(StudyCells)
<1> DEFINE Cell(x, m) == StudyCell("phase4b", m, strategy, Decay(policy, lambda, 50, x),
                                   model, backend, 50, "none")
           f == [i \in 1..(Len(ArchivalFloors) * Len(mems)) |->
                   Cell(ArchivalFloors[((i - 1) \div Len(mems)) + 1], mems[((i - 1) % Len(mems)) + 1])]
<1>1. FloorSweep(strategy, mems, model, backend, policy, lambda) = f
  BY DEF FloorSweep, ForEach2
<1>2. "phase4b" \in Names /\ "none" \in Names /\ "phase4b" # "phase5"
  BY DEF Names, Literals
<1>3. ArchivalFloors \in Seq(Nat)
  BY DEF ArchivalFloors
<1>4. ASSUME NEW x \in Nat, NEW m \in Names PROVE Cell(x, m) \in StudyCells
  <2>1. Decay(policy, lambda, 50, x) \in PhaseDecays("phase4b")
    BY SweptDecays
  <2> QED BY <1>2, <2>1, CellTyped
<1> HIDE DEF Cell
<1>5. Len(ArchivalFloors) * Len(mems) \in Nat
  BY <1>3
<1>6. f \in Seq(StudyCells)
  BY <1>3, <1>4, <1>5, LoopIndices
<1> QED BY <1>1, <1>6

LEMMA RerankersTyped ==
  ASSUME NEW rerankers \in Seq(Names), NEW mems \in Seq(Names)
  PROVE  RerankerComparison(rerankers, mems, DefaultModel) \in Seq(StudyCells)
<1> DEFINE Weight(r) == IF r = "none" THEN 100 ELSE 0
           Cell(r, m) == StudyCell("phase5", m, ControlStrategy(r), DefaultDecay, DefaultModel, Local,
                                   Weight(r), r)
           f == [i \in 1..(Len(rerankers) * Len(mems)) |->
                   Cell(rerankers[((i - 1) \div Len(mems)) + 1], mems[((i - 1) % Len(mems)) + 1])]
<1>1. RerankerComparison(rerankers, mems, DefaultModel) = f
  BY DEF RerankerComparison, ForEach2
<1>2. "phase5" \in Names /\ "bm25" \in Names /\ "llm_rerank" \in Names
      /\ DefaultModel \in Names /\ Local \in Names
  BY DEF Names, Literals, DefaultModel, Local
<1>3. ASSUME NEW r \in Names, NEW m \in Names PROVE Cell(r, m) \in StudyCells
  <2> DEFINE c == Cell(r, m)
  <2>1. Weight(r) \in Nat /\ ControlStrategy(r) \in Names
    BY <1>2 DEF ControlStrategy
  <2> HIDE DEF Weight
  <2>2. c \in [phase : Names, mem : Names, strategy : Names, decay : Decays, model : Names,
               backend : Names, weight : Nat, reranker : Names]
    BY <1>2, <1>3, <2>1, NamedDecays DEF StudyCell
  <2>3. /\ c.strategy = ControlStrategy(c.reranker) /\ c.decay = DefaultDecay
        /\ c.model = DefaultModel /\ c.backend = Local /\ c.weight = Weight(c.reranker)
        /\ c.phase = "phase5"
    BY DEF StudyCell
  <2>5. DefaultDecay \in PhaseDecays("phase5")
    BY NamedDecays
  <2> HIDE DEF c
  <2>4. c \in StudyCells
    BY <2>2, <2>3, <2>5 DEF StudyCells, Weight
  <2> QED BY <2>4 DEF c
<1> HIDE DEF Cell
<1>4. Len(rerankers) * Len(mems) \in Nat
  OBVIOUS
<1>5. f \in Seq(StudyCells)
  BY <1>3, <1>4, LoopIndices
<1> QED BY <1>1, <1>5

(* The arguments of expand_full_study, and what is made of them.           *)
Inputs == [mems : MemLists, locals : ModelLists, ollamas : ModelLists,
           rerankers : RerankerLists, strategy : BestStrategies]

LEMMA InputsTyped ==
  ASSUME NEW in \in Inputs
  PROVE  /\ in.mems \in Seq(Names) /\ in.locals \in Seq(Names) /\ in.ollamas \in Seq(Names)
         /\ in.rerankers \in Seq(Names) /\ in.strategy \in Names
<1>1. /\ in.mems \in MemLists /\ in.locals \in ModelLists /\ in.ollamas \in ModelLists
      /\ in.rerankers \in RerankerLists /\ in.strategy \in BestStrategies
  BY DEF Inputs
<1>2. /\ in.mems \in Seq(STRING) /\ in.locals \in Seq(STRING) /\ in.ollamas \in Seq(STRING)
      /\ in.rerankers \in Seq(STRING) /\ in.strategy \in STRING
  BY <1>1, StudyAssumption
<1>3. \A s \in Seq(STRING) : s \in Seq(Names)
  BY DEF Names
<1> QED BY <1>2, <1>3 DEF Names

LEMMA JoinedTyped ==
  ASSUME NEW in \in Inputs
  PROVE  Joined(in) \in Seq(StudyCells)
<1>1. /\ in.mems \in Seq(Names) /\ in.locals \in Seq(Names) /\ in.ollamas \in Seq(Names)
      /\ in.rerankers \in Seq(Names) /\ in.strategy \in Names
  BY InputsTyped
<1>2. "phase3" \in Names /\ "phase3" \notin {"phase4", "phase4b", "phase5"}
      /\ DefaultModel \in Names /\ Local \in Names
  BY DEF Names, Literals, DefaultModel, Local
<1>3. HybridWeights \in Seq(Nat)
  BY DEF HybridWeights
<1>4. Baselines(in.mems) \in Seq(StudyCells)
  BY <1>1, BaselinesTyped
<1>5. EmbeddingComparison(in.mems, in.locals, in.ollamas) \in Seq(StudyCells)
  BY <1>1, EmbeddingsTyped
<1>6. HybridSweep("phase3", HybridWeights, in.mems, DefaultModel, Local) \in Seq(StudyCells)
  BY <1>1, <1>2, <1>3, HybridTyped
<1>7. DecaySweep(in.strategy, in.mems, DefaultModel, Local) \in Seq(StudyCells)
  BY <1>1, <1>2, SweepTyped
<1>8. RerankerComparison(in.rerankers, in.mems, DefaultModel) \in Seq(StudyCells)
  BY <1>1, RerankersTyped
<1> QED BY <1>4, <1>5, <1>6, <1>7, <1>8 DEF Joined

(***************************************************************************)
(* The expansion of a study: the ids seen are those of the cells kept, one *)
(* each, and those of the cells passed are among them.                     *)
(***************************************************************************)
StudyInv ==
  /\ calculation \in {"study", "matrix", "aging"}
  /\ calculation = "study" => input \in Inputs
  /\ offered \in Seq(StudyCells) /\ cells \in Seq(StudyCells)
  /\ next \in 1..(Len(offered) + 1)
  /\ seen = {StudyId(c) : c \in ToSet(cells)}
  /\ \A i, j \in 1..Len(cells) : StudyId(cells[i]) = StudyId(cells[j]) => i = j
  /\ {StudyId(offered[i]) : i \in 1..(next - 1)} \subseteq seen

LEMMA AppendRows ==
  ASSUME NEW S, NEW s \in Seq(S), NEW e \in S
  PROVE  /\ Append(s, e) \in Seq(S) /\ Len(Append(s, e)) = Len(s) + 1
         /\ ToSet(Append(s, e)) = ToSet(s) \cup {e}
<1> DEFINE t == Append(s, e)
<1>1. t \in Seq(S) /\ Len(t) = Len(s) + 1 /\ t[Len(s) + 1] = e
      /\ \A i \in 1..Len(s) : t[i] = s[i]
  OBVIOUS
<1> HIDE DEF t
<1>2. ToSet(t) = ToSet(s) \cup {e}
  <2>1. DOMAIN s = 1..Len(s) /\ DOMAIN t = 1..(Len(s) + 1) /\ Len(s) \in Nat
    BY <1>1
  <2>2. DOMAIN t = DOMAIN s \cup {Len(s) + 1}
    BY <2>1
  <2> QED BY <1>1, <2>1, <2>2 DEF ToSet
<1> QED BY <1>1, <1>2 DEF t

LEMMA StudyInit == ASSUME CalculationInit PROVE StudyInv
<1>1. /\ calculation \in {"study", "matrix", "aging"}
      /\ calculation = "study" => input \in Inputs /\ offered = Joined(input)
      /\ calculation # "study" => offered = <<>>
      /\ next = 1 /\ seen = {} /\ cells = <<>>
  BY DEF CalculationInit, Init, NoStudy, Inputs
<1>2. offered \in Seq(StudyCells)
  <2>1. CASE calculation = "study"
    <3>1. input \in Inputs /\ offered = Joined(input)
      BY <1>1, <2>1
    <3> QED BY <3>1, JoinedTyped
  <2>2. CASE calculation # "study"
    <3>1. offered = <<>>
      BY <1>1, <2>2
    <3> QED BY <3>1
  <2> QED BY <2>1, <2>2
<1>3. ToSet(cells) = {} /\ cells \in Seq(StudyCells) /\ Len(cells) = 0
  BY <1>1 DEF ToSet
<1>4. 1..(next - 1) = {} /\ next \in 1..(Len(offered) + 1)
  BY <1>1, <1>2
<1> QED BY <1>1, <1>2, <1>3, <1>4 DEF StudyInv

LEMMA StudyNext == ASSUME StudyInv, [CalculationNext]_allVars PROVE StudyInv'
<1>1. CASE UNCHANGED vars /\ UNCHANGED calculation
  BY <1>1 DEF StudyInv, vars, ToSet
<1>2. CASE ExpandStudy
  <2>1. CASE Keep
    <3> DEFINE c == offered[next]
    <3>1. next \in 1..Len(offered) /\ c \in StudyCells /\ Len(offered) \in Nat
      BY <2>1 DEF StudyInv, Keep
    <3>2. /\ calculation' = calculation /\ input' = input /\ offered' = offered
          /\ next' = next + 1 /\ cells' = Append(cells, c) /\ seen' = seen \cup {StudyId(c)}
          /\ StudyId(c) \notin seen
      BY <1>2, <2>1 DEF ExpandStudy, Keep, New
    <3> HIDE DEF c
    <3>3. cells' \in Seq(StudyCells) /\ Len(cells') = Len(cells) + 1
          /\ ToSet(cells') = ToSet(cells) \cup {c}
      BY <3>1, <3>2, AppendRows DEF StudyInv
    <3>4. seen' = {StudyId(d) : d \in ToSet(cells)'}
      BY <3>2, <3>3 DEF StudyInv, ToSet
    <3>5. ASSUME NEW i \in 1..Len(cells'), NEW j \in 1..Len(cells'),
                 StudyId(cells'[i]) = StudyId(cells'[j])
          PROVE  i = j
      <4>1. /\ \A k \in 1..Len(cells) : cells'[k] = cells[k] /\ StudyId(cells[k]) \in seen
            /\ cells'[Len(cells) + 1] = c /\ Len(cells) \in Nat
        BY <3>1, <3>2 DEF StudyInv, ToSet
      <4>2. /\ i \in 1..Len(cells) \/ i = Len(cells) + 1
            /\ j \in 1..Len(cells) \/ j = Len(cells) + 1
        BY <3>3, <4>1
      <4> QED BY <3>2, <3>5, <4>1, <4>2 DEF StudyInv
    <3>6. {StudyId(offered'[i]) : i \in 1..(next' - 1)} \subseteq seen'
      <4>1. ASSUME NEW i \in 1..(next' - 1) PROVE StudyId(offered'[i]) \in seen'
        <5>1. i \in 1..(next - 1) \/ i = next
          BY <3>1, <3>2
        <5> QED BY <3>2, <5>1 DEF StudyInv, c
      <4> QED BY <4>1
    <3>7. next' \in 1..(Len(offered') + 1)
      BY <3>1, <3>2
    <3> QED BY <3>2, <3>3, <3>4, <3>5, <3>6, <3>7 DEF StudyInv
  <2>2. CASE Skip
    <3>1. next \in 1..Len(offered) /\ Len(offered) \in Nat
      BY <2>2 DEF StudyInv, Skip
    <3>2. /\ calculation' = calculation /\ input' = input /\ offered' = offered
          /\ next' = next + 1 /\ cells' = cells /\ seen' = seen
          /\ StudyId(offered[next]) \in seen
      BY <1>2, <2>2 DEF ExpandStudy, Skip, New
    <3>3. {StudyId(offered'[i]) : i \in 1..(next' - 1)} \subseteq seen'
      <4>1. ASSUME NEW i \in 1..(next' - 1) PROVE StudyId(offered'[i]) \in seen'
        <5>1. i \in 1..(next - 1) \/ i = next
          BY <3>1, <3>2
        <5> QED BY <3>2, <5>1 DEF StudyInv
      <4> QED BY <4>1
    <3>4. next' \in 1..(Len(offered') + 1)
      BY <3>1, <3>2
    <3> QED BY <3>2, <3>3, <3>4 DEF StudyInv, ToSet
  <2> QED BY <1>1, <1>2, <2>1, <2>2 DEF ExpandStudy, Next, Done
<1> QED BY <1>1, <1>2 DEF CalculationNext, ExpandMatrix, GrowOld, allVars

LEMMA StudyInvariant == CalculationSpec => []StudyInv
<1>1. CalculationInit => StudyInv
  BY StudyInit
<1>2. StudyInv /\ [CalculationNext]_allVars => StudyInv'
  BY StudyNext
<1> QED BY <1>1, <1>2, PTL DEF CalculationSpec

(* Labels that print alike are those of decays that differ in lambda only, *)
(* by less than what is printed, or in the ranking weight.                 *)
LEMMA SameLabel ==
  ASSUME NEW d \in Decays, NEW e \in Decays,
         d.policy \notin {"none", "periodic"}, e.policy # "periodic",
         DecayLabel(d) = DecayLabel(e)
  PROVE  /\ d.policy = e.policy /\ d.floor = e.floor
         /\ d.lambda - e.lambda \in (-99)..99
<1>1. ASSUME NEW x \in Decays, x.policy \notin {"none", "periodic"}
      PROVE  /\ x.floor = DefaultFloor => DecayLabel(x) = <<x.policy, TwoDecimals(x.lambda)>>
             /\ x.floor # DefaultFloor => DecayLabel(x) = <<x.policy, TwoDecimals(x.lambda), x.floor>>
  BY <1>1 DEF DecayLabel
<1>2. /\ \A p, l, q, m : <<p, l>> = <<q, m>> => p = q /\ l = m
      /\ \A p, l, g, q, m, h : <<p, l, g>> = <<q, m, h>> => p = q /\ l = m /\ g = h
      /\ \A p, l, q, m, h : <<p, l>> # <<q, m, h>>
      /\ \A p, q, m : <<p>> # <<q, m>>
      /\ \A p, q, m, h : <<p>> # <<q, m, h>>
  OBVIOUS
<1>3. e.policy # "none"
  <2> SUFFICES ASSUME e.policy = "none" PROVE FALSE
    OBVIOUS
  <2>1. DecayLabel(e) = <<e.policy>>
    BY DEF DecayLabel
  <2> QED BY <1>1, <1>2, <2>1
<1>4. d.floor = e.floor /\ d.policy = e.policy /\ TwoDecimals(d.lambda) = TwoDecimals(e.lambda)
  <2>1. CASE d.floor = DefaultFloor /\ e.floor = DefaultFloor
    BY <1>1, <1>2, <1>3, <2>1
  <2>2. CASE d.floor # DefaultFloor /\ e.floor # DefaultFloor
    BY <1>1, <1>2, <1>3, <2>2
  <2>3. CASE (d.floor = DefaultFloor) # (e.floor = DefaultFloor)
    BY <1>1, <1>2, <1>3, <2>3
  <2> QED BY <2>1, <2>2, <2>3
<1>5. d.lambda \in Nat /\ e.lambda \in Nat
  BY DEF Decays
<1>6. d.lambda - e.lambda \in (-99)..99
  <2>1. ASSUME NEW n \in Nat
        PROVE  /\ n \div 100 \in Int /\ n % 100 \in 0..99
               /\ n = 100 * (n \div 100) + (n % 100)
    OBVIOUS
  <2> DEFINE x == d.lambda + 50
             y == e.lambda + 50
  <2>2. x \in Nat /\ y \in Nat /\ d.lambda = x - 50 /\ e.lambda = y - 50
    BY <1>5
  <2>3. TwoDecimals(d.lambda) = x \div 100 /\ TwoDecimals(e.lambda) = y \div 100
    BY DEF TwoDecimals
  <2> HIDE DEF x, y
  <2>4. x \div 100 = y \div 100
    BY <1>4, <2>3
  <2>5. /\ x \div 100 \in Int /\ x % 100 \in 0..99 /\ x = 100 * (x \div 100) + (x % 100)
        /\ y % 100 \in 0..99 /\ y = 100 * (y \div 100) + (y % 100)
    BY <2>1, <2>2
  <2>6. x - y \in (-99)..99
    BY <2>2, <2>4, <2>5
  <2> QED BY <1>5, <2>2, <2>6
<1> QED BY <1>4, <1>6

LEMMA SameDecay ==
  ASSUME NEW phase, NEW d \in PhaseDecays(phase), NEW e \in PhaseDecays(phase),
         DecayLabel(d) = DecayLabel(e)
  PROVE  /\ [d EXCEPT !.lambda = 0] = [e EXCEPT !.lambda = 0]
         /\ d.lambda - e.lambda \in (-99)..99
<1>1. /\ d \in Decays /\ e \in Decays /\ d.policy # "periodic" /\ e.policy # "periodic"
      /\ d.policy = "none" => d = NoDecay
      /\ e.policy = "none" => e = NoDecay
  BY DEF PhaseDecays
<1>2. CASE d.policy = "none"
  <2>1. e.policy = "none"
    <3> SUFFICES ASSUME e.policy # "none" PROVE FALSE
      OBVIOUS
    <3>1. e.policy = d.policy
      BY <1>1, SameLabel
    <3> QED BY <1>2, <3>1
  <2>2. d = e /\ d.lambda \in Nat
    BY <1>1, <1>2, <2>1 DEF Decays
  <2> QED BY <2>2
<1>3. CASE d.policy # "none"
  <2>1. d.policy = e.policy /\ d.floor = e.floor /\ d.lambda - e.lambda \in (-99)..99
    BY <1>1, <1>3, SameLabel
  <2>2. d.alpha = e.alpha
    BY <1>3, <2>1 DEF PhaseDecays
  <2>3. ASSUME NEW x \in Decays
        PROVE  [x EXCEPT !.lambda = 0]
                 = [policy |-> x.policy, lambda |-> 0, alpha |-> x.alpha, floor |-> x.floor]
    BY DEF Decays
  <2> QED BY <1>1, <2>1, <2>2, <2>3
<1> QED BY <1>2, <1>3

(* Cells of one id are alike but for lambda.                               *)
LEMMA SameIdAlike ==
  ASSUME NEW c \in StudyCells, NEW d \in StudyCells, StudyId(c) = StudyId(d)
  PROVE  SameButLambda(c, d) /\ c.decay.lambda - d.decay.lambda \in (-99)..99
<1>1. /\ c.phase = d.phase /\ c.mem = d.mem /\ c.strategy = d.strategy
      /\ DecayLabel(c.decay) = DecayLabel(d.decay) /\ c.model = d.model
      /\ c.backend = d.backend /\ c.weight = d.weight /\ c.reranker = d.reranker
  <2> DEFINE x == DecayLabel(c.decay)
             y == DecayLabel(d.decay)
  <2> HIDE DEF x, y
  <2>1. <<c.phase, c.mem, c.strategy, x, c.model, c.backend, c.weight, c.reranker>>
        = <<d.phase, d.mem, d.strategy, y, d.model, d.backend, d.weight, d.reranker>>
    BY DEF StudyId, x, y
  <2> QED BY <2>1 DEF x, y
<1>2. c.decay \in PhaseDecays(c.phase) /\ d.decay \in PhaseDecays(c.phase)
  BY <1>1 DEF StudyCells
<1>3. /\ [c.decay EXCEPT !.lambda = 0] = [d.decay EXCEPT !.lambda = 0]
      /\ c.decay.lambda - d.decay.lambda \in (-99)..99
  BY <1>1, <1>2, SameDecay
<1>4. ASSUME NEW e \in StudyCells
      PROVE  [e EXCEPT !.decay.lambda = 0]
               = [phase |-> e.phase, mem |-> e.mem, strategy |-> e.strategy,
                  decay |-> [e.decay EXCEPT !.lambda = 0], model |-> e.model,
                  backend |-> e.backend, weight |-> e.weight, reranker |-> e.reranker]
  BY DEF StudyCells
<1>5. [c EXCEPT !.decay.lambda = 0] = [d EXCEPT !.decay.lambda = 0]
  <2> DEFINE x == [c.decay EXCEPT !.lambda = 0]
             y == [d.decay EXCEPT !.lambda = 0]
  <2>1. /\ [c EXCEPT !.decay.lambda = 0]
              = [phase |-> c.phase, mem |-> c.mem, strategy |-> c.strategy, decay |-> x,
                 model |-> c.model, backend |-> c.backend, weight |-> c.weight,
                 reranker |-> c.reranker]
        /\ [d EXCEPT !.decay.lambda = 0]
              = [phase |-> d.phase, mem |-> d.mem, strategy |-> d.strategy, decay |-> y,
                 model |-> d.model, backend |-> d.backend, weight |-> d.weight,
                 reranker |-> d.reranker]
    BY <1>4
  <2>2. x = y
    BY <1>3
  <2> HIDE DEF x, y
  <2> QED BY <1>1, <2>1, <2>2
<1> QED BY <1>3, <1>5 DEF SameButLambda

(* Whatever lists a study is made from, a configuration that its phases    *)
(* offer is measured once, unless one is measured that differs from it in  *)
(* lambda alone, by less than an id shows (StudyExpander).                 *)
THEOREM LossOnlyByRounding == CalculationSpec => []LostOnlyByRounding
<1>1. ASSUME StudyInv, NEW i \in 1..(next - 1)
      PROVE  \E c \in ToSet(cells) :
               /\ SameButLambda(c, offered[i])
               /\ c.decay.lambda - offered[i].decay.lambda \in (-99)..99
  <2>1. offered[i] \in StudyCells /\ StudyId(offered[i]) \in seen
    <3>1. i \in 1..Len(offered) /\ offered \in Seq(StudyCells)
      BY <1>1 DEF StudyInv
    <3>2. StudyId(offered[i]) \in {StudyId(offered[j]) : j \in 1..(next - 1)}
      OBVIOUS
    <3> QED BY <1>1, <3>1, <3>2 DEF StudyInv
  <2>2. PICK c \in ToSet(cells) : StudyId(c) = StudyId(offered[i])
    BY <1>1, <2>1 DEF StudyInv
  <2>3. c \in StudyCells
    BY <1>1 DEF StudyInv, ToSet
  <2> QED BY <2>1, <2>2, <2>3, SameIdAlike
<1>2. ASSUME StudyInv PROVE IsInjective(cells)
  <2>1. DOMAIN cells = 1..Len(cells)
    BY <1>2 DEF StudyInv
  <2> QED BY <1>2, <2>1 DEF StudyInv, IsInjective
<1>3. StudyInv => LostOnlyByRounding
  BY <1>1, <1>2 DEF LostOnlyByRounding
<1> QED BY <1>3, StudyInvariant, PTL

(***************************************************************************)
(* The cells of phase 5, and the cell a worker rebuilds.                   *)
(***************************************************************************)
LEMMA SameFields ==
  ASSUME NEW c \in StudyCells, NEW d \in StudyCells,
         c.phase = d.phase, c.mem = d.mem, c.strategy = d.strategy, c.decay = d.decay,
         c.model = d.model, c.backend = d.backend, c.weight = d.weight, c.reranker = d.reranker
  PROVE  c = d
<1>1. ASSUME NEW e \in StudyCells
      PROVE  e = [phase |-> e.phase, mem |-> e.mem, strategy |-> e.strategy, decay |-> e.decay,
                  model |-> e.model, backend |-> e.backend, weight |-> e.weight,
                  reranker |-> e.reranker]
  BY DEF StudyCells
<1> QED BY <1>1

(* Two cells of phase 5 with the same memory type differ in the reranker   *)
(* alone: same decay, and a first stage that the reranker decides          *)
(* (StudyExpander.expand_phase5: "so the reranker is the ONLY variable").  *)
THEOREM RerankerIsOnlyVariable == CalculationSpec => []RerankerIsolated
<1>1. ASSUME StudyInv, NEW i \in 1..Len(cells), NEW j \in 1..Len(cells),
             cells[i].phase = "phase5", cells[j].phase = "phase5", cells[i].mem = cells[j].mem
      PROVE  /\ {cells[i].strategy, cells[j].strategy} \subseteq {"bm25", "llm_rerank"}
             /\ DecayConfig(cells[i].decay) = DecayConfig(cells[j].decay)
             /\ cells[i].reranker = cells[j].reranker => cells[i] = cells[j]
  <2> DEFINE c == cells[i]
             d == cells[j]
  <2>1. c \in StudyCells /\ d \in StudyCells
    BY <1>1 DEF StudyInv
  <2>2. c.phase = "phase5" /\ d.phase = "phase5" /\ c.mem = d.mem
    BY <1>1
  <2> HIDE DEF c, d
  <2>3. ASSUME NEW e \in StudyCells, e.phase = "phase5"
        PROVE  /\ e.strategy = ControlStrategy(e.reranker)
               /\ e.decay = DefaultDecay /\ e.model = DefaultModel /\ e.backend = Local
               /\ e.weight = (IF e.reranker = "none" THEN 100 ELSE 0)
    BY <2>3 DEF StudyCells
  <2>4. /\ c.strategy = ControlStrategy(c.reranker) /\ d.strategy = ControlStrategy(d.reranker)
        /\ c.decay = DefaultDecay /\ d.decay = DefaultDecay
    BY <2>1, <2>2, <2>3
  <2>5. c.reranker = d.reranker => c = d
    BY <2>1, <2>2, <2>3, SameFields
  <2> QED BY <2>4, <2>5 DEF ControlStrategy, c, d
<1>2. StudyInv => RerankerIsolated
  BY <1>1 DEF RerankerIsolated
<1> QED BY <1>2, StudyInvariant, PTL

LEMMA RebuiltIsTheCell == ASSUME NEW c \in StudyCells PROVE StudyRebuilt(c) = c
<1>1. c \in [phase : Names, mem : Names, strategy : Names, decay : Decays, model : Names,
             backend : Names, weight : Nat, reranker : Names]
  BY DEF StudyCells
<1>2. ASSUME NEW d \in Decays PROVE Decay(d.policy, d.lambda, d.alpha, d.floor) = d
  BY DEF Decays, Decay
<1>3. Decay(c.decay.policy, c.decay.lambda, c.decay.alpha, c.decay.floor) = c.decay
  BY <1>1, <1>2
<1>4. c = StudyCell(c.phase, c.mem, c.strategy, c.decay, c.model, c.backend, c.weight, c.reranker)
  BY <1>1 DEF StudyCell
<1> QED BY <1>3, <1>4 DEF StudyRebuilt

LEMMA StudyWorkers ==
  ASSUME StudyInv, calculation = "study"
  PROVE  WorkerRunsTheCell
<1>1. cells \in Seq(StudyCells) /\ input \in Inputs
  BY DEF StudyInv
<1>2. FloorSweep(input.strategy, input.mems, DefaultModel, Local, "tiered", 20) \in Seq(StudyCells)
  <2>1. input.strategy \in Names /\ input.mems \in Seq(Names)
    BY <1>1, InputsTyped
  <2>2. DefaultModel \in Names /\ Local \in Names /\ "tiered" \in Names
    BY DEF Names, Literals, DefaultModel, Local
  <2>3. "tiered" \notin {"none", "periodic"}
    OBVIOUS
  <2> QED BY <2>1, <2>2, <2>3, FloorsTyped
<1>3. ASSUME NEW s \in Seq(StudyCells) PROVE ToSet(s) \subseteq StudyCells
  BY DEF ToSet
<1> QED BY <1>1, <1>2, <1>3, RebuiltIsTheCell DEF WorkerRunsTheCell

(***************************************************************************)
(* The turns of a product of three lists of m, s and p elements.           *)
(***************************************************************************)
LEMMA DivisionIsUnique ==
  ASSUME NEW b \in Nat, NEW q \in Nat, NEW r \in 0..(b - 1)
  PROVE  (b * q + r) \div b = q /\ (b * q + r) % b = r
<1> DEFINE n == b * q + r
           k == n \div b
           t == n % b
<1>1. n \in Nat /\ b > 0
  OBVIOUS
<1>2. k \in Int /\ t \in 0..(b - 1) /\ n = b * k + t
  BY <1>1
<1>3. n = b * q + r
  OBVIOUS
<1> HIDE DEF n, k, t
<1>4. b * q - b * k = t - r /\ t - r < b /\ r - t < b
  BY <1>2, <1>3
<1>5. ~ k < q
  <2>1. ASSUME k < q PROVE FALSE
    <3>1. b * q >= b * (k + 1)
      BY <1>1, <1>2, <2>1
    <3> QED BY <1>2, <1>4, <3>1
  <2> QED BY <2>1
<1>6. ~ k > q
  <2>1. ASSUME k > q PROVE FALSE
    <3>1. b * k >= b * (q + 1)
      BY <1>1, <1>2, <2>1
    <3> QED BY <1>2, <1>4, <3>1
  <2> QED BY <2>1
<1>7. k = q
  BY <1>2, <1>5, <1>6
<1>8. t = r
  BY <1>2, <1>3, <1>7
<1> QED BY <1>7, <1>8 DEF n, k, t

(* A turn has one index in each list, and they make the turn.              *)
LEMMA TurnParts ==
  ASSUME NEW m \in Nat, NEW s \in Nat, NEW p \in Nat, NEW i \in 1..(m * s * p)
  PROVE  /\ (i - 1) % p \in 0..(p - 1)
         /\ ((i - 1) \div p) % s \in 0..(s - 1)
         /\ (i - 1) \div (p * s) \in 0..(m - 1)
         /\ i = p * (s * ((i - 1) \div (p * s)) + (((i - 1) \div p) % s)) + ((i - 1) % p) + 1
<1> DEFINE q == (i - 1) \div p
           r == (i - 1) % p
           k == q \div s
           t == q % s
           ms == m * s
           n == i - 1
<1>1. m * s \in Nat /\ p * s \in Nat /\ n \in Nat /\ n < ms * p
  OBVIOUS
<1>2. q \in 0..(m * s - 1) /\ r \in 0..(p - 1) /\ i - 1 = p * q + r
  <2>1. ms \in Nat /\ n \in Nat /\ n < ms * p
    BY <1>1
  <2> HIDE DEF ms, n
  <2>2. n \div p \in Nat /\ n \div p < ms /\ n % p \in 0..(p - 1) /\ n = p * (n \div p) + (n % p)
    BY <2>1, DivisionBounds
  <2>3. n \div p \in 0..(ms - 1)
    BY <2>1, <2>2
  <2> QED BY <2>2, <2>3 DEF ms, n
<1> HIDE DEF q, r
<1>3. k \in 0..(m - 1) /\ t \in 0..(s - 1) /\ q = s * k + t
  <2>1. q \in Nat /\ q < m * s
    BY <1>1, <1>2
  <2>2. q \div s \in Nat /\ q \div s < m /\ q % s \in 0..(s - 1) /\ q = s * (q \div s) + (q % s)
    BY <2>1, DivisionBounds
  <2> QED BY <2>2
<1> HIDE DEF k, t
<1>4. i - 1 = (p * s) * k + (p * t + r)
  <2>1. p * q = p * (s * k) + p * t /\ p * (s * k) = (p * s) * k
    BY <1>3
  <2> QED BY <1>2, <1>3, <2>1
<1>5. p * t + r \in 0..(p * s - 1)
  <2>1. p * t <= p * (s - 1) /\ p * (s - 1) = p * s - p
    BY <1>3
  <2> QED BY <1>1, <1>2, <1>3, <2>1
<1>6. (i - 1) \div (p * s) = k
  <2> DEFINE b == p * s
             r2 == p * t + r
  <2>1. b \in Nat /\ k \in Nat /\ r2 \in 0..(b - 1) /\ i - 1 = b * k + r2
    BY <1>1, <1>3, <1>4, <1>5
  <2> HIDE DEF b, r2
  <2>2. (i - 1) \div b = k
    BY <2>1, DivisionIsUnique
  <2> QED BY <2>2 DEF b
<1>7. i = p * (s * k + t) + r + 1
  BY <1>2, <1>3
<1> QED BY <1>2, <1>3, <1>6, <1>7 DEF q, r, t

(* Every three indices have their turn.                                    *)
IsTurn(i, s, p, a, b, c) ==
  (i - 1) % p = c /\ ((i - 1) \div p) % s = b /\ (i - 1) \div (p * s) = a

LEMMA TurnExists ==
  ASSUME NEW m \in Nat, NEW s \in Nat, NEW p \in Nat,
         NEW a \in 0..(m - 1), NEW b \in 0..(s - 1), NEW c \in 0..(p - 1)
  PROVE  \E i \in 1..(m * s * p) : IsTurn(i, s, p, a, b, c)
<1> DEFINE q == s * a + b
           n == p * q + c
<1>1. q \div s = a /\ q % s = b /\ q \in Nat
  BY DivisionIsUnique
<1>2. q <= m * s - 1
  <2>1. s * a <= s * (m - 1) /\ s * (m - 1) = m * s - s
    OBVIOUS
  <2> QED BY <2>1
<1> HIDE DEF q
<1>3. n \div p = q /\ n % p = c /\ n \in Nat
  BY <1>1, DivisionIsUnique
<1>4. n <= m * s * p - 1
  <2>1. p * q <= p * (m * s - 1) /\ p * (m * s - 1) = (m * s) * p - p
    BY <1>1, <1>2
  <2> QED BY <1>1, <2>1
<1>5. n + 1 \in 1..(m * s * p) /\ (n + 1) - 1 = n
  BY <1>3, <1>4
<1>6. n \div (p * s) = a
  <2>1. n = (p * s) * a + (p * b + c)
    BY <1>1 DEF q
  <2>2. p * b + c \in 0..(p * s - 1)
    <3>1. p * b <= p * (s - 1) /\ p * (s - 1) = p * s - p
      OBVIOUS
    <3> QED BY <3>1
  <2>3. p * s \in Nat /\ a \in Nat
    OBVIOUS
  <2> HIDE DEF n
  <2> QED BY <2>1, <2>2, <2>3, DivisionIsUnique
<1> HIDE DEF n
<1>7. IsTurn(n + 1, s, p, a, b, c)
  BY <1>1, <1>3, <1>5, <1>6 DEF IsTurn
<1> QED BY <1>5, <1>7

(***************************************************************************)
(* The grid of a matrix: what a turn adds, as a function of the arguments. *)
(***************************************************************************)
GridInputs == [mems : MemLists, strategies : StrategyLists,
               policies : PolicyLists, lambdas : LambdaLists]
GridDecays == [policy : Names, lambda : Nat, alpha : {0}, floor : {DefaultFloor}]
GridCells == [mem : Names, strategy : Names, decay : GridDecays]

TurnsOf(in) == Len(in.mems) * Len(in.strategies) * Len(in.policies)
PolicyOf(in, i) == in.policies[((i - 1) % Len(in.policies)) + 1]
StrategyOf(in, i) == in.strategies[(((i - 1) \div Len(in.policies)) % Len(in.strategies)) + 1]
MemOf(in, i) == in.mems[((i - 1) \div (Len(in.policies) * Len(in.strategies))) + 1]
SpecsOf(in, p) ==
  CASE p = "none" -> <<NoDecay>>
    [] p = "periodic" -> <<Decay("periodic", 0, 0, DefaultFloor)>>
    [] OTHER -> [i \in 1..Len(in.lambdas) |-> Decay(p, in.lambdas[i], 0, DefaultFloor)]
TurnCells(in, i) ==
  {MatrixCell(MemOf(in, i), StrategyOf(in, i), d) : d \in ToSet(SpecsOf(in, PolicyOf(in, i)))}
DecaysOf(in, p) ==
  {d \in {Decay(p, l, 0, DefaultFloor) : l \in ToSet(in.lambdas) \cup {0}} :
     d.lambda = 0 <=> d.policy \in {"none", "periodic"}}

LEMMA GridInputsTyped ==
  ASSUME NEW in \in GridInputs
  PROVE  /\ in.mems \in Seq(Names) /\ in.strategies \in Seq(Names) /\ in.policies \in Seq(Names)
         /\ in.lambdas \in Seq(Nat \ {0})
         /\ IsInjective(in.mems) /\ IsInjective(in.strategies) /\ IsInjective(in.policies)
         /\ IsInjective(in.lambdas)
<1>1. /\ in.mems \in MemLists /\ in.strategies \in StrategyLists /\ in.policies \in PolicyLists
      /\ in.lambdas \in LambdaLists
  BY DEF GridInputs
<1>2. /\ in.mems \in Seq(STRING) /\ in.strategies \in Seq(STRING) /\ in.policies \in Seq(STRING)
      /\ in.lambdas \in Seq(Nat \ {0})
      /\ IsInjective(in.mems) /\ IsInjective(in.strategies) /\ IsInjective(in.policies)
      /\ IsInjective(in.lambdas)
  BY <1>1, CalculationAssumption
<1>3. \A l \in Seq(STRING) : l \in Seq(Names)
  BY DEF Names
<1> QED BY <1>2, <1>3

LEMMA SpecsTyped ==
  ASSUME NEW in \in GridInputs, NEW p \in Names
  PROVE  /\ SpecsOf(in, p) \in Seq(GridDecays)
         /\ IsInjective(SpecsOf(in, p))
         /\ ToSet(SpecsOf(in, p)) = DecaysOf(in, p)
<1> DEFINE L == in.lambdas
           s == SpecsOf(in, p)
<1>1. L \in Seq(Nat \ {0}) /\ IsInjective(L)
  BY GridInputsTyped
<1>2. ASSUME NEW q \in Names, NEW l \in Nat
      PROVE  /\ Decay(q, l, 0, DefaultFloor) \in GridDecays
             /\ Decay(q, l, 0, DefaultFloor).policy = q /\ Decay(q, l, 0, DefaultFloor).lambda = l
  BY DEF Decay, GridDecays
<1>3. ASSUME NEW d, d \in GridDecays, s = <<d>>
      PROVE  s \in Seq(GridDecays) /\ IsInjective(s) /\ ToSet(s) = {d}
  BY <1>3 DEF IsInjective, ToSet
<1>4. CASE p = "none" \/ p = "periodic"
  <2>1. s = <<Decay(p, 0, 0, DefaultFloor)>>
    BY <1>4 DEF SpecsOf, NoDecay
  <2>2. DecaysOf(in, p) = {Decay(p, 0, 0, DefaultFloor)}
    <3>1. \A l \in ToSet(L) : l \in Nat /\ l # 0
      BY <1>1 DEF ToSet
    <3>2. \A l \in ToSet(L) \cup {0} : Decay(p, l, 0, DefaultFloor).lambda = l
                                       /\ Decay(p, l, 0, DefaultFloor).policy = p
      BY <1>2, <3>1
    <3> QED BY <1>4, <3>1, <3>2 DEF DecaysOf
  <2>3. Decay(p, 0, 0, DefaultFloor) \in GridDecays
    BY <1>2
  <2> HIDE DEF s
  <2> QED BY <1>3, <2>1, <2>2, <2>3 DEF s
<1>5. CASE p # "none" /\ p # "periodic"
  <2>1. s = [i \in 1..Len(L) |-> Decay(p, L[i], 0, DefaultFloor)]
    BY <1>5 DEF SpecsOf
  <2>2. \A i \in 1..Len(L) : L[i] \in Nat /\ L[i] # 0
    BY <1>1
  <2>3. Len(L) \in Nat /\ DOMAIN L = 1..Len(L)
    BY <1>1
  <2> HIDE DEF s, L
  <2>4. s \in Seq(GridDecays) /\ DOMAIN s = 1..Len(L)
    BY <1>2, <2>1, <2>2, <2>3
  <2>5. \A i \in 1..Len(L) : s[i].lambda = L[i] /\ s[i].policy = p /\ s[i] = Decay(p, L[i], 0, DefaultFloor)
    BY <1>2, <2>1, <2>2
  <2>6. IsInjective(s)
    BY <1>1, <2>3, <2>4, <2>5 DEF IsInjective
  <2>7. ToSet(s) = {Decay(p, l, 0, DefaultFloor) : l \in ToSet(L)}
    BY <2>3, <2>4, <2>5 DEF ToSet
  <2>8. DecaysOf(in, p) = {Decay(p, l, 0, DefaultFloor) : l \in ToSet(L)}
    <3>1. \A l \in ToSet(L) : l \in Nat /\ l # 0
      BY <2>2, <2>3 DEF ToSet
    <3>2. \A l \in ToSet(L) \cup {0} : Decay(p, l, 0, DefaultFloor).lambda = l
                                       /\ Decay(p, l, 0, DefaultFloor).policy = p
      BY <1>2, <3>1
    <3> QED BY <1>5, <3>1, <3>2 DEF DecaysOf, L
  <2> QED BY <2>4, <2>6, <2>7, <2>8 DEF s
<1> QED BY <1>4, <1>5

(* The indices of a turn in the three lists.                               *)
PolicyIndex(in, i) == ((i - 1) % Len(in.policies)) + 1
StrategyIndex(in, i) == (((i - 1) \div Len(in.policies)) % Len(in.strategies)) + 1
MemIndex(in, i) == ((i - 1) \div (Len(in.policies) * Len(in.strategies))) + 1

LEMMA TurnIndices ==
  ASSUME NEW in \in GridInputs, NEW i \in 1..TurnsOf(in)
  PROVE  /\ MemIndex(in, i) \in DOMAIN in.mems
         /\ StrategyIndex(in, i) \in DOMAIN in.strategies
         /\ PolicyIndex(in, i) \in DOMAIN in.policies
         /\ i = Len(in.policies) * (Len(in.strategies) * (MemIndex(in, i) - 1)
                                    + (StrategyIndex(in, i) - 1)) + PolicyIndex(in, i)
<1> DEFINE m == Len(in.mems)
           s == Len(in.strategies)
           p == Len(in.policies)
<1>1. /\ in.mems \in Seq(Names) /\ in.strategies \in Seq(Names) /\ in.policies \in Seq(Names)
  BY GridInputsTyped
<1>2. m \in Nat /\ s \in Nat /\ p \in Nat
      /\ DOMAIN in.mems = 1..m /\ DOMAIN in.strategies = 1..s /\ DOMAIN in.policies = 1..p
  BY <1>1
<1>3. i \in 1..(m * s * p)
  BY DEF TurnsOf
<1>4. /\ MemIndex(in, i) = ((i - 1) \div (p * s)) + 1
      /\ StrategyIndex(in, i) = (((i - 1) \div p) % s) + 1
      /\ PolicyIndex(in, i) = ((i - 1) % p) + 1
  BY DEF MemIndex, StrategyIndex, PolicyIndex
<1> HIDE DEF m, s, p
<1> DEFINE x == (i - 1) \div (p * s)
           y == ((i - 1) \div p) % s
           z == (i - 1) % p
<1>5. z \in 0..(p - 1) /\ y \in 0..(s - 1) /\ x \in 0..(m - 1) /\ i = p * (s * x + y) + z + 1
  BY <1>2, <1>3, TurnParts
<1>6. MemIndex(in, i) = x + 1 /\ StrategyIndex(in, i) = y + 1 /\ PolicyIndex(in, i) = z + 1
  BY <1>4
<1> HIDE DEF x, y, z
<1>7. /\ MemIndex(in, i) \in 1..m /\ StrategyIndex(in, i) \in 1..s /\ PolicyIndex(in, i) \in 1..p
      /\ MemIndex(in, i) - 1 = x /\ StrategyIndex(in, i) - 1 = y
  <2>1. x + 1 \in 1..m /\ (x + 1) - 1 = x
    BY <1>2, <1>5
  <2>2. y + 1 \in 1..s /\ (y + 1) - 1 = y
    BY <1>2, <1>5
  <2>3. z + 1 \in 1..p
    BY <1>2, <1>5
  <2> QED BY <1>6, <2>1, <2>2, <2>3
<1>8. i = p * (s * x + y) + PolicyIndex(in, i)
  <2>1. p * (s * x + y) \in Int /\ z \in Int
    BY <1>2, <1>5
  <2> QED BY <1>5, <1>6, <2>1
<1> QED BY <1>2, <1>7, <1>8 DEF s, p

LEMMA TurnTyped ==
  ASSUME NEW in \in GridInputs, NEW i \in 1..TurnsOf(in)
  PROVE  MemOf(in, i) \in Names /\ StrategyOf(in, i) \in Names /\ PolicyOf(in, i) \in Names
<1>1. /\ in.mems \in Seq(Names) /\ in.strategies \in Seq(Names) /\ in.policies \in Seq(Names)
  BY GridInputsTyped
<1>2. /\ MemIndex(in, i) \in DOMAIN in.mems /\ StrategyIndex(in, i) \in DOMAIN in.strategies
      /\ PolicyIndex(in, i) \in DOMAIN in.policies
  BY TurnIndices
<1>3. /\ MemOf(in, i) = in.mems[MemIndex(in, i)]
      /\ StrategyOf(in, i) = in.strategies[StrategyIndex(in, i)]
      /\ PolicyOf(in, i) = in.policies[PolicyIndex(in, i)]
  BY DEF MemOf, StrategyOf, PolicyOf, MemIndex, StrategyIndex, PolicyIndex
<1> QED BY <1>1, <1>2, <1>3

(* Two turns differ in a memory type, a strategy or a policy.              *)
LEMMA TurnsDiffer ==
  ASSUME NEW in \in GridInputs, NEW i \in 1..TurnsOf(in), NEW j \in 1..TurnsOf(in),
         MemOf(in, i) = MemOf(in, j), StrategyOf(in, i) = StrategyOf(in, j),
         PolicyOf(in, i) = PolicyOf(in, j)
  PROVE  i = j
<1>1. IsInjective(in.mems) /\ IsInjective(in.strategies) /\ IsInjective(in.policies)
  BY GridInputsTyped
<1>2. ASSUME NEW k \in 1..TurnsOf(in)
      PROVE  /\ MemOf(in, k) = in.mems[MemIndex(in, k)]
             /\ StrategyOf(in, k) = in.strategies[StrategyIndex(in, k)]
             /\ PolicyOf(in, k) = in.policies[PolicyIndex(in, k)]
  BY DEF MemOf, StrategyOf, PolicyOf, MemIndex, StrategyIndex, PolicyIndex
<1>3. /\ MemIndex(in, i) = MemIndex(in, j) /\ StrategyIndex(in, i) = StrategyIndex(in, j)
      /\ PolicyIndex(in, i) = PolicyIndex(in, j)
  BY <1>1, <1>2, TurnIndices DEF IsInjective
<1> QED BY <1>3, TurnIndices

(* Every memory type, strategy and policy has its turn.                    *)
LEMMA TurnFound ==
  ASSUME NEW in \in GridInputs, NEW a \in ToSet(in.mems), NEW b \in ToSet(in.strategies),
         NEW c \in ToSet(in.policies)
  PROVE  \E i \in 1..TurnsOf(in) :
           MemOf(in, i) = a /\ StrategyOf(in, i) = b /\ PolicyOf(in, i) = c
<1> DEFINE m == Len(in.mems)
           s == Len(in.strategies)
           p == Len(in.policies)
<1>1. /\ in.mems \in Seq(Names) /\ in.strategies \in Seq(Names) /\ in.policies \in Seq(Names)
  BY GridInputsTyped
<1>2. m \in Nat /\ s \in Nat /\ p \in Nat
      /\ DOMAIN in.mems = 1..m /\ DOMAIN in.strategies = 1..s /\ DOMAIN in.policies = 1..p
  BY <1>1
<1>3. PICK x \in 1..m, y \in 1..s, z \in 1..p :
        in.mems[x] = a /\ in.strategies[y] = b /\ in.policies[z] = c
  BY <1>2 DEF ToSet
<1> HIDE DEF m, s, p
<1> DEFINE x0 == x - 1
           y0 == y - 1
           z0 == z - 1
<1>4. x0 \in 0..(m - 1) /\ y0 \in 0..(s - 1) /\ z0 \in 0..(p - 1)
      /\ x0 + 1 = x /\ y0 + 1 = y /\ z0 + 1 = z
  BY <1>2, <1>3
<1> HIDE DEF x0, y0, z0
<1>5. PICK i \in 1..(m * s * p) : IsTurn(i, s, p, x0, y0, z0)
  BY <1>2, <1>4, TurnExists
<1>6. ((i - 1) % p) + 1 = z /\ (((i - 1) \div p) % s) + 1 = y /\ ((i - 1) \div (p * s)) + 1 = x
  BY <1>4, <1>5 DEF IsTurn
<1>7. MemOf(in, i) = a /\ StrategyOf(in, i) = b /\ PolicyOf(in, i) = c
  BY <1>3, <1>6 DEF MemOf, StrategyOf, PolicyOf, m, s, p
<1> QED BY <1>5, <1>7 DEF TurnsOf, m, s, p

LEMMA ConcatDistinctRows ==
  ASSUME NEW T, NEW s \in Seq(T), NEW t \in Seq(T)
  PROVE  /\ s \o t \in Seq(T)
         /\ ToSet(s \o t) = ToSet(s) \cup ToSet(t)
         /\ IsInjective(s) /\ IsInjective(t) /\ ToSet(s) \cap ToSet(t) = {} => IsInjective(s \o t)
<1> DEFINE u == s \o t
<1>1. /\ u \in Seq(T) /\ Len(u) = Len(s) + Len(t)
      /\ DOMAIN s = 1..Len(s) /\ DOMAIN t = 1..Len(t) /\ DOMAIN u = 1..(Len(s) + Len(t))
      /\ Len(s) \in Nat /\ Len(t) \in Nat
      /\ \A i \in 1..(Len(s) + Len(t)) : u[i] = IF i <= Len(s) THEN s[i] ELSE t[i - Len(s)]
  OBVIOUS
<1> HIDE DEF u
<1>2. \A i \in DOMAIN s : i \in DOMAIN u /\ u[i] = s[i]
  BY <1>1
<1>3. \A i \in DOMAIN t : i + Len(s) \in DOMAIN u /\ u[i + Len(s)] = t[i]
  BY <1>1
<1>4. \A i \in DOMAIN u : i \in DOMAIN s \/ (i > Len(s) /\ i - Len(s) \in DOMAIN t /\ u[i] = t[i - Len(s)])
  BY <1>1
<1>5. ToSet(u) = ToSet(s) \cup ToSet(t)
  <2>1. ToSet(u) \subseteq ToSet(s) \cup ToSet(t)
    BY <1>2, <1>4 DEF ToSet
  <2>2. ToSet(s) \subseteq ToSet(u)
    BY <1>2 DEF ToSet
  <2>3. ToSet(t) \subseteq ToSet(u)
    BY <1>3 DEF ToSet
  <2> QED BY <2>1, <2>2, <2>3
<1>6. ASSUME IsInjective(s), IsInjective(t), ToSet(s) \cap ToSet(t) = {},
             NEW i \in DOMAIN u, NEW j \in DOMAIN u, u[i] = u[j], i <= j
      PROVE  i = j
  <2>1. CASE j \in DOMAIN s
    <3>1. i \in DOMAIN s
      BY <1>1, <1>6, <2>1
    <3> QED BY <1>2, <1>6, <2>1, <3>1 DEF IsInjective
  <2>2. CASE j > Len(s) /\ i \in DOMAIN s
    <3>1. s[i] \in ToSet(s) /\ t[j - Len(s)] \in ToSet(t)
      BY <1>1, <1>4, <1>6, <2>2 DEF ToSet
    <3>2. s[i] = t[j - Len(s)]
      BY <1>1, <1>2, <1>4, <1>6, <2>2
    <3> QED BY <1>6, <3>1, <3>2
  <2>3. CASE i > Len(s)
    <3>1. i - Len(s) \in DOMAIN t /\ j - Len(s) \in DOMAIN t /\ t[i - Len(s)] = t[j - Len(s)]
      BY <1>1, <1>4, <1>6, <2>3
    <3>2. i - Len(s) = j - Len(s)
      BY <1>6, <3>1 DEF IsInjective
    <3> QED BY <1>1, <3>2
  <2> QED BY <1>1, <1>4, <1>6, <2>1, <2>2, <2>3
<1>7. IsInjective(s) /\ IsInjective(t) /\ ToSet(s) \cap ToSet(t) = {} => IsInjective(u)
  <2> SUFFICES ASSUME IsInjective(s), IsInjective(t), ToSet(s) \cap ToSet(t) = {},
                      NEW i \in DOMAIN u, NEW j \in DOMAIN u, u[i] = u[j]
               PROVE  i = j
    BY DEF IsInjective
  <2>1. i <= j \/ j <= i
    BY <1>1
  <2> QED BY <1>6, <2>1
<1> QED BY <1>1, <1>5, <1>7 DEF u

LEMMA DistinctCount ==
  ASSUME NEW T, NEW s \in Seq(T), IsInjective(s)
  PROVE  Cardinality(ToSet(s)) = Len(s)
<1>1. DOMAIN s = 1..Len(s) /\ Len(s) \in Nat
  OBVIOUS
<1>2. s \in Bijection(1..Len(s), ToSet(s))
  <2>1. s \in [1..Len(s) -> ToSet(s)]
    BY <1>1 DEF ToSet
  <2> QED BY <1>1, <2>1 DEF Bijection, Injection, Surjection, ToSet, IsInjective
<1>3. ExistsBijection(1..Len(s), ToSet(s))
  BY <1>2 DEF ExistsBijection
<1>4. IsFiniteSet(1..Len(s)) /\ Cardinality(1..Len(s)) = Len(s)
  BY <1>1, FS_Interval
<1> QED BY <1>3, <1>4, FS_Bijection

(* What a turn adds: a cell for each decay of its policy.                  *)
RowsOf(in, i) ==
  [k \in 1..Len(SpecsOf(in, PolicyOf(in, i))) |->
     MatrixCell(MemOf(in, i), StrategyOf(in, i), SpecsOf(in, PolicyOf(in, i))[k])]

LEMMA TurnRows ==
  ASSUME NEW in \in GridInputs, NEW i \in 1..TurnsOf(in)
  PROVE  /\ RowsOf(in, i) \in Seq(GridCells) /\ IsInjective(RowsOf(in, i))
         /\ ToSet(RowsOf(in, i)) = TurnCells(in, i)
<1> DEFINE m == MemOf(in, i)
           s == StrategyOf(in, i)
           p == PolicyOf(in, i)
           specs == SpecsOf(in, p)
           rows == RowsOf(in, i)
<1>1. m \in Names /\ s \in Names /\ p \in Names
  BY TurnTyped
<1>2. specs \in Seq(GridDecays) /\ IsInjective(specs)
  BY <1>1, SpecsTyped
<1>3. rows = [k \in 1..Len(specs) |-> MatrixCell(m, s, specs[k])]
  BY DEF RowsOf
<1>4. TurnCells(in, i) = {MatrixCell(m, s, d) : d \in ToSet(specs)}
  BY DEF TurnCells
<1> HIDE DEF m, s, p, specs, rows
<1>5. Len(specs) \in Nat /\ DOMAIN specs = 1..Len(specs)
      /\ \A k \in 1..Len(specs) : specs[k] \in GridDecays
  BY <1>2
<1>6. ASSUME NEW d \in GridDecays
      PROVE  MatrixCell(m, s, d) \in GridCells /\ MatrixCell(m, s, d).decay = d
  BY <1>1 DEF MatrixCell, GridCells
<1>7. rows \in Seq(GridCells) /\ DOMAIN rows = 1..Len(specs)
      /\ \A k \in 1..Len(specs) : rows[k] = MatrixCell(m, s, specs[k]) /\ rows[k].decay = specs[k]
  BY <1>3, <1>5, <1>6
<1>8. IsInjective(rows)
  BY <1>2, <1>5, <1>7 DEF IsInjective
<1>9. ToSet(rows) = TurnCells(in, i)
  BY <1>4, <1>5, <1>7 DEF ToSet
<1> QED BY <1>7, <1>8, <1>9 DEF rows

(* The cells of two turns differ.                                          *)
LEMMA TurnsApart ==
  ASSUME NEW in \in GridInputs, NEW i \in 1..TurnsOf(in), NEW j \in 1..TurnsOf(in),
         NEW c \in TurnCells(in, i), c \in TurnCells(in, j)
  PROVE  i = j
<1>1. ASSUME NEW k \in 1..TurnsOf(in), c \in TurnCells(in, k)
      PROVE  /\ c.mem = MemOf(in, k) /\ c.strategy = StrategyOf(in, k)
             /\ c.decay.policy = PolicyOf(in, k)
  <2>1. PICK d \in ToSet(SpecsOf(in, PolicyOf(in, k))) : c = MatrixCell(MemOf(in, k), StrategyOf(in, k), d)
    BY <1>1 DEF TurnCells
  <2>2. d \in DecaysOf(in, PolicyOf(in, k))
    BY <2>1, TurnTyped, SpecsTyped
  <2>3. d.policy = PolicyOf(in, k)
    BY <2>2 DEF DecaysOf, Decay
  <2> QED BY <2>1, <2>3 DEF MatrixCell
<1> QED BY <1>1, TurnsDiffer

(***************************************************************************)
(* The expansion of a matrix: each cell of the turns taken, once.          *)
(***************************************************************************)
TurnsTaken(in, t, made) ==
  /\ in \in GridInputs
  /\ t \in 1..(TurnsOf(in) + 1)
  /\ made \in Seq(GridCells) /\ IsInjective(made)
  /\ ToSet(made) = UNION {TurnCells(in, i) : i \in 1..(t - 1)}
GridInv == calculation = "matrix" => TurnsTaken(gridInput, gridTurn, gridCells)

LEMMA TurnsCount == ASSUME NEW in \in GridInputs PROVE TurnsOf(in) \in Nat
<1>1. /\ in.mems \in Seq(Names) /\ in.strategies \in Seq(Names) /\ in.policies \in Seq(Names)
  BY GridInputsTyped
<1>2. Len(in.mems) \in Nat /\ Len(in.strategies) \in Nat /\ Len(in.policies) \in Nat
  BY <1>1
<1>3. ASSUME NEW m \in Nat, NEW s \in Nat, NEW p \in Nat PROVE m * s * p \in Nat
  OBVIOUS
<1> QED BY <1>2, <1>3 DEF TurnsOf

(* MatrixExpander is instantiated as Grid: its operators are those of      *)
(* CellIdentity and of the libraries once more, and its loop indices those *)
(* above.                                                                  *)
LEMMA GridSame ==
  /\ \A S : Grid!Cardinality(S) = Cardinality(S)
  /\ \A s : Grid!ToSet(s) = ToSet(s)
  /\ \A m, s, d : Grid!MatrixCell(m, s, d) = MatrixCell(m, s, d)
  /\ \A p, l, x, f : Grid!Decay(p, l, x, f) = Decay(p, l, x, f)
  /\ \A c : Grid!MatrixRebuilt(c) = MatrixRebuilt(c)
  /\ Grid!NoDecay = NoDecay /\ Grid!DefaultFloor = DefaultFloor
<1>1. \A S : Grid!Cardinality(S) = Cardinality(S)
  BY DEF Grid!Cardinality, Cardinality
<1>2. \A s : Grid!ToSet(s) = ToSet(s)
  BY DEF Grid!ToSet, ToSet
<1>3. \A m, s, d : Grid!MatrixCell(m, s, d) = MatrixCell(m, s, d)
  BY DEF Grid!MatrixCell, MatrixCell
<1>4. \A p, l, x, f : Grid!Decay(p, l, x, f) = Decay(p, l, x, f)
  BY DEF Grid!Decay, Decay
<1>5. \A c : Grid!MatrixRebuilt(c) = MatrixRebuilt(c)
  BY DEF Grid!MatrixRebuilt, MatrixRebuilt, Grid!Decay, Decay, Grid!DefaultFloor, DefaultFloor
<1>6. Grid!NoDecay = NoDecay /\ Grid!DefaultFloor = DefaultFloor
  BY DEF Grid!NoDecay, NoDecay, Grid!Decay, Decay, Grid!DefaultFloor, DefaultFloor
<1> QED BY <1>1, <1>2, <1>3, <1>4, <1>5, <1>6

LEMMA GridIndices ==
  /\ Grid!Turns = TurnsOf(gridInput)
  /\ \A i : /\ Grid!PolicyAt(i) = PolicyOf(gridInput, i)
            /\ Grid!StrategyAt(i) = StrategyOf(gridInput, i)
            /\ Grid!MemAt(i) = MemOf(gridInput, i)
  /\ \A p : Grid!Specs(p) = SpecsOf(gridInput, p)
<1>1. /\ Grid!Turns = TurnsOf(gridInput)
      /\ \A i : /\ Grid!PolicyAt(i) = PolicyOf(gridInput, i)
                /\ Grid!StrategyAt(i) = StrategyOf(gridInput, i)
                /\ Grid!MemAt(i) = MemOf(gridInput, i)
  BY DEF Grid!Turns, Grid!PolicyAt, Grid!StrategyAt, Grid!MemAt, TurnsOf, PolicyOf, StrategyOf, MemOf
<1>2. ASSUME NEW p PROVE Grid!Specs(p) = SpecsOf(gridInput, p)
  <2>1. Grid!Specs(p) =
          CASE p = "none" -> <<NoDecay>>
            [] p = "periodic" -> <<Decay("periodic", 0, 0, DefaultFloor)>>
            [] OTHER -> [i \in 1..Len(gridInput.lambdas) |->
                           Decay(p, gridInput.lambdas[i], 0, DefaultFloor)]
    BY DEF Grid!Specs, Grid!NoDecay, NoDecay, Grid!Decay, Decay, Grid!DefaultFloor, DefaultFloor
  <2> QED BY <2>1 DEF SpecsOf
<1> QED BY <1>1, <1>2

LEMMA GridInit == ASSUME CalculationInit PROVE GridInv
<1> SUFFICES ASSUME calculation = "matrix" PROVE GridInv
  BY DEF GridInv
<1>1. gridInput \in GridInputs /\ gridTurn = 1 /\ gridCells = <<>>
  BY DEF CalculationInit, Grid!Init, GridInputs
<1>2. gridTurn \in 1..(TurnsOf(gridInput) + 1) /\ 1..(gridTurn - 1) = {}
  BY <1>1, TurnsCount
<1>3. gridCells \in Seq(GridCells) /\ IsInjective(gridCells) /\ ToSet(gridCells) = {}
  BY <1>1 DEF IsInjective, ToSet
<1> QED BY <1>1, <1>2, <1>3 DEF GridInv, TurnsTaken

LEMMA GridNext == ASSUME GridInv, [CalculationNext]_allVars PROVE GridInv'
<1>1. CASE UNCHANGED <<calculation, gridVars>>
  <2>1. /\ calculation' = calculation /\ gridInput' = gridInput
        /\ gridTurn' = gridTurn /\ gridCells' = gridCells
    BY <1>1 DEF gridVars
  <2> QED BY <2>1 DEF GridInv
<1>2. CASE ExpandMatrix /\ Grid!Turn
  <2> DEFINE in == gridInput
             i == gridTurn
             new == RowsOf(in, i)
  <2>1. /\ calculation = "matrix" /\ in \in GridInputs /\ i \in 1..(TurnsOf(in) + 1)
        /\ gridCells \in Seq(GridCells) /\ IsInjective(gridCells)
        /\ ToSet(gridCells) = UNION {TurnCells(in, j) : j \in 1..(i - 1)}
    BY <1>2 DEF ExpandMatrix, GridInv, TurnsTaken
  <2>2. /\ i <= TurnsOf(in) /\ gridCells' = gridCells \o new /\ gridTurn' = i + 1
        /\ gridInput' = in
    <3>1. /\ i <= Grid!Turns /\ gridTurn' = i + 1 /\ gridInput' = in
          /\ gridCells' =
               gridCells \o [k \in 1..Len(Grid!Specs(Grid!PolicyAt(i))) |->
                               Grid!MatrixCell(Grid!MemAt(i), Grid!StrategyAt(i),
                                               Grid!Specs(Grid!PolicyAt(i))[k])]
      BY <1>2 DEF ExpandMatrix, Grid!Turn
    <3>2. /\ Grid!Specs(Grid!PolicyAt(i)) = SpecsOf(in, PolicyOf(in, i))
          /\ Grid!MemAt(i) = MemOf(in, i) /\ Grid!StrategyAt(i) = StrategyOf(in, i)
          /\ Grid!Turns = TurnsOf(in)
      BY GridIndices
    <3>3. \A m, s, d : Grid!MatrixCell(m, s, d) = MatrixCell(m, s, d)
      BY GridSame
    <3> QED BY <3>1, <3>2, <3>3 DEF RowsOf
  <2> HIDE DEF in, i, new
  <2>3. i \in 1..TurnsOf(in) /\ TurnsOf(in) \in Nat
    BY <2>1, <2>2, TurnsCount
  <2>4. new \in Seq(GridCells) /\ IsInjective(new) /\ ToSet(new) = TurnCells(in, i)
    BY <2>1, <2>3, TurnRows DEF new
  <2>5. ToSet(gridCells) \cap ToSet(new) = {}
    <3>1. ASSUME NEW c, c \in ToSet(gridCells), c \in ToSet(new) PROVE FALSE
      <4>1. PICK j \in 1..(i - 1) : c \in TurnCells(in, j)
        BY <2>1, <3>1
      <4>2. j \in 1..TurnsOf(in) /\ j # i
        BY <2>3
      <4> QED BY <2>1, <2>3, <2>4, <3>1, <4>1, <4>2, TurnsApart
    <3> QED BY <3>1
  <2>6. /\ gridCells' \in Seq(GridCells) /\ IsInjective(gridCells')
        /\ ToSet(gridCells') = ToSet(gridCells) \cup TurnCells(in, i)
    BY <2>1, <2>2, <2>4, <2>5, ConcatDistinctRows
  <2>7. ToSet(gridCells') = UNION {TurnCells(in, j) : j \in 1..(gridTurn' - 1)}
    <3>1. \A j : j \in 1..(gridTurn' - 1) <=> j \in 1..(i - 1) \/ j = i
      BY <2>2, <2>3
    <3> HIDE DEF TurnCells
    <3> QED BY <2>1, <2>6, <3>1
  <2>8. gridTurn' \in 1..(TurnsOf(in) + 1)
    BY <2>2, <2>3
  <2> QED BY <2>1, <2>2, <2>6, <2>7, <2>8 DEF GridInv, TurnsTaken
<1>3. CASE ExpandMatrix /\ Grid!Done
  BY <1>1, <1>3 DEF ExpandMatrix, Grid!Done, Grid!vars, gridVars
<1> QED BY <1>1, <1>2, <1>3 DEF CalculationNext, ExpandStudy, ExpandMatrix, GrowOld, Grid!Next, allVars

LEMMA GridInvariant == CalculationSpec => []GridInv
<1>1. CalculationInit => GridInv
  BY GridInit
<1>2. GridInv /\ [CalculationNext]_allVars => GridInv'
  BY GridNext
<1> QED BY <1>1, <1>2, PTL DEF CalculationSpec

(* What the four lists of a matrix stand for is made whole and without     *)
(* repetition (MatrixExpander.expand_full: "one per grid combination").    *)
THEOREM MatrixIsWhole == CalculationSpec => []MatrixIsFullGrid
<1>1. ASSUME GridInv, calculation = "matrix", gridTurn > Grid!Turns
      PROVE  /\ ToSet(gridCells) = {MatrixCell(m, s, d) : m \in ToSet(gridInput.mems),
                                      s \in ToSet(gridInput.strategies), d \in Grid!ExpectedDecays}
             /\ Cardinality(ToSet(gridCells)) = Len(gridCells)
  <2> DEFINE in == gridInput
             Expected == {MatrixCell(m, s, d) : m \in ToSet(in.mems),
                            s \in ToSet(in.strategies), d \in Grid!ExpectedDecays}
  <2>1. /\ in \in GridInputs /\ gridCells \in Seq(GridCells) /\ IsInjective(gridCells)
        /\ ToSet(gridCells) = UNION {TurnCells(in, i) : i \in 1..(gridTurn - 1)}
    BY <1>1 DEF GridInv, TurnsTaken
  <2>2. gridTurn - 1 = TurnsOf(in)
    <3>1. gridTurn \in 1..(TurnsOf(in) + 1) /\ gridTurn > TurnsOf(in) /\ TurnsOf(in) \in Nat
      BY <1>1, <2>1, TurnsCount, GridIndices DEF GridInv, TurnsTaken
    <3> QED BY <3>1
  <2>3. ASSUME NEW d
        PROVE  d \in Grid!ExpectedDecays <=> \E p \in ToSet(in.policies) : d \in DecaysOf(in, p)
    <3>1. Grid!ExpectedDecays =
            {e \in {Decay(p, l, 0, DefaultFloor) : p \in ToSet(in.policies), l \in ToSet(in.lambdas) \cup {0}} :
               e.lambda = 0 <=> e.policy \in {"none", "periodic"}}
      BY DEF Grid!ExpectedDecays, Grid!Decay, Decay, Grid!DefaultFloor, DefaultFloor, Grid!ToSet, ToSet
    <3> HIDE DEF in
    <3> QED BY <3>1 DEF DecaysOf
  <2> HIDE DEF in
  <2>4. ASSUME NEW i \in 1..TurnsOf(in), NEW c \in TurnCells(in, i) PROVE c \in Expected
    <3>1. PICK d \in ToSet(SpecsOf(in, PolicyOf(in, i))) : c = MatrixCell(MemOf(in, i), StrategyOf(in, i), d)
      BY DEF TurnCells
    <3>2. d \in DecaysOf(in, PolicyOf(in, i))
      BY <2>1, <3>1, TurnTyped, SpecsTyped
    <3>3. /\ MemOf(in, i) \in ToSet(in.mems) /\ StrategyOf(in, i) \in ToSet(in.strategies)
          /\ PolicyOf(in, i) \in ToSet(in.policies)
      BY <2>1, TurnIndices DEF ToSet, MemOf, StrategyOf, PolicyOf, MemIndex, StrategyIndex, PolicyIndex
    <3> QED BY <2>3, <3>1, <3>2, <3>3
  <2>5. ASSUME NEW m \in ToSet(in.mems), NEW s \in ToSet(in.strategies), NEW d \in Grid!ExpectedDecays
        PROVE  MatrixCell(m, s, d) \in ToSet(gridCells)
    <3>1. PICK p \in ToSet(in.policies) : d \in DecaysOf(in, p)
      BY <2>3
    <3>2. PICK i \in 1..TurnsOf(in) : MemOf(in, i) = m /\ StrategyOf(in, i) = s /\ PolicyOf(in, i) = p
      BY <2>1, TurnFound
    <3>3. d \in ToSet(SpecsOf(in, PolicyOf(in, i)))
      BY <2>1, <3>1, <3>2, TurnTyped, SpecsTyped
    <3>4. MatrixCell(m, s, d) \in TurnCells(in, i)
      BY <3>2, <3>3 DEF TurnCells
    <3> QED BY <2>1, <2>2, <3>2, <3>4
  <2>6. ToSet(gridCells) = Expected
    <3>1. ToSet(gridCells) \subseteq Expected
      <4> HIDE DEF Expected
      <4> QED BY <2>1, <2>2, <2>4
    <3> QED BY <2>5, <3>1
  <2>7. Cardinality(ToSet(gridCells)) = Len(gridCells)
    BY <2>1, DistinctCount
  <2> QED BY <2>6, <2>7 DEF in
<1>2. ASSUME GridInv, calculation = "matrix", gridTurn > Grid!Turns
      PROVE  /\ Grid!ToSet(gridCells) =
                  {Grid!MatrixCell(m, s, d) : m \in Grid!ToSet(gridInput.mems),
                     s \in Grid!ToSet(gridInput.strategies), d \in Grid!ExpectedDecays}
             /\ Grid!Cardinality(Grid!ToSet(gridCells)) = Len(gridCells)
  BY <1>1, <1>2, GridSame
<1>3. GridInv => MatrixIsFullGrid
  BY <1>2 DEF MatrixIsFullGrid, Grid!FullGrid, Grid!Finished
<1> QED BY <1>3, GridInvariant, PTL

LEMMA GridRebuilt ==
  ASSUME NEW c \in GridCells
  PROVE  MatrixRebuilt(c) = c
<1>1. c.decay \in GridDecays /\ c = [mem |-> c.mem, strategy |-> c.strategy, decay |-> c.decay]
  BY DEF GridCells
<1>2. Decay(c.decay.policy, c.decay.lambda, 0, DefaultFloor) = c.decay
  BY <1>1 DEF Decay, GridDecays
<1>3. MatrixRebuilt(c) = [c EXCEPT !.decay = c.decay]
  BY <1>2 DEF MatrixRebuilt
<1>4. [c EXCEPT !.decay = c.decay] = c
  BY DEF GridCells
<1> QED BY <1>3, <1>4

(* A worker process runs the very cell it was handed as a dictionary: with *)
(* its id and its configuration (_run_study_cell_worker, _run_cell_worker).*)
THEOREM NoCellIsMisread == CalculationSpec => []WorkersRunTheirCells
<1>1. StudyInv => (calculation = "study" => WorkerRunsTheCell)
  BY StudyWorkers
<1>2. ASSUME GridInv, calculation = "matrix" PROVE Grid!WorkerRunsTheCell
  <2>1. ToSet(gridCells) \subseteq GridCells
    BY <1>2 DEF GridInv, TurnsTaken, ToSet
  <2>2. \A c \in Grid!ToSet(gridCells) : Grid!MatrixRebuilt(c) = c
    BY <2>1, GridRebuilt, GridSame
  <2> QED BY <2>2 DEF Grid!WorkerRunsTheCell
<1>3. StudyInv /\ GridInv => WorkersRunTheirCells
  BY <1>1, <1>2 DEF WorkersRunTheirCells
<1> QED BY <1>3, StudyInvariant, GridInvariant, PTL

(***************************************************************************)
(* The weight of a memory, in thousandths.                                 *)
(***************************************************************************)
SettingRecords == [type : STRING, lambda : Nat, floor : {FloorUnset} \cup 0..One,
                   archival : Nat, working : Nat]

(* A quotient does not grow with its divisor.                              *)
LEMMA QuotientFalls ==
  ASSUME NEW n \in Nat, NEW b \in Nat \ {0}, NEW c \in Nat, b <= c
  PROVE  n \div c <= n \div b
<1> DEFINE q == n \div b
           r == n % b
           k == n \div c
           t == n % c
<1>1. q \in Int /\ r \in 0..(b - 1) /\ n = b * q + r
  OBVIOUS
<1>2. k \in Int /\ t \in 0..(c - 1) /\ n = c * k + t
  OBVIOUS
<1> HIDE DEF q, r, k, t
<1>3. q >= 0
  <2>1. ASSUME q < 0 PROVE FALSE
    <3>1. b * q <= b * (-1)
      BY <1>1, <2>1
    <3> QED BY <1>1, <3>1
  <2> QED BY <1>1, <2>1
<1>4. ASSUME k > q PROVE FALSE
  <2>1. k >= q + 1 /\ q + 1 \in Nat
    BY <1>1, <1>2, <1>3, <1>4
  <2>2. c * k >= c * (q + 1)
    BY <1>2, <2>1
  <2>3. c * (q + 1) >= b * (q + 1)
    BY <2>1
  <2>4. b * (q + 1) = b * q + b
    BY <1>1
  <2>5. b * q \in Int /\ c * k \in Int /\ c * (q + 1) \in Int
    BY <1>1, <1>2
  <2> QED BY <1>1, <1>2, <2>2, <2>3, <2>4, <2>5
<1> QED BY <1>1, <1>2, <1>4 DEF q, k

LEMMA RawInRange ==
  ASSUME NEW d \in SettingRecords, NEW t \in Ages
  PROVE  Raw(d, t) \in 0..One
<1>1. d.lambda \in Nat /\ d.working \in Nat /\ t \in Nat /\ t <= MaxAge /\ MaxAge \in Nat
  BY DecayAssumption DEF SettingRecords, Ages
<1>2. \A a \in Ages : Exp[a] \in 0..One
  BY DecayAssumption
<1>3. d.lambda * t \in Nat
  BY <1>1
<1>4. CASE d.type = "linear"
  <2> DEFINE x == d.lambda * t
  <2>1. Raw(d, t) = AtLeast(0, One - x) /\ x \in Nat
    BY <1>3, <1>4 DEF Raw
  <2> HIDE DEF x
  <2> QED BY <2>1 DEF AtLeast, One
<1>5. CASE d.type = "logarithmic"
  <2> DEFINE b == One + d.lambda * t
             n == One * One
  <2>1. b \in Nat /\ b >= 1000
    BY <1>3 DEF One
  <2>2. Raw(d, t) = n \div b
    BY <1>5 DEF Raw
  <2>3. n = 1000000
    BY DEF One
  <2> HIDE DEF b, n
  <2>4. n \in Nat /\ n < 1001 * b
    BY <2>1, <2>3
  <2>5. n \div b \in Nat /\ n \div b < 1001
    BY <2>1, <2>4, DivisionBounds
  <2> QED BY <2>2, <2>5 DEF One
<1>6. CASE d.type = "tiered"
  <2>1. Raw(d, t) = IF t <= d.working THEN One ELSE Exp[t - d.working]
    BY <1>6 DEF Raw
  <2>2. t > d.working => t - d.working \in Ages
    BY <1>1 DEF Ages
  <2>3. One \in 0..One
    BY DEF One
  <2>4. CASE t <= d.working
    <3>1. Raw(d, t) = One
      BY <2>1, <2>4
    <3> QED BY <2>3, <3>1
  <2>5. CASE t > d.working
    <3>1. Raw(d, t) = Exp[t - d.working]
      BY <1>1, <2>1, <2>5
    <3> QED BY <1>2, <2>2, <2>5, <3>1
  <2> QED BY <1>1, <2>4, <2>5
<1>7. CASE d.type \notin {"linear", "logarithmic", "tiered"}
  <2>1. Raw(d, t) = Exp[t]
    BY <1>7 DEF Raw
  <2> QED BY <1>2, <2>1
<1> QED BY <1>4, <1>5, <1>6, <1>7

LEMMA RawFalls ==
  ASSUME NEW d \in SettingRecords, d.type # "tiered", NEW t \in Ages, NEW s \in Ages, s <= t
  PROVE  Raw(d, t) <= Raw(d, s)
<1>1. d.lambda \in Nat /\ t \in Nat /\ s \in Nat
  BY DecayAssumption DEF SettingRecords, Ages
<1>2. d.lambda * t \in Nat /\ d.lambda * s \in Nat /\ d.lambda * s <= d.lambda * t
  BY <1>1
<1>3. CASE d.type = "linear"
  <2> DEFINE x == d.lambda * t
             y == d.lambda * s
  <2>1. /\ Raw(d, t) = AtLeast(0, One - x) /\ Raw(d, s) = AtLeast(0, One - y)
        /\ x \in Nat /\ y \in Nat /\ y <= x
    BY <1>2, <1>3 DEF Raw
  <2> HIDE DEF x, y
  <2> QED BY <2>1 DEF AtLeast, One
<1>4. CASE d.type = "logarithmic"
  <2> DEFINE x == One + d.lambda * t
             y == One + d.lambda * s
             n == One * One
  <2>1. x \in Nat /\ y \in Nat \ {0} /\ y <= x /\ n \in Nat
    BY <1>2 DEF One
  <2>2. Raw(d, t) = n \div x /\ Raw(d, s) = n \div y
    BY <1>4 DEF Raw
  <2> HIDE DEF x, y, n
  <2> QED BY <2>1, <2>2, QuotientFalls
<1>5. CASE d.type \notin {"linear", "logarithmic", "tiered"}
  <2>1. Raw(d, t) = Exp[t] /\ Raw(d, s) = Exp[s]
    BY <1>5 DEF Raw
  <2> QED BY <2>1, DecayAssumption
<1> QED BY <1>3, <1>4, <1>5

LEMMA FactorBounded ==
  ASSUME NEW d \in SettingRecords, NEW t \in Ages
  PROVE  Factor(d, t) \in 0..One
<1>1. Raw(d, t) \in 0..One
  BY RawInRange
<1>2. One \in 0..One /\ (d.floor = FloorUnset \/ d.floor \in 0..One)
  BY DEF SettingRecords, One
<1>3. Archived(d, t) \in 0..One
  BY <1>1, <1>2 DEF Archived, AtLeast
<1> QED BY <1>1, <1>2, <1>3 DEF Factor

LEMMA FloorKept ==
  ASSUME NEW d \in SettingRecords, NEW t \in Ages, d.lambda # 0, d.floor # FloorUnset, t >= d.archival,
         ~ (d.type = "tiered" /\ t <= d.working)
  PROVE  /\ Factor(d, t) >= d.floor
         /\ t > d.archival /\ d.type # "tiered" => Factor(d, t) <= AtLeast(Factor(d, t - 1), d.floor)
<1>1. Factor(d, t) = Archived(d, t)
  BY DEF Factor
<1>2. d.floor \in Int /\ Raw(d, t) \in Int
  BY RawInRange DEF SettingRecords, One
<1>3. Factor(d, t) >= d.floor
  BY <1>1, <1>2 DEF Archived, AtLeast
<1>4. ASSUME t > d.archival, d.type # "tiered"
      PROVE  Factor(d, t) <= AtLeast(Factor(d, t - 1), d.floor)
  <2>1. t - 1 \in Ages /\ t - 1 <= t /\ t - 1 >= d.archival
    BY <1>4, DecayAssumption DEF SettingRecords, Ages
  <2>2. Factor(d, t) = AtLeast(Raw(d, t), d.floor)
    BY <1>1, <1>4 DEF Archived
  <2>3. Factor(d, t - 1) = AtLeast(Raw(d, t - 1), d.floor)
    BY <1>4, <2>1 DEF Factor, Archived
  <2>4. Raw(d, t) <= Raw(d, t - 1) /\ Raw(d, t - 1) \in Int
    BY <1>4, <2>1, RawFalls, RawInRange
  <2> QED BY <1>2, <2>2, <2>3, <2>4 DEF AtLeast
<1> QED BY <1>3, <1>4

(***************************************************************************)
(* A memory growing old.                                                   *)
(***************************************************************************)
AgingInv == calculation = "aging" => setting \in Settings /\ age \in Ages

LEMMA AgingInvariant == CalculationSpec => []AgingInv
<1>1. CalculationInit => AgingInv
  BY DecayAssumption DEF CalculationInit, Aging!Init, AgingInv, Ages
<1>2. AgingInv /\ [CalculationNext]_allVars => AgingInv'
  <2> SUFFICES ASSUME AgingInv, [CalculationNext]_allVars PROVE AgingInv'
    OBVIOUS
  <2>1. CASE UNCHANGED <<calculation, agingVars>>
    BY <2>1 DEF AgingInv, agingVars
  <2>2. CASE GrowOld /\ Aging!NextDay
    BY <2>2, DecayAssumption DEF GrowOld, Aging!NextDay, AgingInv, Ages
  <2>3. CASE GrowOld /\ Aging!Done
    BY <2>1, <2>3 DEF GrowOld, Aging!Done, Aging!vars, agingVars
  <2> QED BY <2>1, <2>2, <2>3
      DEF CalculationNext, ExpandStudy, ExpandMatrix, GrowOld, Aging!Next, allVars
<1> QED BY <1>1, <1>2, PTL DEF CalculationSpec

(* Under any formula, rate, floor and day limits the weight of a memory    *)
(* stays within [0, 1], and from the archival day on neither falls below   *)
(* the floor nor rises above both the floor and what it was                *)
(* (BaseLongTermStore._compute_decay_factor).                              *)
THEOREM DecayBounded == CalculationSpec => []DecayWithinBounds
<1>1. \A d, t : Aging!Factor(d, t) = Factor(d, t)
  BY DEF Aging!Factor, Factor, Aging!Archived, Archived, Aging!Raw, Raw, Aging!AtLeast, AtLeast,
         Aging!One, One, Aging!FloorUnset, FloorUnset
<1>2. ASSUME AgingInv, calculation = "aging" PROVE Aging!FactorInRange /\ Aging!FloorHolds
  <2>1. setting \in SettingRecords /\ age \in Ages
    BY <1>2, CalculationAssumption DEF AgingInv, SettingRecords
  <2>2. Aging!FactorInRange
    BY <1>1, <2>1, FactorBounded DEF Aging!FactorInRange, Aging!Now, Aging!One, One
  <2>3. Aging!FloorHolds
    BY <1>1, <2>1, FloorKept
    DEF Aging!FloorHolds, Aging!Now, Aging!AtLeast, AtLeast, Aging!FloorUnset, FloorUnset
  <2> QED BY <2>2, <2>3
<1>3. AgingInv => DecayWithinBounds
  BY <1>2 DEF DecayWithinBounds
<1> QED BY <1>3, AgingInvariant, PTL
=============================================================================
