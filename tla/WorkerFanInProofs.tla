--------------------------- MODULE WorkerFanInProofs ----------------------------
(***************************************************************************)
(* The fan-in of the Session, for any number of workers, messages and      *)
(* delivery fences.                                                        *)
(***************************************************************************)
EXTENDS WorkerFanIn, SequenceTheorems, TLAPS

Fence == [child : Children, generation : Nat]

LifeRecord == [phase : {"new", "working", "reporting", "reported", "cleared"},
               generation : Nat]

(* A life keeps its type in each of its steps. *)
LEMMA LifeSteps ==
  ASSUME NEW l \in LifeRecord
  PROVE  /\ Life!Messaged(l) \in LifeRecord
         /\ Life!Cleared \in LifeRecord
         /\ \A p \in {"new", "working", "reporting", "reported", "cleared"} :
              Life!Moved(l, p) \in LifeRecord
  BY DEF LifeRecord, Life!Messaged, Life!Cleared, Life!Moved

(* The fences stay fences and within their bound, and only that of c is new. *)
LEMMA DeliveriesKeepType ==
  ASSUME FTypeOK, NEW c \in Children
  PROVE  /\ DeliveriesAfter(c) \in Seq(Fence)
         /\ Len(DeliveriesAfter(c)) <= MaxFences
         /\ \A i \in 1..Len(DeliveriesAfter(c)) :
              \/ DeliveriesAfter(c)[i] = [child |-> c, generation |-> lives[c].generation]
              \/ \E j \in 1..Len(deliveries) : DeliveriesAfter(c)[i] = deliveries[j]
<1> DEFINE entry == [child |-> c, generation |-> lives[c].generation]
<1>1. deliveries \in Seq(Fence) /\ Len(deliveries) <= MaxFences
  BY DEF FTypeOK, Fence
<1>2. entry \in Fence
  BY DEF FTypeOK, Fence
<1>3. /\ OtherDeliveries(c) \in Seq(Fence)
      /\ Len(OtherDeliveries(c)) <= Len(deliveries)
      /\ \A k \in 1..Len(OtherDeliveries(c)) :
           \E j \in 1..Len(deliveries) : OtherDeliveries(c)[k] = deliveries[j]
  <2>1. CASE Places(c) = {}
    BY <2>1, <1>1 DEF OtherDeliveries
  <2>2. CASE Places(c) # {}
    <3> DEFINE i == CHOOSE i \in Places(c) : TRUE
               front == SubSeq(deliveries, 1, i - 1)
               back == SubSeq(deliveries, i + 1, Len(deliveries))
    <3>1. i \in 1..Len(deliveries)
      BY <2>2 DEF Places
    <3> HIDE DEF i
    <3>2. /\ front \in Seq(Fence) /\ Len(front) = i - 1
          /\ \A k \in 1..(i - 1) : front[k] = deliveries[k]
      BY <1>1, <3>1, SubSeqProperties
    <3>3. /\ back \in Seq(Fence) /\ Len(back) = Len(deliveries) - i
          /\ \A k \in 1..(Len(deliveries) - i) : back[k] = deliveries[k + i]
      BY <1>1, <3>1, SubSeqProperties
    <3>4. OtherDeliveries(c) = front \o back
      BY <2>2 DEF OtherDeliveries, i
    <3> HIDE DEF front, back
    <3>5. /\ front \o back \in Seq(Fence)
          /\ Len(front \o back) = Len(front) + Len(back)
          /\ \A k \in 1..(Len(front) + Len(back)) :
               (front \o back)[k] = IF k <= Len(front) THEN front[k]
                                                       ELSE back[k - Len(front)]
      BY <3>2, <3>3, ConcatProperties
    <3>6. ASSUME NEW k \in 1..Len(OtherDeliveries(c))
          PROVE  \E j \in 1..Len(deliveries) : OtherDeliveries(c)[k] = deliveries[j]
      <4>1. CASE k <= i - 1
        BY <4>1, <1>1, <3>1, <3>2, <3>3, <3>4, <3>5
      <4>2. CASE k > i - 1
        <5>1. k - (i - 1) \in 1..(Len(deliveries) - i)
          BY <4>2, <1>1, <3>1, <3>2, <3>3, <3>4, <3>5
        <5>2. OtherDeliveries(c)[k] = back[k - Len(front)]
          BY <4>2, <3>1, <3>2, <3>3, <3>4, <3>5
        <5>3. back[k - (i - 1)] = deliveries[k - (i - 1) + i]
          BY <5>1, <3>3
        <5>4. k - (i - 1) + i \in 1..Len(deliveries)
          BY <5>1, <1>1, <3>1
        <5> QED
          BY <5>2, <5>3, <5>4, <3>2
      <4> QED
        BY <4>1, <4>2, <3>1, <1>1
    <3>7. OtherDeliveries(c) \in Seq(Fence) /\ Len(OtherDeliveries(c)) <= Len(deliveries)
      BY <1>1, <3>1, <3>2, <3>3, <3>4, <3>5
    <3> QED
      BY <3>6, <3>7
  <2> QED
    BY <2>1, <2>2
<1> DEFINE all == AllDeliveries(c)
<1>4. /\ all \in Seq(Fence) /\ Len(all) = Len(OtherDeliveries(c)) + 1
      /\ \A k \in 1..Len(OtherDeliveries(c)) : all[k] = OtherDeliveries(c)[k]
      /\ all[Len(all)] = entry
  <2> HIDE DEF entry
  <2>1. all = Append(OtherDeliveries(c), entry)
    BY DEF AllDeliveries, entry
  <2> HIDE DEF all
  <2> QED
    BY <2>1, <1>2, <1>3, AppendProperties
<1>5. Len(all) > MaxFences =>
        /\ Tail(all) \in Seq(Fence) /\ Len(Tail(all)) = Len(all) - 1
        /\ \A k \in 1..(Len(all) - 1) : Tail(all)[k] = all[k + 1]
  <2> HIDE DEF all
  <2>1. Len(all) > 0 => all # <<>>
    OBVIOUS
  <2> QED
    BY <2>1, <1>4, FanInAssumption, HeadTailProperties
<1>6. DeliveriesAfter(c) = IF Len(all) > MaxFences THEN Tail(all) ELSE all
  BY DEF DeliveriesAfter
<1> HIDE DEF all, entry
<1>7. \A k \in 1..Len(all) : all[k] = entry \/ \E j \in 1..Len(deliveries) : all[k] = deliveries[j]
  BY <1>3, <1>4
<1>8. \A i \in 1..Len(DeliveriesAfter(c)) : \E k \in 1..Len(all) : DeliveriesAfter(c)[i] = all[k]
  <2>1. CASE Len(all) > MaxFences
    <3> TAKE i \in 1..Len(DeliveriesAfter(c))
    <3>1. i + 1 \in 1..Len(all) /\ DeliveriesAfter(c)[i] = all[i + 1]
      BY <2>1, <1>4, <1>5, <1>6
    <3> QED
      BY <3>1
  <2>2. CASE ~(Len(all) > MaxFences)
    BY <2>2, <1>6
  <2> QED
    BY <2>1, <2>2
<1>9. \A i \in 1..Len(DeliveriesAfter(c)) :
        \/ DeliveriesAfter(c)[i] = entry
        \/ \E j \in 1..Len(deliveries) : DeliveriesAfter(c)[i] = deliveries[j]
  BY <1>7, <1>8
<1>10. DeliveriesAfter(c) \in Seq(Fence) /\ Len(DeliveriesAfter(c)) <= MaxFences
  BY <1>1, <1>3, <1>4, <1>5, <1>6, FanInAssumption
<1> QED
  BY <1>9, <1>10 DEF entry

--------------------------------------------------------------------------------
(* Generations only grow, and wakes are sent for settled generations. *)
FanOrdered ==
  /\ fan.settled <= fan.generation /\ fan.failure <= fan.generation
  /\ \A i \in 1..Len(wakes) : wakes[i] <= fan.settled

(* Only a registered child has a cached report, and it keeps it until it leaves
   or reports again. *)
Cached ==
  \A c \in Children :
    /\ c \notin children => terminal[c] = "none"
    /\ c \in children => lives[c].phase # "new"
    /\ c \in children /\ lives[c].phase \in {"reported", "cleared"} => terminal[c] # "none"
    /\ lives[c].phase \in {"reporting", "reported"} => result[c] \in Terminals

(* The fences have not seen the generation a worker is at work on. *)
Fenced ==
  \A i \in 1..Len(deliveries) : \A c \in Children :
    deliveries[i].child = c =>
      /\ lives[c].phase # "new"
      /\ lives[c].phase \in {"working", "reporting"} =>
           deliveries[i].generation < lives[c].generation
      /\ lives[c].phase = "reported" => deliveries[i].generation <= lives[c].generation

(* A failure the coordinator has not read suppresses the generation. *)
FailureHolds ==
  (\E c \in children : terminal[c] = "Failed") => fan.failure = fan.generation

FInv ==
  /\ FTypeOK /\ FanOrdered /\ Cached /\ Fenced /\ FailureHolds
  /\ OneWakePerGeneration /\ AllTerminalIsSettled

LEMMA FanInInit == FInit => FInv
<1> SUFFICES ASSUME FInit PROVE FInv
  OBVIOUS
<1>1. Len(deliveries) = 0 /\ Len(wakes) = 0
  BY DEF FInit
<1>2. /\ deliveries \in Seq([child : Children, generation : Nat])
      /\ wakes \in Seq(Nat) /\ Len(deliveries) <= MaxFences
  BY <1>1, FanInAssumption DEF FInit
<1>3. FTypeOK
  BY <1>2 DEF FInit, FTypeOK
<1>4. FanOrdered /\ OneWakePerGeneration /\ Fenced
  BY <1>1 DEF FInit, FanOrdered, OneWakePerGeneration, Fenced
<1>5. Cached /\ FailureHolds /\ AllTerminalIsSettled
  BY DEF FInit, Cached, FailureHolds, AllTerminalIsSettled
<1> QED
  BY <1>3, <1>4, <1>5 DEF FInv

(* The elements of the two sequences have their types. *)
LEMMA ElementTypes ==
  ASSUME FTypeOK
  PROVE  /\ \A i \in 1..Len(deliveries) : deliveries[i].generation \in Nat
         /\ \A i \in 1..Len(wakes) : wakes[i] \in Nat
         /\ Len(wakes) \in Nat
<1>1. deliveries \in Seq(Fence) /\ wakes \in Seq(Nat)
  BY DEF FTypeOK, Fence
<1>2. \A i \in 1..Len(deliveries) : deliveries[i] \in Fence
  BY <1>1, ElementOfSeq
<1>3. \A i \in 1..Len(wakes) : wakes[i] \in Nat
  BY <1>1, ElementOfSeq
<1> QED
  BY <1>1, <1>2, <1>3, LenProperties DEF Fence

(* Steps of a worker alone. *)
LEMMA WorkerMoves ==
  ASSUME FInv, NEW c \in Children,
         MessageWorker(c) \/ (\E s \in Terminals : WorkerReports(c, s)) \/ WorkerCleared(c)
  PROVE  FInv'
<1> USE DEF FInv
<1>0. \A i \in 1..Len(deliveries) : deliveries[i].generation \in Nat
  BY ElementTypes
<1>1. lives[c] \in LifeRecord
  BY DEF FTypeOK, LifeRecord
<1>2. UNCHANGED <<children, terminal, fan, deliveries, busy, wakes>>
  BY DEF MessageWorker, WorkerReports, WorkerCleared
<1>3. /\ lives' \in [Children -> LifeRecord]
      /\ result' \in [Children -> Terminals \cup {"none"}]
  <2>1. CASE MessageWorker(c)
    BY <2>1, <1>1, LifeSteps DEF MessageWorker, Become, FTypeOK, LifeRecord
  <2>2. CASE \E s \in Terminals : WorkerReports(c, s)
    BY <2>2, <1>1, LifeSteps DEF WorkerReports, Become, FTypeOK, LifeRecord
  <2>3. CASE WorkerCleared(c)
    BY <2>3, <1>1, LifeSteps DEF WorkerCleared, Become, FTypeOK, LifeRecord
  <2> QED
    BY <2>1, <2>2, <2>3
<1>4. FTypeOK'
  BY <1>2, <1>3 DEF FTypeOK, LifeRecord
<1>5. (FanOrdered /\ FailureHolds /\ OneWakePerGeneration /\ AllTerminalIsSettled)'
  BY <1>2 DEF FanOrdered, FailureHolds, OneWakePerGeneration, AllTerminalIsSettled
<1>6. Cached' /\ Fenced'
  <2>1. CASE MessageWorker(c)
    <3>1. /\ lives' = [lives EXCEPT ![c] = Life!Messaged(lives[c])]
          /\ result' = result
          /\ c \in children /\ lives[c].phase \in {"working", "reported"}
      BY <2>1 DEF MessageWorker, Become
    <3>2. lives'[c].phase = "working" /\ lives'[c].generation = lives[c].generation + 1
      BY <3>1 DEF Life!Messaged, FTypeOK
    <3>3. \A d \in Children \ {c} : lives'[d] = lives[d]
      BY <3>1 DEF FTypeOK
    <3>4. Cached'
      BY <1>2, <3>1, <3>2, <3>3 DEF Cached
    <3>5. \A i \in 1..Len(deliveries) :
            deliveries[i].child = c => deliveries[i].generation <= lives[c].generation
      BY <1>0, <1>1, <3>1 DEF Fenced, LifeRecord
    <3>6. Fenced'
      <4> SUFFICES ASSUME NEW i \in 1..Len(deliveries), NEW d \in Children,
                          deliveries[i].child = d
                   PROVE  /\ lives'[d].phase # "new"
                          /\ lives'[d].phase \in {"working", "reporting"} =>
                               deliveries[i].generation < lives'[d].generation
                          /\ lives'[d].phase = "reported" =>
                               deliveries[i].generation <= lives'[d].generation
        BY <1>2 DEF Fenced
      <4>1. CASE d = c
        BY <4>1, <1>0, <1>1, <3>2, <3>5 DEF LifeRecord
      <4>2. CASE d # c
        BY <4>2, <3>3 DEF Fenced
      <4> QED
        BY <4>1, <4>2
    <3> QED
      BY <3>4, <3>6
  <2>2. CASE \E s \in Terminals : WorkerReports(c, s)
    BY <2>2, <1>1, <1>2 DEF WorkerReports, Become, Life!Moved, FTypeOK, LifeRecord, Cached, Fenced, Terminals
  <2>3. CASE WorkerCleared(c)
    BY <2>3, <1>1, <1>2 DEF WorkerCleared, Become, Life!Cleared, FTypeOK, LifeRecord, Cached, Fenced
  <2> QED
    BY <2>1, <2>2, <2>3
<1> QED
  BY <1>4, <1>5, <1>6

(* A registration opens a new, unsettled generation. *)
LEMMA RegisterStep ==
  ASSUME FInv, NEW c \in Children, RegisterChild(c)
  PROVE  FInv'
<1> USE DEF FInv
<1>1. lives[c] \in LifeRecord /\ lives[c].phase = "new"
  BY DEF FTypeOK, LifeRecord, RegisterChild
<1>2. /\ UNCHANGED <<terminal, deliveries, busy, result, wakes>>
      /\ children' = children \cup {c}
      /\ lives' = [lives EXCEPT ![c] = Life!Messaged(lives[c])]
      /\ fan' \in [generation : Nat, settled : Nat, failure : Nat]
      /\ fan'.generation = fan.generation + 1 /\ fan'.settled = fan.settled
      /\ fan'.failure = FailureAfterRegister(fan.generation + 1)
  <2>1. FailureAfterRegister(fan.generation + 1) \in Nat
    BY DEF FailureAfterRegister, FTypeOK
  <2>2. fan' = [generation |-> fan.generation + 1, settled |-> fan.settled,
                failure |-> FailureAfterRegister(fan.generation + 1)]
    BY DEF RegisterChild, FTypeOK
  <2> QED
    BY <2>1, <2>2 DEF RegisterChild, Become, FTypeOK
<1>3. FTypeOK'
  BY <1>1, <1>2, LifeSteps DEF FTypeOK, LifeRecord
<1>4. c \notin children /\ terminal[c] = "none"
  BY <1>1 DEF Cached
<1>5. FanOrdered' /\ OneWakePerGeneration'
  BY <1>2 DEF FanOrdered, OneWakePerGeneration, FailureAfterRegister, FTypeOK
<1>6. FailureHolds' /\ AllTerminalIsSettled'
  BY <1>2, <1>4 DEF FailureHolds, AllTerminalIsSettled, FailureAfterRegister
<1>7. Cached' /\ Fenced'
  BY <1>1, <1>2, <1>4 DEF Cached, Fenced, Life!Messaged, FTypeOK, LifeRecord
<1> QED
  BY <1>3, <1>5, <1>6, <1>7

(* A child that leaves had reported, so the set it leaves was settled if what
   remains is. *)
LEMMA LeaveStep ==
  ASSUME FInv, NEW c \in Children, ConsumeChild(c) \/ RemoveChild(c)
  PROVE  FInv'
<1> USE DEF FInv
<1>1. c \in children /\ terminal[c] # "none"
  BY DEF ConsumeChild, RemoveChild, Cached
<1>2. Forget(c)
  BY DEF ConsumeChild, RemoveChild
<1>3. FTypeOK'
  BY <1>2 DEF Forget, FTypeOK
<1>4. (FanOrdered /\ Fenced /\ OneWakePerGeneration)'
  BY <1>2 DEF Forget, FanOrdered, Fenced, OneWakePerGeneration
<1>5. Cached' /\ FailureHolds' /\ AllTerminalIsSettled'
  BY <1>1, <1>2 DEF Forget, FTypeOK, Cached, FailureHolds, AllTerminalIsSettled
<1> QED
  BY <1>3, <1>4, <1>5

(* What the recording of a report that is not a duplicate does. *)
Recorded(c) ==
  /\ terminal' = [terminal EXCEPT ![c] = result[c]]
  /\ deliveries' = DeliveriesAfter(c)
  /\ fan'.generation = fan.generation
  /\ fan'.failure = (IF result[c] = "Failed" THEN fan.generation ELSE fan.failure)
  /\ fan'.settled = (IF AllSettled(c) /\ fan.settled # fan.generation
                     THEN fan.generation ELSE fan.settled)
  /\ fan' \in [generation : Nat, settled : Nat, failure : Nat]
  /\ \/ wakes' = wakes
     \/ /\ AllSettled(c) /\ fan.settled # fan.generation
        /\ fan'.failure # fan.generation
        /\ wakes' = Append(wakes, fan.generation)
  /\ busy' \in BOOLEAN

LEMMA RecordedWhenNew ==
  ASSUME FTypeOK, NEW c \in Children, RecordTerminal(c), ~Duplicate(c)
  PROVE  Recorded(c)
  BY DEF FTypeOK, RecordTerminal, Recorded, NotYetSettled, SettledNow

(* A wake is only sent over children that all reported and none failed. *)
LEMMA EarnedWake ==
  ASSUME FInv, NEW c \in children, c \in Children, Recorded(c), result[c] \in Terminals,
         wakes' # wakes
  PROVE  \A d \in children : terminal'[d] \in {"Completed", "Cancelled"}
<1> USE DEF FInv
<1>1. AllSettled(c) /\ fan'.failure # fan.generation /\ result[c] # "Failed"
  BY DEF Recorded
<1>2. \A d \in children \ {c} : terminal[d] # "none" /\ terminal[d] # "Failed"
  BY <1>1 DEF AllSettled, Recorded, FailureHolds
<1> QED
  BY <1>1, <1>2 DEF FTypeOK, Recorded, Terminals

(* The recording of a report keeps the invariant; l is what becomes of c. *)
LEMMA RecordStep ==
  ASSUME FInv, NEW c \in Children, c \in children,
         lives[c].phase \in {"reporting", "reported"},
         RecordTerminal(c), UNCHANGED <<children, result>>,
         lives' = [lives EXCEPT ![c] = Life!Moved(lives[c], "reported")]
  PROVE  FInv'
<1> USE DEF FInv
<1>0. \A i \in 1..Len(deliveries) : deliveries[i].generation \in Nat
  BY ElementTypes
<1>1. lives[c] \in LifeRecord /\ result[c] \in Terminals
  BY DEF FTypeOK, LifeRecord, Cached
<1>2. /\ lives' \in [Children -> LifeRecord]
      /\ lives'[c].phase = "reported" /\ lives'[c].generation = lives[c].generation
      /\ \A d \in Children \ {c} : lives'[d] = lives[d]
  BY <1>1, LifeSteps DEF FTypeOK, LifeRecord, Life!Moved
<1>3. CASE Duplicate(c)
  <2>1. UNCHANGED <<terminal, deliveries, fan, wakes, busy>>
    BY <1>3 DEF RecordTerminal
  <2>2. lives[c].phase = "reported"
    BY <1>3, <1>0, <1>1 DEF Duplicate, Fenced, LifeRecord
  <2>3. lives' = lives
    BY <2>2, <1>1 DEF Life!Moved, FTypeOK, LifeRecord
  <2> QED
    BY <2>1, <2>3 DEF FTypeOK, FanOrdered, Cached, Fenced, FailureHolds,
                      OneWakePerGeneration, AllTerminalIsSettled
<1>4. CASE ~Duplicate(c)
  <2>1. Recorded(c)
    BY <1>4, RecordedWhenNew
  <2>2. wakes' \in Seq(Nat)
    <3>1. wakes \in Seq(Nat) /\ fan.generation \in Nat
      BY DEF FTypeOK
    <3>2. Append(wakes, fan.generation) \in Seq(Nat)
      BY <3>1, AppendProperties
    <3> QED
      BY <2>1, <3>1, <3>2 DEF Recorded
  <2>3. FTypeOK'
    BY <1>2, <2>1, <2>2, DeliveriesKeepType DEF Recorded, FTypeOK, LifeRecord, Fence
  <2>4. /\ fan.generation \in Nat /\ fan.settled \in Nat /\ fan.failure \in Nat
        /\ \A i \in 1..Len(wakes) : wakes[i] \in Nat /\ wakes[i] <= fan.settled
        /\ Len(wakes) \in Nat
    <3>1. fan.generation \in Nat /\ fan.settled \in Nat /\ fan.failure \in Nat
      BY DEF FTypeOK
    <3>2. \A i \in 1..Len(wakes) : wakes[i] <= fan.settled
      BY DEF FanOrdered
    <3> QED
      BY <3>1, <3>2, ElementTypes
  <2>5. FanOrdered' /\ OneWakePerGeneration'
    <3>1. CASE wakes' = wakes
      BY <3>1, <2>1, <2>4 DEF Recorded, FanOrdered, OneWakePerGeneration
    <3>2. CASE wakes' # wakes
      <4>1. /\ wakes' = Append(wakes, fan.generation)
            /\ fan.settled < fan.generation
            /\ fan'.settled = fan.generation /\ fan'.generation = fan.generation
            /\ fan'.failure <= fan.generation
        BY <3>2, <2>1, <2>4 DEF Recorded, FanOrdered
      <4>2. /\ Len(wakes') = Len(wakes) + 1
            /\ wakes'[Len(wakes) + 1] = fan.generation
            /\ \A i \in 1..Len(wakes) : wakes'[i] = wakes[i]
        BY <4>1, AppendProperties DEF FTypeOK
      <4>3. \A i \in 1..(Len(wakes) + 1) :
              wakes'[i] = IF i = Len(wakes) + 1 THEN fan.generation ELSE wakes[i]
        BY <4>2, <2>4
      <4>4. FanOrdered'
        BY <4>1, <4>2, <4>3, <2>4 DEF FanOrdered
      <4>5. OneWakePerGeneration'
        <5> SUFFICES ASSUME NEW i \in 1..(Len(wakes) + 1), NEW j \in 1..(Len(wakes) + 1),
                            wakes'[i] = wakes'[j], i # j
                     PROVE  FALSE
          BY <4>2 DEF OneWakePerGeneration
        <5>1. CASE i = Len(wakes) + 1 \/ j = Len(wakes) + 1
          BY <5>1, <4>1, <4>3, <2>4
        <5>2. CASE i # Len(wakes) + 1 /\ j # Len(wakes) + 1
          BY <5>2, <4>3, <2>4 DEF OneWakePerGeneration
        <5> QED
          BY <5>1, <5>2
      <4> QED
        BY <4>4, <4>5
    <3> QED
      BY <3>1, <3>2
  <2>6. FailureHolds' /\ AllTerminalIsSettled'
    BY <1>1, <2>1 DEF Recorded, FailureHolds, AllTerminalIsSettled, AllSettled, FTypeOK
  <2>7. Cached'
    BY <1>1, <1>2, <2>1 DEF Recorded, Cached, FTypeOK, Terminals
  <2>8. Fenced'
    <3> SUFFICES ASSUME NEW i \in 1..Len(deliveries'), NEW d \in Children,
                        deliveries'[i].child = d
                 PROVE  /\ lives'[d].phase # "new"
                        /\ lives'[d].phase \in {"working", "reporting"} =>
                             deliveries'[i].generation < lives'[d].generation
                        /\ lives'[d].phase = "reported" =>
                             deliveries'[i].generation <= lives'[d].generation
      BY DEF Fenced
    <3>1. CASE deliveries'[i] = [child |-> c, generation |-> lives[c].generation]
      BY <3>1, <1>1, <1>2 DEF LifeRecord
    <3>2. CASE \E j \in 1..Len(deliveries) : deliveries'[i] = deliveries[j]
      <4>1. PICK j \in 1..Len(deliveries) : deliveries'[i] = deliveries[j]
        BY <3>2
      <4>2. CASE d = c
        BY <4>1, <4>2, <1>0, <1>1, <1>2 DEF Fenced, LifeRecord
      <4>3. CASE d # c
        BY <4>1, <4>3, <1>2 DEF Fenced
      <4> QED
        BY <4>2, <4>3
    <3> QED
      BY <3>1, <3>2, <2>1, DeliveriesKeepType DEF Recorded
  <2> QED
    BY <2>3, <2>5, <2>6, <2>7, <2>8
<1> QED
  BY <1>3, <1>4

(* The wake of a recording step is earned, whoever it is recorded for. *)
LEMMA RecordWakes ==
  ASSUME FInv, NEW c \in Children, c \in children,
         lives[c].phase \in {"reporting", "reported"},
         RecordTerminal(c), UNCHANGED <<children, result>>
  PROVE  wakes' # wakes =>
           \A d \in children' : terminal'[d] \in {"Completed", "Cancelled"}
<1>1. CASE Duplicate(c)
  BY <1>1 DEF RecordTerminal
<1>2. CASE ~Duplicate(c)
  <2>1. Recorded(c) /\ result[c] \in Terminals
    BY <1>2, RecordedWhenNew DEF FInv, Cached
  <2> QED
    BY <2>1, EarnedWake
<1> QED
  BY <1>1, <1>2

LEMMA FanInStep ==
  ASSUME FInv, [FNext]_fvars
  PROVE  /\ FInv'
         /\ wakes' # wakes =>
              \A d \in children' : terminal'[d] \in {"Completed", "Cancelled"}
<1>1. ASSUME NEW c \in Children,
             MessageWorker(c) \/ (\E s \in Terminals : WorkerReports(c, s)) \/ WorkerCleared(c)
      PROVE  FInv' /\ wakes' = wakes
  BY <1>1, WorkerMoves DEF MessageWorker, WorkerReports, WorkerCleared
<1>2. ASSUME NEW c \in Children, RegisterChild(c)
      PROVE  FInv' /\ wakes' = wakes
  BY <1>2, RegisterStep DEF RegisterChild
<1>3. ASSUME NEW c \in Children, ConsumeChild(c) \/ RemoveChild(c)
      PROVE  FInv' /\ wakes' = wakes
  BY <1>3, LeaveStep DEF ConsumeChild, RemoveChild, Forget
<1>4. ASSUME NEW c \in Children, RecordWorkerChildTerminal(c)
      PROVE  /\ FInv'
             /\ wakes' # wakes =>
                  \A d \in children' : terminal'[d] \in {"Completed", "Cancelled"}
  <2>1. CASE /\ lives[c].phase = "reporting" /\ c \in children
             /\ RecordTerminal(c)
             /\ lives' = [lives EXCEPT ![c] = Life!Moved(lives[c], "reported")]
    BY <1>4, <2>1, RecordStep, RecordWakes DEF RecordWorkerChildTerminal
  <2>2. CASE /\ lives[c].phase = "reporting" /\ c \notin children
             /\ lives' = [lives EXCEPT ![c] = Life!Moved(lives[c], "working")]
             /\ UNCHANGED <<terminal, deliveries, fan, wakes, busy>>
    <3> USE DEF FInv
    <3>1. UNCHANGED <<children, result, terminal, deliveries, fan, wakes, busy>>
      BY <1>4, <2>2 DEF RecordWorkerChildTerminal
    <3>2. /\ lives[c] \in LifeRecord
          /\ lives' \in [Children -> LifeRecord]
          /\ lives'[c].phase = "working" /\ lives'[c].generation = lives[c].generation
          /\ \A d \in Children \ {c} : lives'[d] = lives[d]
      BY <2>2, LifeSteps DEF FTypeOK, LifeRecord, Life!Moved
    <3>3. FTypeOK'
      BY <3>1, <3>2 DEF FTypeOK, LifeRecord
    <3>4. Cached' /\ Fenced'
      BY <2>2, <3>1, <3>2, ElementTypes DEF Cached, Fenced, LifeRecord
    <3> QED
      BY <3>1, <3>3, <3>4 DEF FanOrdered, FailureHolds, OneWakePerGeneration, AllTerminalIsSettled
  <2>3. CASE /\ lives[c].phase = "reported" /\ c \in children
             /\ RecordTerminal(c) /\ UNCHANGED lives
    <3>1. lives' = [lives EXCEPT ![c] = Life!Moved(lives[c], "reported")]
      BY <2>3 DEF FInv, FTypeOK, Life!Moved
    <3> QED
      BY <1>4, <2>3, <3>1, RecordStep, RecordWakes DEF RecordWorkerChildTerminal
  <2> QED
    BY <1>4, <2>1, <2>2, <2>3 DEF RecordWorkerChildTerminal, Become
<1>5. CASE SuppressGeneration
  <2> USE DEF FInv
  <2>1. UNCHANGED <<children, terminal, deliveries, busy, lives, result, wakes>>
    BY <1>5 DEF SuppressGeneration
  <2>2. fan' = [generation |-> fan.generation, settled |-> fan.settled,
                failure |-> fan.generation]
    BY <1>5 DEF SuppressGeneration, FTypeOK
  <2>3. FTypeOK'
    BY <2>1, <2>2 DEF FTypeOK
  <2>4. FanOrdered' /\ AllTerminalIsSettled' /\ FailureHolds'
    BY <2>1, <2>2 DEF FTypeOK, FanOrdered, FailureHolds, AllTerminalIsSettled
  <2>5. Cached' /\ Fenced' /\ OneWakePerGeneration'
    BY <2>1 DEF Cached, Fenced, OneWakePerGeneration
  <2> QED
    BY <2>1, <2>3, <2>4, <2>5
<1>6. CASE CoordinatorMoves \/ UNCHANGED fvars
  <2>1. UNCHANGED <<children, terminal, fan, deliveries, lives, result, wakes>>
    BY <1>6 DEF CoordinatorMoves, fvars
  <2>2. busy' \in BOOLEAN
    BY <1>6 DEF CoordinatorMoves, fvars, FInv, FTypeOK
  <2> QED
    BY <2>1, <2>2 DEF FInv, FTypeOK, FanOrdered, Cached, Fenced, FailureHolds,
                      OneWakePerGeneration, AllTerminalIsSettled
<1> QED
  BY <1>1, <1>2, <1>3, <1>4, <1>5, <1>6 DEF FNext

LEMMA FanInInvariant == FSpec => []FInv
<1>1. FInv /\ [FNext]_fvars => FInv'
  BY FanInStep
<1> QED
  BY <1>1, FanInInit, PTL DEF FSpec

(* The registry, the fences and the lives of the workers keep their types; the
   list of fences never exceeds MAX_WORKER_TERMINAL_DELIVERY_FENCES. *)
THEOREM FanInTypeCorrect == FSpec => []FTypeOK
<1>1. FInv => FTypeOK
  BY DEF FInv
<1> QED
  BY <1>1, FanInInvariant, PTL

(* record_terminal wakes the coordinator at most once per registered set. *)
THEOREM WakesOncePerGeneration == FSpec => []OneWakePerGeneration
<1>1. FInv => OneWakePerGeneration
  BY DEF FInv
<1> QED
  BY <1>1, FanInInvariant, PTL

(* No path through registration, consumption, removal and cancellation leaves a
   finished set of children unobserved. *)
THEOREM FinishedSetIsSettled == FSpec => []AllTerminalIsSettled
<1>1. FInv => AllTerminalIsSettled
  BY DEF FInv
<1> QED
  BY <1>1, FanInInvariant, PTL

(* A wake is only recorded over children that all reported without failure. *)
THEOREM WakesAreEarned == FSpec => WakeIsEarned
<1>1. FInv /\ [FNext]_fvars =>
        [wakes' # wakes => \A c \in children' : terminal'[c] \in {"Completed", "Cancelled"}]_fvars
  BY FanInStep
<1> QED
  BY <1>1, FanInInvariant, PTL DEF FSpec, WakeIsEarned
================================================================================
