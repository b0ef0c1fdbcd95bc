------------------------- MODULE TurnRecordsProofs -------------------------
(***************************************************************************)
(* Proofs about what a turn leaves in the database: its reply              *)
(* (TurnMessage) and what it spends (ModelSpending), for any turns.  The   *)
(* two share the turns and no variable.                                    *)
(*                                                                         *)
(* The sums of ModelSpending are folds over finite sets.  Sums below       *)
(* derives what the proofs need of them from the well-founded order of the *)
(* natural numbers.                                                        *)
(***************************************************************************)
EXTENDS TurnMessage, ModelSpending, Integers, FiniteSetTheorems, WellFoundedInduction, TLAPS

-----------------------------------------------------------------------------
(* TurnMessage: the inductive invariant                                    *)

PastDrain == {"finishing", "retrying", "settling", "reporting", "done"}

\* A checkpoint is sent by a stream.  One that is still to land when its turn is past the
\* drain was named late there.
CheckpointInv ==
  \A t \in Turns :
    /\ pc[t] \in {"idle", "admitted", "setup"} => cp[t] = "none"
    /\ cp[t] = "sent" /\ (pc[t] \in PastDrain \/ t \in saved) => t \in late

\* A turn has its outcome when its stream is over, and saves it once.
OutcomeInv ==
  \A t \in Turns :
    /\ pc[t] \in PastDrain \cup {"draining"} => outcome[t] \in Outcomes
    /\ t \in saved => pc[t] \in {"settling", "reporting", "done", "crashed"} /\ outcome[t] \in Outcomes
    /\ pc[t] \in {"settling", "reporting", "done"} /\ outcome[t] = "completed" => t \in saved

MessageInv == TypeOK /\ CheckpointInv /\ OutcomeInv /\ FinalIsFinal

\* What no step of another turn, of the lease or of a sweep does to a saved row.
UntouchedRow(t) == row'[t] = row[t] \/ row[t].status \in Mid

-----------------------------------------------------------------------------
(* TurnMessage: the steps                                                  *)

\* A sweep and an admission keep the shape of the rows and write only rows that are mid-turn.
LEMMA InterruptRows ==
  ASSUME TypeOK, NEW S, S \subseteq MidRows, Interrupt(S)
  PROVE  /\ row' \in [Turns -> [status : Mid \cup Outcomes \cup {"absent"}, text : 0..MaxText]]
         /\ old' \subseteq Turns
         /\ \A t \in Turns : UntouchedRow(t)
BY DEF TypeOK, Interrupt, MidRows, UntouchedRow, Mid, Outcomes

\* A write of the stream writer touches its own row.
LEMMA UpdateRow ==
  ASSUME TypeOK, NEW t \in Turns, NEW s \in Mid \cup Outcomes, NEW n \in 0..MaxText, UpdateContent(t, s, n)
  PROVE  /\ row' \in [Turns -> [status : Mid \cup Outcomes \cup {"absent"}, text : 0..MaxText]]
         /\ old' \subseteq Turns
         /\ row'[t] = [status |-> s, text |-> n]
         /\ \A u \in Turns : u # t => row'[u] = row[u]
BY DEF TypeOK, UpdateContent

\* A step that only writes rows that are mid-turn leaves every saved outcome alone.
LEMMA QuietStep ==
  ASSUME MessageInv, TypeOK', \A t \in Turns : UntouchedRow(t), UNCHANGED <<cpVars, text, outcome, saved, late>>,
         \A t \in Turns : pc'[t] = pc[t] \/ (pc'[t] \notin PastDrain \cup {"draining"} /\ t \notin saved /\ cp[t] = "none")
  PROVE  MessageInv'
<1> USE DEF MessageInv
<1>1. CheckpointInv'
  BY DEF CheckpointInv, cpVars, PastDrain
<1>2. OutcomeInv'
  BY DEF OutcomeInv, PastDrain
<1>3. FinalIsFinal'
  <2>1. saved \subseteq Turns
    BY DEF TypeOK
  <2> QED
    BY <2>1 DEF OutcomeInv, FinalIsFinal, UntouchedRow, Mid, Outcomes
<1> QED
  BY <1>1, <1>2, <1>3

\* The steps of the lease and of the sweeps.
LEMMA OuterStep ==
  ASSUME MessageInv,
         \/ \E t \in Turns : Acquire(t) \/ LoseLease(t) \/ ShutdownMark(t) \/ Age(t) \/ SweepStale(t)
         \/ ExpireLease \/ SweepExpired \/ StopLease
  PROVE  MessageInv'
<1> USE DEF MessageInv
<1>1. ASSUME NEW t \in Turns, Acquire(t) PROVE MessageInv'
  <2>1. PICK S \in SUBSET MidRows : Interrupt(S)
    BY <1>1 DEF Acquire, MidRows
  <2>2. TypeOK'
    BY <1>1, <2>1, InterruptRows DEF Acquire, TypeOK, cpVars
  <2>3. t \notin saved /\ cp[t] = "none"
    BY <1>1 DEF Acquire, OutcomeInv, CheckpointInv
  <2>4. \A u \in Turns : pc'[u] = pc[u] \/ (u = t /\ pc'[u] = "admitted")
    BY <1>1 DEF Acquire, TypeOK
  <2>5. \A u \in Turns : UntouchedRow(u)
    BY <2>1, InterruptRows
  <2> QED
    BY <1>1, <2>2, <2>3, <2>4, <2>5, QuietStep DEF Acquire, PastDrain
<1>2. ASSUME NEW t \in Turns, ShutdownMark(t) \/ SweepStale(t) PROVE MessageInv'
  <2>1. Interrupt({t}) /\ {t} \subseteq MidRows
    BY <1>2 DEF ShutdownMark, SweepStale, Stale
  <2>2. TypeOK' /\ \A u \in Turns : UntouchedRow(u)
    BY <1>2, <2>1, InterruptRows DEF ShutdownMark, SweepStale, TypeOK, leaseVars, cpVars, turnVars
  <2> QED
    BY <1>2, <2>2, QuietStep DEF ShutdownMark, SweepStale, turnVars
<1>3. CASE SweepExpired
  <2>1. Interrupt(MidRows \ uncovered)
    BY <1>3 DEF SweepExpired
  <2>2. TypeOK' /\ \A u \in Turns : UntouchedRow(u)
    BY <1>3, <2>1, InterruptRows DEF SweepExpired, TypeOK, MidRows, cpVars, turnVars
  <2> QED
    BY <1>3, <2>2, QuietStep DEF SweepExpired, turnVars
<1>4. CASE (\E t \in Turns : LoseLease(t) \/ Age(t)) \/ ExpireLease \/ StopLease
  <2>1. TypeOK' /\ UNCHANGED <<row, cpVars, turnVars, late>>
    BY <1>4 DEF LoseLease, Releases, Age, MidRows, ExpireLease, StopLease, TypeOK, leaseVars, rowVars, cpVars, turnVars
  <2> QED
    BY <2>1, QuietStep DEF turnVars, UntouchedRow
<1> QED
  BY <1>1, <1>2, <1>3, <1>4

\* The types of a step of the stream writer.
LEMMA WriterType ==
  ASSUME MessageInv, NEW t \in Turns, WriterStep(t)
  PROVE  TypeOK'
<1> USE DEF MessageInv
<1>1. CASE CreateRow(t)
  <2>1. row' \in [Turns -> [status : Mid \cup Outcomes \cup {"absent"}, text : 0..MaxText]]
    BY <1>1, TextAssumption DEF CreateRow, TypeOK, Mid
  <2> QED
    BY <1>1, <2>1 DEF CreateRow, TypeOK, InProgress, cpVars
<1>2. CASE CreateFails(t) \/ StartStream(t) \/ SetupFails(t) \/ EndStream(t) \/ Drain(t) \/ DrainDeadline(t)
  <2>1. UNCHANGED <<lease, uncovered, row, old, text, cp, cpText, saved, swept>>
    BY <1>2 DEF CreateFails, StartStream, SetupFails, EndStream, Drain, DrainDeadline, leaseVars, rowVars, cpVars
  <2>2. pc' \in [Turns -> InProgress \cup {"idle", "admitted", "settling", "reporting", "done", "crashed"}]
    BY <1>2 DEF CreateFails, StartStream, SetupFails, EndStream, Drain, DrainDeadline, TypeOK, InProgress
  <2>3. outcome' \in [Turns -> Outcomes \cup {"none"}] /\ late' \subseteq Turns
    BY <1>2 DEF CreateFails, StartStream, SetupFails, EndStream, Drain, DrainDeadline, TypeOK, Outcomes
  <2> QED
    BY <2>1, <2>2, <2>3 DEF TypeOK
<1>6. CASE Delta(t) \/ CheckpointSend(t) \/ CheckpointSettle(t)
  <2>1. UNCHANGED <<lease, uncovered, row, old, pc, outcome, saved, late, swept>>
    BY <1>6 DEF Delta, CheckpointSend, CheckpointSettle, leaseVars, rowVars, turnVars
  <2>2. text' \in [Turns -> 0..MaxText]
    BY <1>6, TextAssumption DEF Delta, CheckpointSend, CheckpointSettle, TypeOK, turnVars
  <2>3. cp' \in [Turns -> {"none", "sent", "landed"}] /\ cpText' \in [Turns -> 0..MaxText]
    BY <1>6, TextAssumption DEF Delta, CheckpointSend, CheckpointSettle, TypeOK, cpVars
  <2> QED
    BY <2>1, <2>2, <2>3 DEF TypeOK
<1>3. CASE CheckpointLand(t)
  <2>1. UpdateContent(t, "streaming", cpText[t]) /\ cpText[t] \in 0..MaxText
    BY <1>3 DEF CheckpointLand, TypeOK
  <2> QED
    BY <1>3, <2>1, UpdateRow DEF CheckpointLand, TypeOK, Mid, leaseVars, turnVars
<1>4. CASE FinalWrite(t) \/ FailureWrite(t)
  <2>1. outcome[t] \in Outcomes /\ text[t] \in 0..MaxText /\ FailureOutcome(outcome[t]) \in Outcomes
    BY <1>4 DEF FinalWrite, FailureWrite, FailureOutcome, OutcomeInv, PastDrain, TypeOK, Outcomes
  <2>2. row' \in [Turns -> [status : Mid \cup Outcomes \cup {"absent"}, text : 0..MaxText]] /\ old' \subseteq Turns
    BY <1>4, <2>1, UpdateRow DEF FinalWrite, FailureWrite, TypeOK, rowVars
  <2>3. pc' \in [Turns -> InProgress \cup {"idle", "admitted", "settling", "reporting", "done", "crashed"}]
    BY <1>4 DEF FinalWrite, FailureWrite, TypeOK, InProgress
  <2>4. outcome' \in [Turns -> Outcomes \cup {"none"}] /\ saved' \subseteq Turns
    BY <1>4, <2>1 DEF FinalWrite, FailureWrite, TypeOK
  <2>5. UNCHANGED <<lease, uncovered, cp, cpText, text, late, swept>>
    BY <1>4 DEF FinalWrite, FailureWrite, leaseVars, cpVars
  <2> QED
    BY <2>2, <2>3, <2>4, <2>5 DEF TypeOK
<1>5. CASE Settle(t) \/ Report(t)
  BY <1>5 DEF Settle, Releases, Report, TypeOK, leaseVars, rowVars, cpVars
<1> QED
  BY <1>1, <1>2, <1>3, <1>4, <1>5, <1>6 DEF WriterStep

\* A writer moves its own turn only.
LEMMA OthersStay ==
  ASSUME MessageInv, NEW t \in Turns, WriterStep(t), NEW u \in Turns, u # t
  PROVE  /\ row'[u] = row[u] /\ pc'[u] = pc[u] /\ cp'[u] = cp[u] /\ outcome'[u] = outcome[u] /\ text'[u] = text[u]
         /\ (u \in saved' <=> u \in saved) /\ (u \in late' <=> u \in late)
<1> USE DEF MessageInv, TypeOK
<1>1. CASE CreateRow(t) \/ CreateFails(t) \/ StartStream(t) \/ SetupFails(t) \/ Delta(t) \/ CheckpointSend(t)
  BY <1>1 DEF CreateRow, CreateFails, StartStream, SetupFails, Delta, CheckpointSend, rowVars, cpVars, turnVars
<1>2. CASE CheckpointLand(t) \/ CheckpointSettle(t) \/ EndStream(t) \/ Drain(t) \/ DrainDeadline(t)
  BY <1>2 DEF CheckpointLand, UpdateContent, CheckpointSettle, EndStream, Drain, DrainDeadline, rowVars, cpVars, turnVars
<1>3. CASE FinalWrite(t) \/ FailureWrite(t) \/ Settle(t) \/ Report(t)
  BY <1>3 DEF FinalWrite, FailureWrite, UpdateContent, Settle, Report, rowVars, cpVars
<1> QED
  BY <1>1, <1>2, <1>3 DEF WriterStep

Finality(t) == t \in saved \ late => row[t] = [status |-> outcome[t], text |-> text[t]]
CheckpointOf(t) ==
  /\ pc[t] \in {"idle", "admitted", "setup"} => cp[t] = "none"
  /\ cp[t] = "sent" /\ (pc[t] \in PastDrain \/ t \in saved) => t \in late
OutcomeOf(t) ==
  /\ pc[t] \in PastDrain \cup {"draining"} => outcome[t] \in Outcomes
  /\ t \in saved => pc[t] \in {"settling", "reporting", "done", "crashed"} /\ outcome[t] \in Outcomes
  /\ pc[t] \in {"settling", "reporting", "done"} /\ outcome[t] = "completed" => t \in saved
TurnInv(t) == CheckpointOf(t) /\ OutcomeOf(t) /\ Finality(t)

\* What a writer does to its own turn.
LEMMA OwnStep ==
  ASSUME MessageInv, NEW t \in Turns, WriterStep(t)
  PROVE  TurnInv(t)'
<1>0. TurnInv(t)
  BY DEF MessageInv, CheckpointInv, OutcomeInv, FinalIsFinal, TurnInv, CheckpointOf, OutcomeOf, Finality
<1> USE DEF TurnInv, CheckpointOf, OutcomeOf, Finality, PastDrain, Outcomes
<1>t. TypeOK
  BY DEF MessageInv
<1>1. CASE CreateRow(t) \/ CreateFails(t) \/ StartStream(t) \/ SetupFails(t)
  BY <1>0, <1>t, <1>1 DEF CreateRow, CreateFails, StartStream, SetupFails, TypeOK, rowVars, cpVars
<1>2. CASE Delta(t) \/ CheckpointSend(t)
  BY <1>0, <1>t, <1>2 DEF Delta, CheckpointSend, TypeOK, rowVars, cpVars, turnVars
<1>3. CASE CheckpointLand(t)
  BY <1>0, <1>t, <1>3 DEF CheckpointLand, TypeOK, turnVars
<1>4. CASE CheckpointSettle(t) \/ EndStream(t)
  BY <1>0, <1>t, <1>4 DEF CheckpointSettle, EndStream, TypeOK, rowVars, cpVars, turnVars
<1>5. CASE Drain(t) \/ DrainDeadline(t)
  BY <1>0, <1>t, <1>5 DEF Drain, Drained, DrainDeadline, DeadlinePasses, TypeOK, rowVars, cpVars
<1>6. CASE FinalWrite(t)
  BY <1>0, <1>t, <1>6 DEF FinalWrite, UpdateContent, TypeOK, cpVars
<1>7. CASE FailureWrite(t)
  BY <1>0, <1>t, <1>7 DEF FailureWrite, FailureOutcome, TypeOK, cpVars
<1>8. CASE Settle(t) \/ Report(t)
  BY <1>0, <1>t, <1>8 DEF Settle, Report, TypeOK, rowVars, cpVars
<1> QED
  BY <1>1, <1>2, <1>3, <1>4, <1>5, <1>6, <1>7, <1>8 DEF WriterStep

\* A crash leaves the row and what was saved.
LEMMA CrashStep ==
  ASSUME MessageInv, NEW t \in Turns, Crash(t)
  PROVE  MessageInv'
<1> USE DEF MessageInv
<1>1. UNCHANGED <<row, outcome, text, saved, late, cp>> /\ \A u \in Turns : pc'[u] \in {pc[u], "crashed"}
  BY DEF Crash, TypeOK, rowVars, cpVars
<1>2. TypeOK'
  BY DEF Crash, TypeOK, leaseVars, rowVars, cpVars
<1>3. CheckpointInv' /\ OutcomeInv'
  BY <1>1 DEF CheckpointInv, OutcomeInv, PastDrain
<1>4. FinalIsFinal'
  BY <1>1 DEF FinalIsFinal
<1> QED
  BY <1>2, <1>3, <1>4

-----------------------------------------------------------------------------
(* TurnMessage: the theorems                                               *)

\* The inductive invariant holds at the start, and every step preserves it.
THEOREM MessageCorrect == Spec => []MessageInv
<1>1. Init => MessageInv
  BY TurnAssumption, TextAssumption
     DEF Init, MessageInv, TypeOK, CheckpointInv, OutcomeInv, FinalIsFinal, PastDrain, InProgress, Outcomes, Mid
<1>2. MessageInv /\ [Next]_vars => MessageInv'
  <2> SUFFICES ASSUME MessageInv, [Next]_vars PROVE MessageInv'
    OBVIOUS
  <2>1. ASSUME NEW t \in Turns, WriterStep(t) PROVE MessageInv'
    <3>1. \A u \in Turns : TurnInv(u)
      BY DEF MessageInv, CheckpointInv, OutcomeInv, FinalIsFinal, TurnInv, CheckpointOf, OutcomeOf, Finality
    <3>2. \A u \in Turns : TurnInv(u)'
      <4>1. ASSUME NEW u \in Turns, u # t PROVE TurnInv(u)'
        <5>1. TurnInv(u)
          BY <3>1
        <5> QED
          BY <2>1, <4>1, <5>1, OthersStay DEF TurnInv, CheckpointOf, OutcomeOf, Finality
      <4>2. TurnInv(t)'
        BY <2>1, OwnStep
      <4> QED BY <4>1, <4>2
    <3>3. TypeOK'
      BY <2>1, WriterType
    <3>4. saved' \subseteq Turns
      BY <3>3 DEF TypeOK
    <3> QED
      BY <3>2, <3>3, <3>4 DEF MessageInv, CheckpointInv, OutcomeInv, FinalIsFinal, TurnInv, CheckpointOf, OutcomeOf, Finality
  <2>2. CASE UNCHANGED vars
    BY <2>2 DEF vars, leaseVars, rowVars, cpVars, turnVars, MessageInv, TypeOK, CheckpointInv, OutcomeInv, FinalIsFinal
  <2> QED
    BY <2>1, <2>2, OuterStep, CrashStep DEF Next
<1> QED
  BY <1>1, <1>2, PTL DEF Spec

\* The outcome that the stream writer saved stays on the row with the whole text, whoever
\* writes rows later, unless a checkpoint outlived the drain deadline.
THEOREM FinalIsFinalHolds == Spec => []FinalIsFinal
<1>1. MessageInv => FinalIsFinal
  BY DEF MessageInv
<1> QED
  BY <1>1, MessageCorrect, PTL

\* The stream writer tells its client of success only when success is on the row.
THEOREM MessageInvariantHolds == Spec => []MessageInvariant
<1>1. MessageInv => MessageInvariant
  <2> SUFFICES ASSUME MessageInv, NEW t \in Turns, Told(t, "completed")
               PROVE  t \in saved /\ (t \in late \/ row[t].status = "completed")
    BY DEF MessageInv, MessageInvariant, SuccessIsSaved
  <2>1. t \in saved
    BY DEF MessageInv, OutcomeInv, Told
  <2>2. t \notin late => row[t] = [status |-> outcome[t], text |-> text[t]]
    BY <2>1 DEF MessageInv, FinalIsFinal
  <2> QED
    BY <2>1, <2>2 DEF Told
<1> QED
  BY <1>1, MessageCorrect, PTL

-----------------------------------------------------------------------------
(* Sums                                                                    *)

\* A set with 0 and the successor of each of its naturals holds every natural.
LEMMA NatSubset ==
  ASSUME NEW S, 0 \in S, \A n \in S \cap Nat : n + 1 \in S
  PROVE  Nat \subseteq S
<1> DEFINE T == Nat \ S
<1> SUFFICES ASSUME T # {} PROVE FALSE
  OBVIOUS
<1>1. PICK x \in T : \A y \in T : ~(<<y, x>> \in OpToRel(<, Nat))
  BY NatLessThanWellFounded, WFMin
<1>2. x \in Nat /\ x # 0 /\ x - 1 \in Nat
  OBVIOUS
<1>3. <<x - 1, x>> \in OpToRel(<, Nat)
  BY <1>2 DEF OpToRel
<1>4. x - 1 \in S
  BY <1>1, <1>2, <1>3
<1>5. (x - 1) + 1 \in S
  BY <1>2, <1>4
<1> QED BY <1>2, <1>5

\* Induction over a finite set S: F holds every subset of S when it holds each one whose
\* subsets with one element less it holds.
LEMMA SetInduction ==
  ASSUME NEW S, IsFiniteSet(S), NEW F,
         \A T \in SUBSET S : (\A x \in T : T \ {x} \in F) => T \in F
  PROVE  SUBSET S \subseteq F
<1> DEFINE N == {n \in Nat : \A T \in SUBSET S : Cardinality(T) = n => T \in F}
<1>0. \A T \in SUBSET S : IsFiniteSet(T) /\ Cardinality(T) \in Nat
  BY FS_Subset, FS_CardinalityType
<1>1. 0 \in N
  BY <1>0, FS_EmptySet
<1>2. ASSUME NEW n \in N PROVE n + 1 \in N
  <2>1. SUFFICES ASSUME NEW T \in SUBSET S, Cardinality(T) = n + 1, NEW x \in T
                 PROVE  T \ {x} \in F
    BY <1>2
  <2>2. Cardinality(T \ {x}) = Cardinality(T) - 1
    BY <1>0, FS_RemoveElement
  <2>3. Cardinality(T \ {x}) = n
    BY <2>1, <2>2, n \in Nat
  <2> QED BY <2>3
<1>3. Nat \subseteq N
  <2> HIDE DEF N
  <2> QED BY <1>1, <1>2, NatSubset
<1> QED
  BY <1>0, <1>3

\* The element a sum over T takes out next.
Pick(T) == CHOOSE x \in T : TRUE

\* g holds the sum of f over each of the sets D: the recursion inside SumFunctionOnSet.
Unfolds(f, D, g) == g = [T \in D |-> IF T = {} THEN 0 ELSE f[Pick(T)] + g[T \ {Pick(T)}]]
Partials(f, S) == CHOOSE g : Unfolds(f, SUBSET S, g)

\* The element a sum takes out next is in the set.
LEMMA PickIn ==
  ASSUME NEW T, T # {}
  PROVE  Pick(T) \in T
BY DEF Pick

\* The sum over S is the last of the partial sums over the subsets of S.
LEMMA SumIsPartial ==
  ASSUME NEW f, NEW S
  PROVE  SumFunctionOnSet(f, S) = Partials(f, S)[S]
BY DEF SumFunctionOnSet, FoldFunctionOnSet, MapThenFoldSet, Partials, Unfolds, Pick

\* The partial sums over the subsets of a finite set exist: they are built for one more
\* element at a time.
LEMMA PartialsUnfold ==
  ASSUME NEW f, NEW S, IsFiniteSet(S)
  PROVE  Unfolds(f, SUBSET S, Partials(f, S))
<1> DEFINE Small(n) == {T \in SUBSET S : Cardinality(T) <= n}
           N == {n \in Nat : \E g : Unfolds(f, Small(n), g)}
<1>0. \A T \in SUBSET S : IsFiniteSet(T) /\ Cardinality(T) \in Nat
  BY FS_Subset, FS_CardinalityType
<1>1. 0 \in N
  <2>1. Small(0) = {{}}
    BY <1>0, FS_EmptySet
  <2> DEFINE g == [T \in Small(0) |-> 0]
  <2>2. Unfolds(f, Small(0), g)
    BY <2>1 DEF Unfolds
  <2> QED BY <2>2
<1>2. ASSUME NEW n \in N PROVE n + 1 \in N
  <2>1. PICK g : Unfolds(f, Small(n), g)
    OBVIOUS
  <2> DEFINE Body(h, T) == IF T = {} THEN 0 ELSE f[Pick(T)] + h[T \ {Pick(T)}]
             h == [T \in Small(n + 1) |-> Body(g, T)]
  <2>2. ASSUME NEW T \in Small(n + 1), T # {}
        PROVE  T \ {Pick(T)} \in Small(n)
    <3>1. Cardinality(T \ {Pick(T)}) = Cardinality(T) - 1
      BY <1>0, <2>2, PickIn, FS_RemoveElement
    <3> QED BY <1>0, <2>2, <3>1
  <2>3. \A T \in Small(n) : T \in Small(n + 1) /\ g[T] = Body(g, T)
    <3>1. \A T \in Small(n) : g[T] = Body(g, T)
      BY <2>1 DEF Unfolds
    <3>2. \A T \in Small(n) : T \in Small(n + 1)
      BY <1>0
    <3> QED BY <3>1, <3>2
  <2>4. \A T \in Small(n) : h[T] = g[T]
    BY <2>3
  <2>5. ASSUME NEW T \in Small(n + 1) PROVE Body(g, T) = Body(h, T)
    BY <2>2, <2>4
  <2>6. h = [T \in Small(n + 1) |-> Body(h, T)]
    <3> HIDE DEF Body
    <3>1. h = [T \in Small(n + 1) |-> Body(g, T)]
      OBVIOUS
    <3> HIDE DEF h
    <3> QED BY <3>1, <2>5
  <2>7. Unfolds(f, Small(n + 1), h)
    BY <2>6 DEF Unfolds
  <2> HIDE DEF h
  <2> QED BY <2>7
<1>3. Nat \subseteq N
  <2> HIDE DEF N
  <2> QED BY <1>1, <1>2, NatSubset
<1>4. Small(Cardinality(S)) = SUBSET S
  BY <1>0, FS_Subset
<1>5. \E g : Unfolds(f, SUBSET S, g)
  <2>1. Cardinality(S) \in N
    BY <1>0, <1>3
  <2> QED BY <1>4, <2>1
<1> QED
  BY <1>5 DEF Partials

\* A partial sum is 0, or the element picked plus the partial sum of the rest.
LEMMA PartialsAt ==
  ASSUME NEW f, NEW S, IsFiniteSet(S), NEW T \in SUBSET S
  PROVE  Partials(f, S)[T] = IF T = {} THEN 0 ELSE f[Pick(T)] + Partials(f, S)[T \ {Pick(T)}]
<1> DEFINE g == Partials(f, S)
<1>1. Unfolds(f, SUBSET S, g)
  BY PartialsUnfold
<1> HIDE DEF g
<1>2. g[T] = IF T = {} THEN 0 ELSE f[Pick(T)] + g[T \ {Pick(T)}]
  BY <1>1 DEF Unfolds
<1> QED BY <1>2 DEF g

\* The partial sums of two sets agree on their common subsets.
LEMMA PartialsAgree ==
  ASSUME NEW f, NEW A, IsFiniteSet(A), NEW B, IsFiniteSet(B)
  PROVE  \A T \in SUBSET (A \cap B) : Partials(f, A)[T] = Partials(f, B)[T]
<1> DEFINE F == {T \in SUBSET (A \cap B) : Partials(f, A)[T] = Partials(f, B)[T]}
<1>1. ASSUME NEW T \in SUBSET (A \cap B)
      PROVE  /\ Partials(f, A)[T] = IF T = {} THEN 0 ELSE f[Pick(T)] + Partials(f, A)[T \ {Pick(T)}]
             /\ Partials(f, B)[T] = IF T = {} THEN 0 ELSE f[Pick(T)] + Partials(f, B)[T \ {Pick(T)}]
  <2>1. T \in SUBSET A /\ T \in SUBSET B
    OBVIOUS
  <2> QED BY <2>1, PartialsAt
<1>2. ASSUME NEW T \in SUBSET (A \cap B), \A x \in T : T \ {x} \in F
      PROVE  T \in F
  <2>1. CASE T = {}
    BY <1>1, <2>1
  <2>2. CASE T # {}
    <3>1. T \ {Pick(T)} \in F
      BY <1>2, <2>2, PickIn
    <3> QED BY <1>1, <2>2, <3>1
  <2> QED BY <2>1, <2>2
<1>3. IsFiniteSet(A \cap B)
  BY FS_Subset
<1>4. SUBSET (A \cap B) \subseteq F
  <2> HIDE DEF F
  <2> QED BY <1>2, <1>3, SetInduction
<1> QED BY <1>4

\* Nothing adds up to 0.
LEMMA SumEmpty ==
  ASSUME NEW f
  PROVE  SumFunctionOnSet(f, {}) = 0
BY SumIsPartial, PartialsAt, FS_EmptySet

\* A sum is the value at the element picked plus the sum over the rest.
LEMMA SumUnfold ==
  ASSUME NEW f, NEW S, IsFiniteSet(S), S # {}
  PROVE  SumFunctionOnSet(f, S) = f[Pick(S)] + SumFunctionOnSet(f, S \ {Pick(S)})
<1> DEFINE R == S \ {Pick(S)}
<1>1. R \in SUBSET (S \cap R) /\ IsFiniteSet(R)
  BY FS_Subset
<1>2. Partials(f, S)[S] = f[Pick(S)] + Partials(f, S)[R]
  BY PartialsAt
<1>3. Partials(f, S)[R] = Partials(f, R)[R]
  <2> HIDE DEF R
  <2> QED BY <1>1, PartialsAgree
<1> QED BY <1>2, <1>3, SumIsPartial

\* Naturals add up to a natural.
LEMMA SumNat ==
  ASSUME NEW f, NEW S, IsFiniteSet(S), \A x \in S : f[x] \in Nat
  PROVE  \A T \in SUBSET S : SumFunctionOnSet(f, T) \in Nat
<1> DEFINE F == {T \in SUBSET S : SumFunctionOnSet(f, T) \in Nat}
<1>1. ASSUME NEW T \in SUBSET S, \A x \in T : T \ {x} \in F
      PROVE  T \in F
  <2>1. CASE T = {}
    BY <2>1, SumEmpty
  <2>2. CASE T # {}
    <3>1. Pick(T) \in T /\ T \ {Pick(T)} \in F
      BY <1>1, <2>2, PickIn
    <3>2. SumFunctionOnSet(f, T) = f[Pick(T)] + SumFunctionOnSet(f, T \ {Pick(T)})
      BY <2>2, SumUnfold, FS_Subset
    <3> QED BY <3>1, <3>2
  <2> QED BY <2>1, <2>2
<1>2. SUBSET S \subseteq F
  <2> HIDE DEF F
  <2> QED BY <1>1, SetInduction
<1> QED BY <1>2

\* Any element may be taken out of a sum, in any order.
LEMMA SumTakesOut ==
  ASSUME NEW f, NEW S, IsFiniteSet(S), \A x \in S : f[x] \in Nat
  PROVE  \A T \in SUBSET S : \A x \in T :
           SumFunctionOnSet(f, T) = f[x] + SumFunctionOnSet(f, T \ {x})
<1> DEFINE Rest(T, x) == SumFunctionOnSet(f, T \ {x})
           F == {T \in SUBSET S : \A x \in T : SumFunctionOnSet(f, T) = f[x] + Rest(T, x)}
<1>1. ASSUME NEW T \in SUBSET S, \A x \in T : T \ {x} \in F, NEW x \in T
      PROVE  SumFunctionOnSet(f, T) = f[x] + Rest(T, x)
  <2> DEFINE p == Pick(T)
  <2>1. p \in T
    BY PickIn
  <2>2. SumFunctionOnSet(f, T) = f[p] + Rest(T, p)
    BY SumUnfold, FS_Subset
  <2>3. CASE x = p
    BY <2>2, <2>3
  <2>4. CASE x # p
    <3> HIDE DEF p
    <3> DEFINE both == SumFunctionOnSet(f, (T \ {p}) \ {x})
    <3>1. Rest(T, p) = f[x] + both
      BY <1>1, <2>1, <2>4
    <3>2. Rest(T, x) = f[p] + SumFunctionOnSet(f, (T \ {x}) \ {p})
      BY <1>1, <2>1, <2>4
    <3>3. (T \ {x}) \ {p} = (T \ {p}) \ {x}
      OBVIOUS
    <3>4. both \in Nat
      BY SumNat
    <3> HIDE DEF both, Rest
    <3>5. Rest(T, x) = f[p] + both
      BY <3>2, <3>3 DEF both
    <3>6. f[p] \in Nat /\ f[x] \in Nat
      BY <2>1
    <3> QED BY <2>2, <3>1, <3>4, <3>5, <3>6
  <2> QED BY <2>3, <2>4
<1>2. SUBSET S \subseteq F
  <2>1. \A T \in SUBSET S : (\A x \in T : T \ {x} \in F) => T \in F
    BY <1>1
  <2> HIDE DEF F
  <2> QED BY <2>1, SetInduction
<1> QED BY <1>2

\* The sum of larger values is larger.
LEMMA SumMonotone ==
  ASSUME NEW f, NEW g, NEW S, IsFiniteSet(S),
         \A x \in S : f[x] \in Nat /\ g[x] \in Nat /\ f[x] <= g[x]
  PROVE  SumFunctionOnSet(f, S) <= SumFunctionOnSet(g, S)
<1> DEFINE F == {T \in SUBSET S : SumFunctionOnSet(f, T) <= SumFunctionOnSet(g, T)}
<1>1. ASSUME NEW T \in SUBSET S, \A x \in T : T \ {x} \in F
      PROVE  T \in F
  <2>1. CASE T = {}
    BY <2>1, SumEmpty
  <2>2. CASE T # {}
    <3>1. PICK x \in T : TRUE
      BY <2>2
    <3>2. /\ SumFunctionOnSet(f, T) = f[x] + SumFunctionOnSet(f, T \ {x})
          /\ SumFunctionOnSet(g, T) = g[x] + SumFunctionOnSet(g, T \ {x})
      BY SumTakesOut
    <3>3. SumFunctionOnSet(f, T \ {x}) \in Nat /\ SumFunctionOnSet(g, T \ {x}) \in Nat
      BY SumNat
    <3>4. SumFunctionOnSet(f, T \ {x}) <= SumFunctionOnSet(g, T \ {x})
      BY <1>1
    <3>5. SumFunctionOnSet(f, T) <= SumFunctionOnSet(g, T)
      BY <3>2, <3>3, <3>4
    <3> QED BY <3>5
  <2> QED BY <2>1, <2>2
<1>2. SUBSET S \subseteq F
  <2> HIDE DEF F
  <2> QED BY <1>1, SetInduction
<1> QED BY <1>2

\* Equal values have equal sums.
LEMMA SumSame ==
  ASSUME NEW f, NEW g, NEW S, IsFiniteSet(S),
         \A x \in S : f[x] \in Nat /\ g[x] = f[x]
  PROVE  SumFunctionOnSet(f, S) = SumFunctionOnSet(g, S)
<1>1. SumFunctionOnSet(f, S) <= SumFunctionOnSet(g, S)
  BY SumMonotone
<1>2. SumFunctionOnSet(g, S) <= SumFunctionOnSet(f, S)
  BY SumMonotone
<1>3. SumFunctionOnSet(f, S) \in Nat /\ SumFunctionOnSet(g, S) \in Nat
  BY SumNat
<1> QED BY <1>1, <1>2, <1>3

-----------------------------------------------------------------------------
(* ModelSpending: types                                                    *)

Rows == [Calls -> LedgerRow]

\* A change of some fields of one reservation, row or callback keeps the shape.
LEMMA CallbackType ==
  ASSUME SpendingTypeOK, NEW t \in Turns,
         \/ UNCHANGED cb
         \/ cb' = [cb EXCEPT ![t].failed = TRUE]
         \/ cb' = [cb EXCEPT ![t].closed = TRUE]
         \/ cb' = [cb EXCEPT ![t].aborted = TRUE]
         \/ cb' = [cb EXCEPT ![t].untracked = TRUE]
  PROVE  cb' \in [Turns -> Callback]
<1>1. cb \in [Turns -> Callback]
  BY DEF SpendingTypeOK
<1>2. \A r \in Callback : /\ [r EXCEPT !.failed = TRUE] \in Callback /\ [r EXCEPT !.closed = TRUE] \in Callback
                         /\ [r EXCEPT !.aborted = TRUE] \in Callback /\ [r EXCEPT !.untracked = TRUE] \in Callback
  BY DEF Callback
<1> QED BY <1>1, <1>2

\* A turn's calls cost a natural number.
LEMMA CostIsNat ==
  ASSUME NEW rows \in Rows
  PROVE  CostOf(rows) \in Nat
<1>1. \A c \in Calls : [d \in Calls |-> rows[d].cost][c] \in Nat
  BY DEF Rows, LedgerRow
<1> QED
  BY <1>1, SumNat, FiniteAssumption DEF CostOf

\* A row of the ledger is written with one of its statuses and a cost.
LEMMA RecordType ==
  ASSUME SpendingTypeOK, NEW t \in Turns, NEW c \in Calls,
         NEW s \in {"absent", "pending", "complete", "unknown", "failed"}, NEW n \in Nat
  PROVE  Record(t, c, s, n) \in [Turns -> Rows]
BY DEF SpendingTypeOK, Record, Rows, LedgerRow

\* Failing a set of calls keeps the shape of the ledger.
LEMMA FailCallsType ==
  ASSUME SpendingTypeOK, NEW t \in Turns, NEW S, FailCalls(t, S)
  PROVE  ledger' \in [Turns -> Rows]
<1>1. \A r \in LedgerRow : [r EXCEPT !.status = "failed"] \in LedgerRow
  BY DEF LedgerRow
<1> QED
  BY <1>1 DEF SpendingTypeOK, FailCalls, Rows

\* Completing a call keeps the shape of the ledger and of the reservations.
LEMMA CompleteCallType ==
  ASSUME SpendingTypeOK, NEW t \in Turns, NEW c \in Calls, NEW cost \in Costs \cup {Unknown},
         CompleteCall(t, c, cost)
  PROVE  /\ ledger' \in [Turns -> Rows]
         /\ res' \in [Turns -> Reservation]
<1>1. ledger' \in [Turns -> Rows]
  <2>1. ledger \in [Turns -> Rows]
    BY DEF SpendingTypeOK, Rows
  <2>2. cost # Unknown => cost \in Nat
    BY CostAssumption
  <2> QED
    BY <2>1, <2>2, RecordType DEF CompleteCall
<1>2. CostOf(ledger'[t]) \in Nat
  BY <1>1, CostIsNat
<1>3. GreaterOf(res[t].charged, CostOf(ledger'[t])) \in Nat
  BY <1>2 DEF SpendingTypeOK, GreaterOf, Reservation
<1>4. res' = Charge(t, ledger')
  BY DEF CompleteCall
<1> QED
  BY <1>1, <1>3, <1>4 DEF Charge, SpendingTypeOK, Reservation

\* A settlement is a reservation.
LEMMA SettlementType ==
  ASSUME SpendingTypeOK, NEW t \in Turns
  PROVE  Settlement(t) \in Reservation
<1> DEFINE cost == CostOf(ledger[t])
<1>1. cost \in Nat
  <2>1. ledger[t] \in Rows
    BY DEF SpendingTypeOK, Rows
  <2> QED BY <2>1, CostIsNat
<1>2. cost + Hold \in Nat /\ GreaterOf(cost, Hold) \in Nat
  BY <1>1, PolicyAssumption DEF GreaterOf
<1>3. res[t] \in Reservation
  BY DEF SpendingTypeOK, Reservation
<1> HIDE DEF cost
<1> DEFINE Made(s, n) == [res[t] EXCEPT !.status = s, !.charged = n]
<1>4. \A s \in {"settled", "unknown"}, n \in Nat : Made(s, n) \in Reservation
  BY <1>3 DEF Reservation
<1>5. Settlement(t) \in {Made("unknown", cost + Hold), Made("settled", GreaterOf(cost, Hold)), Made("settled", cost)}
  BY DEF Settlement, cost
<1> HIDE DEF Made
<1> QED BY <1>1, <1>2, <1>4, <1>5

\* A call moves to a place.
LEMMA MoveType ==
  ASSUME SpendingTypeOK, NEW t \in Turns, NEW c \in Calls, NEW from, NEW to \in Places, Move(t, c, from, to)
  PROVE  at' \in [Turns -> [Calls -> Places]]
BY DEF SpendingTypeOK, Move

\* The sets of calls of a turn.
LEMMA CallSetType ==
  ASSUME NEW t \in Turns, NEW f \in [Turns -> SUBSET Calls], NEW g, NEW S \in SUBSET Calls,
         \/ g = f
         \/ g = [f EXCEPT ![t] = @ \cup S]
         \/ g = [f EXCEPT ![t] = @ \ S]
         \/ g = [f EXCEPT ![t] = {}]
  PROVE  g \in [Turns -> SUBSET Calls]
OBVIOUS

\* The steps of a call keep the types.
LEMMA CallStepType ==
  ASSUME SpendingTypeOK, NEW t \in Turns, NEW c \in Calls, CallStep(t, c)
  PROVE  SpendingTypeOK'
<1>0. /\ released \in [Turns -> SUBSET Calls] /\ open \in [Turns -> SUBSET Calls]
      /\ dispatched \in [Turns -> SUBSET Calls] /\ {c} \in SUBSET Calls
      /\ ledger \in [Turns -> Rows]
  BY DEF SpendingTypeOK, Rows
<1>1. CASE ModelStart(t, c)
  <2>1. at' \in [Turns -> [Calls -> Places]]
    BY <1>1, MoveType DEF ModelStart, Places
  <2> QED BY <1>1, <2>1 DEF SpendingTypeOK, ModelStart, policyVars
<1>2. CASE Admit(t, c)
  <2>1. \/ Move(t, c, "queued", "starting") /\ UNCHANGED released
        \/ Move(t, c, "queued", "refused") /\ Release(t, c)
    BY <1>2 DEF Admit
  <2>2. at' \in [Turns -> [Calls -> Places]]
    BY <2>1, MoveType DEF Places
  <2>3. released' \in [Turns -> SUBSET Calls]
    BY <1>0, <2>1, CallSetType DEF Release
  <2> QED BY <1>2, <2>2, <2>3 DEF SpendingTypeOK, Admit, policyVars
<1>3. CASE StartLands(t, c)
  <2>1. ledger' \in [Turns -> Rows]
    <3>1. Record(t, c, "pending", 0) \in [Turns -> Rows]
      BY RecordType
    <3> QED BY <1>0, <1>3, <3>1 DEF StartLands
  <2>2. \/ Move(t, c, "starting", "started") /\ UNCHANGED released /\ open' = [open EXCEPT ![t] = @ \cup {c}]
        \/ Move(t, c, "starting", "refused") /\ Release(t, c) /\ UNCHANGED open
    BY <1>3 DEF StartLands
  <2>3. at' \in [Turns -> [Calls -> Places]]
    BY <2>2, MoveType DEF Places
  <2>4. open' \in [Turns -> SUBSET Calls] /\ released' \in [Turns -> SUBSET Calls]
    BY <1>0, <2>2, CallSetType DEF Release
  <2> QED BY <1>3, <2>1, <2>3, <2>4 DEF SpendingTypeOK, StartLands, Rows, policyVars
<1>4. CASE Dispatch(t, c)
  <2>1. \/ /\ Move(t, c, "started", "running") /\ UNCHANGED <<released, cb>>
           /\ dispatched' = [dispatched EXCEPT ![t] = @ \cup {c}]
        \/ Move(t, c, "started", "failing") /\ Fail(t) /\ UNCHANGED <<released, dispatched>>
        \/ Move(t, c, "started", "refused") /\ Release(t, c) /\ UNCHANGED <<cb, dispatched>>
    BY <1>4 DEF Dispatch
  <2>2. at' \in [Turns -> [Calls -> Places]]
    BY <2>1, MoveType DEF Places
  <2>3. released' \in [Turns -> SUBSET Calls] /\ dispatched' \in [Turns -> SUBSET Calls]
    BY <1>0, <2>1, CallSetType DEF Release
  <2>4. cb' \in [Turns -> Callback]
    BY <2>1, CallbackType DEF Fail
  <2> QED BY <1>4, <2>2, <2>3, <2>4 DEF SpendingTypeOK, Dispatch, policyVars
<1>5. ASSUME NEW cost \in Costs \cup {Unknown}, ModelEnds(t, c, cost)
      PROVE  SpendingTypeOK'
  <2>1. at' \in [Turns -> [Calls -> Places]]
    BY <1>5, MoveType DEF ModelEnds, Places
  <2> QED BY <1>5, <2>1 DEF SpendingTypeOK, ModelEnds, policyVars
<1>6. CASE ModelFails(t, c)
  <2>1. at' \in [Turns -> [Calls -> Places]]
    BY <1>6, MoveType DEF ModelFails, Places
  <2>2. cb' \in [Turns -> Callback]
    BY <1>6, CallbackType DEF ModelFails, Fail
  <2> QED BY <1>6, <2>1, <2>2 DEF SpendingTypeOK, ModelFails, policyVars
<1>7. CASE EndLands(t, c)
  <2>1. sent[t][c] \in Costs \cup {Unknown}
    BY DEF SpendingTypeOK
  <2>2. ledger' \in [Turns -> Rows] /\ res' \in [Turns -> Reservation]
    <3>1. CompleteCall(t, c, sent[t][c]) \/ UNCHANGED <<ledger, res>>
      BY <1>7 DEF EndLands
    <3>2. res \in [Turns -> Reservation]
      BY DEF SpendingTypeOK
    <3> QED BY <1>0, <2>1, <3>1, <3>2, CompleteCallType
  <2>3. cb' \in [Turns -> Callback]
    <3>1. sent[t][c] # Unknown => sent[t][c] \in Nat
      BY <2>1, CostAssumption
    <3>2. Fail(t) \/ (sent[t][c] # Unknown /\ cb' = [cb EXCEPT ![t].spent = @ + sent[t][c]])
      BY <1>7 DEF EndLands
    <3>3. CASE Fail(t)
      BY <3>3, CallbackType DEF Fail
    <3>4. CASE sent[t][c] # Unknown /\ cb' = [cb EXCEPT ![t].spent = @ + sent[t][c]]
      <4>1. cb \in [Turns -> Callback] /\ sent[t][c] \in Nat
        BY <3>1, <3>4 DEF SpendingTypeOK
      <4>2. cb[t].spent + sent[t][c] \in Nat
        BY <4>1 DEF Callback
      <4> QED BY <3>4, <4>1, <4>2 DEF Callback
    <3> QED BY <3>2, <3>3, <3>4
  <2>4. at' \in [Turns -> [Calls -> Places]]
    BY <1>7, MoveType DEF EndLands, Places
  <2>5. open' \in [Turns -> SUBSET Calls] /\ released' \in [Turns -> SUBSET Calls]
    BY <1>0, <1>7, CallSetType DEF EndLands, ReleaseAfter, Release
  <2> QED BY <1>7, <2>2, <2>3, <2>4, <2>5 DEF SpendingTypeOK, EndLands, Rows, policyVars
<1>8. CASE FailLands(t, c)
  <2>1. ledger' \in [Turns -> Rows]
    <3>1. FailCalls(t, {c}) \/ UNCHANGED ledger
      BY <1>8 DEF FailLands
    <3> QED BY <1>0, <3>1, FailCallsType
  <2>2. at' \in [Turns -> [Calls -> Places]]
    BY <1>8, MoveType DEF FailLands, Places
  <2>3. open' \in [Turns -> SUBSET Calls] /\ released' \in [Turns -> SUBSET Calls]
    BY <1>0, <1>8, CallSetType DEF FailLands, Release
  <2> QED BY <1>8, <2>1, <2>2, <2>3 DEF SpendingTypeOK, FailLands, Rows, policyVars
<1> QED
  BY <1>1, <1>2, <1>3, <1>4, <1>5, <1>6, <1>7, <1>8 DEF CallStep

\* The steps of a turn keep the types.
LEMMA TurnStepType ==
  ASSUME SpendingTypeOK, NEW t \in Turns, TurnStep(t)
  PROVE  SpendingTypeOK'
<1> USE DEF policyVars, handlerVars, callbackVars
<1>0. res \in [Turns -> Reservation] /\ period \in Periods /\ Hold \in Nat
  BY PolicyAssumption DEF SpendingTypeOK
<1>1. CASE Reserve(t) \/ Close(t)
  <2>1. res' \in [Turns -> Reservation]
    <3>1. CASE Reserve(t)
      <4>1. [status |-> "reserved", period |-> period, charged |-> Hold, verified |-> FALSE] \in Reservation
        BY <1>0 DEF Reservation
      <4> QED BY <1>0, <3>1, <4>1 DEF Reserve
    <3>2. CASE Close(t)
      BY <1>0, <3>2 DEF Close, Reservation
    <3> QED BY <1>1, <3>1, <3>2
  <2> QED BY <1>1, <2>1 DEF SpendingTypeOK, Reserve, Close
<1>2. ASSUME NEW actual \in Costs, Reconcile(t, actual)
      PROVE  SpendingTypeOK'
  <2>1. actual \in Nat
    BY CostAssumption
  <2>2. res' \in [Turns -> Reservation]
    <3>1. [res[t] EXCEPT !.status = "settled", !.charged = actual, !.verified = TRUE] \in Reservation
      BY <1>0, <2>1 DEF Reservation
    <3> QED BY <1>0, <1>2, <3>1 DEF Reconcile
  <2> QED BY <1>2, <2>2 DEF SpendingTypeOK, Reconcile
<1>3. CASE UntrackedStart(t) \/ AbortTurn(t)
  <2>1. cb' \in [Turns -> Callback]
    BY <1>3, CallbackType DEF UntrackedStart, AbortTurn
  <2> QED BY <1>3, <2>1 DEF SpendingTypeOK, UntrackedStart, AbortTurn
<1>4. CASE Finish(t)
  <2>1. cb' \in [Turns -> Callback]
    BY <1>4, CallbackType DEF Finish
  <2>2. released' \in [Turns -> SUBSET Calls]
    BY <1>4 DEF SpendingTypeOK, Finish
  <2> QED BY <1>4, <2>1, <2>2 DEF SpendingTypeOK, Finish
<1>5. CASE CrashTurn(t)
  BY <1>5 DEF SpendingTypeOK, CrashTurn
<1>6. CASE FinishFails(t)
  <2>1. ledger' \in [Turns -> Rows]
    BY <1>6, FailCallsType DEF FinishFails
  <2> QED BY <1>6, <2>1 DEF SpendingTypeOK, FinishFails, Rows
<1>7. CASE FinishSettles(t)
  <2>1. Settlement(t) \in Reservation
    BY SettlementType
  <2>2. res' \in [Turns -> Reservation]
    BY <1>0, <1>7, <2>1 DEF FinishSettles
  <2> QED BY <1>7, <2>2 DEF SpendingTypeOK, FinishSettles
<1> QED
  BY <1>1, <1>2, <1>3, <1>4, <1>5, <1>6, <1>7 DEF TurnStep

\* Every step keeps the types.
LEMMA SpendingTypeStep ==
  ASSUME SpendingTypeOK, [SpendingNext]_spendingVars
  PROVE  SpendingTypeOK'
<1>1. ASSUME NEW l \in Limits, SetPolicy(l)
      PROVE  SpendingTypeOK'
  BY <1>1, PolicyAssumption DEF SpendingTypeOK, SetPolicy, GreaterOf, callbackVars, handlerVars, Periods
<1>2. CASE NextPeriod
  <2>1. period + 1 \in Periods /\ limit \in Nat
    BY <1>2, PolicyAssumption DEF SpendingTypeOK, NextPeriod, Periods
  <2> QED BY <1>2, <2>1 DEF SpendingTypeOK, NextPeriod, callbackVars, handlerVars
<1>3. CASE UNCHANGED spendingVars
  BY <1>3 DEF SpendingTypeOK, spendingVars, policyVars, callbackVars, handlerVars
<1> QED
  BY <1>1, <1>2, <1>3, CallStepType, TurnStepType DEF SpendingNext
-----------------------------------------------------------------------------
(* ModelSpending: the inductive invariant                                  *)

\* A hold is charged in full until its turn settles.
HoldIsCharged ==
  \A t \in Turns : res[t].status \in {"reserved", "unknown"} => res[t].charged >= Hold

VerifiedIsSettled == \A t \in Turns : res[t].verified => res[t].status = "settled"

\* No reservation is of a month to come, and the limit counts for the current month.
PolicyInv ==
  /\ \A t \in Turns : res[t].period <= period
  /\ limit <= top[period]

\* The ledger knows of a call before the provider does.
DispatchIsRecorded ==
  \A t \in Turns, c \in Calls :
    at[t][c] = "started" \/ c \in dispatched[t] => ledger[t][c].status # "absent"

\* A turn that got part of its hold back is over, and nothing of it is pending.
Refunded(t) == res[t].status = "settled" /\ ~res[t].verified /\ res[t].charged < Hold
RefundInv ==
  \A t \in Turns :
    /\ res[t].status = "settled" /\ ~res[t].verified => fin[t] = "done"
    /\ Refunded(t) => /\ WithStatus(ledger[t], {"pending", "unknown", "failed"}) = {}
                      /\ res[t].charged = CostOf(ledger[t])
                      /\ ~cb[t].untracked

SpendingInv ==
  /\ SpendingTypeOK /\ HoldIsCharged /\ VerifiedIsSettled
  /\ PolicyInv /\ BudgetHolds
  /\ DispatchIsRecorded /\ RefundInv

-----------------------------------------------------------------------------
(* ModelSpending: what a step does to the reservations                     *)

\* A reservation that is not settled changes its status or its charge.
Adjusts(t) ==
  /\ res[t].status \in {"reserved", "unknown"}
  /\ res' = [res EXCEPT ![t] = res'[t]]
  /\ res'[t].status # "none" /\ res'[t].period = res[t].period
  /\ res'[t].status # "settled" => res'[t].charged >= Hold
  /\ res'[t].verified => res'[t].status = "settled"
  /\ res'[t].status = "settled" /\ ~res'[t].verified => FinishSettles(t) /\ res'[t] = Settlement(t)

\* Completing a call leaves its reservation, or raises what a reserved one is charged.
LEMMA CompleteCallAdjusts ==
  ASSUME SpendingTypeOK, HoldIsCharged, VerifiedIsSettled, NEW t \in Turns, NEW c \in Calls,
         NEW cost \in Costs \cup {Unknown}, CompleteCall(t, c, cost)
  PROVE  UNCHANGED res \/ Adjusts(t)
<1>0. res \in [Turns -> Reservation] /\ Hold \in Nat
  BY PolicyAssumption DEF SpendingTypeOK
<1>1. res' = Charge(t, ledger')
  BY DEF CompleteCall
<1>2. CostOf(ledger'[t]) \in Nat
  BY CompleteCallType, CostIsNat
<1> DEFINE cost1 == CostOf(ledger'[t])
<1>3. CASE res[t].status = "reserved"
  <2>1. res' = [res EXCEPT ![t].charged = GreaterOf(@, cost1)]
    BY <1>1, <1>3 DEF Charge
  <2> HIDE DEF cost1
  <2>2. res[t].charged >= Hold /\ ~res[t].verified
    BY <1>3 DEF HoldIsCharged, VerifiedIsSettled
  <2>3. GreaterOf(res[t].charged, cost1) >= Hold
    BY <1>0, <1>2, <2>2 DEF GreaterOf, Reservation, cost1
  <2> QED
    BY <1>0, <1>3, <2>1, <2>2, <2>3 DEF Adjusts, Reservation
<1>4. CASE res[t].status # "reserved"
  BY <1>1, <1>4 DEF Charge
<1> QED BY <1>3, <1>4

\* Settling changes nothing but a reserved turn.
LEMMA SettlementAdjusts ==
  ASSUME SpendingTypeOK, HoldIsCharged, VerifiedIsSettled, NEW t \in Turns, FinishSettles(t)
  PROVE  UNCHANGED res \/ Adjusts(t)
<1>0. res \in [Turns -> Reservation] /\ Hold \in Nat
  BY PolicyAssumption DEF SpendingTypeOK
<1> SUFFICES ASSUME res[t].status = "reserved", res' = [res EXCEPT ![t] = Settlement(t)]
             PROVE  Adjusts(t)
  BY DEF FinishSettles
<1> DEFINE cost == CostOf(ledger[t])
<1>1. cost \in Nat
  <2>1. ledger[t] \in Rows
    BY DEF SpendingTypeOK, Rows
  <2> QED BY <2>1, CostIsNat
<1>2. \/ Settlement(t) = [res[t] EXCEPT !.status = "unknown", !.charged = cost + Hold]
      \/ Settlement(t).status = "settled" /\ Settlement(t).period = res[t].period /\ ~Settlement(t).verified
  BY <1>0 DEF Settlement, cost, VerifiedIsSettled, Reservation
<1> HIDE DEF cost
<1>3. res'[t] = Settlement(t)
  BY <1>0
<1>4. ~res[t].verified /\ cost + Hold >= Hold
  BY <1>0, <1>1 DEF VerifiedIsSettled
<1> QED
  BY <1>0, <1>2, <1>3, <1>4 DEF Adjusts, Reservation

\* Every step leaves the reservations and the policy, makes a reservation, adjusts one
\* that is not settled, or changes the policy.
LEMMA ReservationSteps ==
  ASSUME SpendingTypeOK, HoldIsCharged, VerifiedIsSettled, [SpendingNext]_spendingVars
  PROVE  \/ UNCHANGED <<res, policyVars>>
         \/ \E t \in Turns : Reserve(t)
         \/ \E t \in Turns : Adjusts(t) /\ UNCHANGED policyVars
         \/ \E l \in Limits : SetPolicy(l)
         \/ NextPeriod
<1>0. res \in [Turns -> Reservation]
  BY DEF SpendingTypeOK
<1>1. ASSUME NEW t \in Turns, NEW c \in Calls, CallStep(t, c)
      PROVE  UNCHANGED policyVars /\ (UNCHANGED res \/ Adjusts(t))
  <2>1. CASE EndLands(t, c)
    <3>1. sent[t][c] \in Costs \cup {Unknown}
      BY DEF SpendingTypeOK
    <3> QED BY <2>1, <3>1, CompleteCallAdjusts DEF EndLands, policyVars
  <2>2. CASE ~EndLands(t, c)
    BY <1>1, <2>2 DEF CallStep, ModelStart, Admit, StartLands, Dispatch, ModelEnds, ModelFails, FailLands, policyVars
  <2> QED BY <2>1, <2>2
<1>2. ASSUME NEW t \in Turns, TurnStep(t), ~Reserve(t)
      PROVE  UNCHANGED policyVars /\ (UNCHANGED res \/ Adjusts(t))
  <2>1. CASE Close(t)
    BY <1>0, <2>1 DEF Close, Adjusts, HoldIsCharged, VerifiedIsSettled, Reservation, policyVars
  <2>2. ASSUME NEW actual \in Costs, Reconcile(t, actual)
        PROVE  UNCHANGED policyVars /\ Adjusts(t)
    BY <1>0, <2>2 DEF Reconcile, Adjusts, Reservation, policyVars
  <2>3. CASE FinishSettles(t)
    BY <2>3, SettlementAdjusts DEF FinishSettles, policyVars
  <2>4. CASE UntrackedStart(t) \/ AbortTurn(t) \/ Finish(t) \/ FinishFails(t) \/ CrashTurn(t)
    BY <2>4 DEF UntrackedStart, AbortTurn, Finish, FinishFails, CrashTurn, policyVars
  <2> QED BY <1>2, <2>1, <2>2, <2>3, <2>4 DEF TurnStep
<1> QED
  BY <1>1, <1>2 DEF SpendingNext, spendingVars

-----------------------------------------------------------------------------
(* ModelSpending: the steps                                                *)

\* The limits, the hold and the months are naturals.
LEMMA PolicyIsNat ==
  ASSUME SpendingTypeOK
  PROVE  /\ limit \in Nat /\ Hold \in Nat /\ period \in Nat /\ period \in Periods
         /\ \A p \in Periods : p \in Nat /\ top[p] \in Nat
BY PolicyAssumption DEF SpendingTypeOK, Periods

\* What the reservations of a month hold, and what they are charged.
LEMMA SumsAreNat ==
  ASSUME SpendingTypeOK, NEW p
  PROVE  /\ IsFiniteSet(InPeriod(p))
         /\ \A t \in Turns : /\ res[t].charged \in Nat /\ WithinHold[t] \in Nat
                            /\ WithinHold[t] <= res[t].charged /\ WithinHold[t] <= Hold
         /\ SumFunctionOnSet(WithinHold, InPeriod(p)) \in Nat
         /\ Charged(p) \in Nat
         /\ SumFunctionOnSet(WithinHold, InPeriod(p)) <= Charged(p)
<1>1. InPeriod(p) \subseteq Turns /\ IsFiniteSet(InPeriod(p))
  <2>1. InPeriod(p) \in SUBSET Turns
    BY DEF InPeriod
  <2> QED BY <2>1, FiniteAssumption, FS_Subset
<1>2. \A t \in Turns : /\ res[t].charged \in Nat /\ WithinHold[t] \in Nat
                     /\ WithinHold[t] <= res[t].charged /\ WithinHold[t] <= Hold
  BY PolicyIsNat DEF SpendingTypeOK, Reservation, WithinHold, SmallerOf
<1> DEFINE f == [t \in Turns |-> res[t].charged]
<1>3. \A t \in InPeriod(p) : WithinHold[t] \in Nat /\ f[t] \in Nat /\ WithinHold[t] <= f[t]
  BY <1>1, <1>2
<1>4. Charged(p) = SumFunctionOnSet(f, InPeriod(p))
  BY DEF Charged
<1> HIDE DEF f
<1> QED
  BY <1>1, <1>2, <1>3, <1>4, SumNat, SumMonotone

\* After a step, too, the part of a charge within the hold is a natural, at most the hold.
LEMMA TypeKeepsSums ==
  ASSUME SpendingTypeOK', NEW p
  PROVE  \A t \in Turns : res'[t].charged \in Nat /\ WithinHold'[t] \in Nat /\ WithinHold'[t] <= Hold
BY PolicyAssumption DEF SpendingTypeOK, Reservation, WithinHold, SmallerOf

\* A reservation fits into the month.
LEMMA ReserveKeepsBudget ==
  ASSUME SpendingInv, SpendingTypeOK', NEW t \in Turns, Reserve(t)
  PROVE  BudgetHolds'
<1> USE DEF SpendingInv
<1>0. res \in [Turns -> Reservation]
  BY DEF SpendingTypeOK
<1>1. /\ res[t].status = "none" /\ UNCHANGED policyVars
      /\ res' = [res EXCEPT ![t] = [status |-> "reserved", period |-> period, charged |-> Hold, verified |-> FALSE]]
  BY DEF Reserve
<1>2. \A u \in Turns \ {t} : res'[u] = res[u] /\ WithinHold'[u] = WithinHold[u]
  BY <1>0, <1>1 DEF WithinHold
<1> SUFFICES ASSUME NEW p \in Periods
             PROVE  SumFunctionOnSet(WithinHold', InPeriod(p)') <= top[p]
  BY <1>1 DEF BudgetHolds, policyVars
<1> DEFINE held == SumFunctionOnSet(WithinHold, InPeriod(p))
<1>3. t \notin InPeriod(p) /\ InPeriod(p) \subseteq Turns
  BY <1>1 DEF InPeriod
<1>4. held = SumFunctionOnSet(WithinHold', InPeriod(p))
  BY <1>2, <1>3, SumsAreNat, SumSame
<1>5. held <= top[p] /\ held \in Nat /\ top[p] \in Nat
  BY SumsAreNat, PolicyIsNat DEF BudgetHolds
<1>6. CASE p # period
  <2>1. InPeriod(p)' = InPeriod(p)
    BY <1>0, <1>1, <1>6 DEF InPeriod
  <2> QED BY <1>4, <1>5, <2>1
<1>7. CASE p = period
  <2>1. InPeriod(p)' = InPeriod(p) \cup {t}
    BY <1>0, <1>1, <1>7 DEF InPeriod
  <2>2. IsFiniteSet(InPeriod(p)') /\ t \in InPeriod(p)' /\ InPeriod(p)' \ {t} = InPeriod(p)
    BY <1>3, <2>1, SumsAreNat, FS_AddElement
  <2>3. \A u \in InPeriod(p)' : WithinHold'[u] \in Nat
    BY <1>3, <2>1, TypeKeepsSums
  <2>4. SumFunctionOnSet(WithinHold', InPeriod(p)') = WithinHold'[t] + held
    BY <1>4, <2>2, <2>3, SumTakesOut
  <2>5. WithinHold'[t] \in Nat /\ WithinHold'[t] <= Hold
    BY TypeKeepsSums
  <2>6. held <= Charged(period) /\ Charged(period) \in Nat
    BY <1>7, SumsAreNat
  <2>7. Charged(period) + Hold <= limit /\ limit <= top[p]
    BY <1>7 DEF Reserve, Affordable, PolicyInv
  <2> HIDE DEF held
  <2> QED BY <1>5, <2>4, <2>5, <2>6, <2>7, PolicyIsNat
<1> QED BY <1>6, <1>7

\* What a turn is charged within its hold never grows.
LEMMA AdjustKeepsBudget ==
  ASSUME SpendingInv, SpendingTypeOK', NEW t \in Turns, Adjusts(t), UNCHANGED policyVars
  PROVE  BudgetHolds'
<1> USE DEF SpendingInv
<1>0. res \in [Turns -> Reservation]
  BY DEF SpendingTypeOK
<1>1. \A p : InPeriod(p)' = InPeriod(p)
  BY <1>0 DEF Adjusts, InPeriod
<1>2. \A u \in Turns : WithinHold'[u] <= WithinHold[u]
  <2>1. ASSUME NEW u \in Turns, u # t PROVE WithinHold'[u] = WithinHold[u]
    BY <1>0, <2>1 DEF Adjusts, WithinHold
  <2>2. WithinHold[t] = Hold
    <3>1. res[t].charged >= Hold /\ res[t].charged \in Nat
      BY SumsAreNat DEF Adjusts, HoldIsCharged
    <3> QED BY <3>1, PolicyIsNat DEF WithinHold, SmallerOf
  <2>3. WithinHold'[t] <= Hold
    BY TypeKeepsSums
  <2>4. \A u \in Turns : WithinHold[u] \in Nat
    BY SumsAreNat
  <2> HIDE DEF SpendingInv
  <2> QED BY <2>1, <2>2, <2>3, <2>4
<1> SUFFICES ASSUME NEW p \in Periods
             PROVE  SumFunctionOnSet(WithinHold', InPeriod(p)) <= top[p]
  BY <1>1 DEF BudgetHolds, policyVars
<1>3. InPeriod(p) \subseteq Turns
  BY DEF InPeriod
<1>4. \A u \in InPeriod(p) : WithinHold'[u] \in Nat /\ WithinHold[u] \in Nat /\ WithinHold'[u] <= WithinHold[u]
  BY <1>2, <1>3, SumsAreNat, TypeKeepsSums
<1>5. SumFunctionOnSet(WithinHold', InPeriod(p)) <= SumFunctionOnSet(WithinHold, InPeriod(p))
  BY <1>4, SumsAreNat, SumMonotone
<1>6. SumFunctionOnSet(WithinHold', InPeriod(p)) \in Nat
  BY <1>4, SumsAreNat, SumNat
<1>7. SumFunctionOnSet(WithinHold, InPeriod(p)) <= top[p]
  BY DEF BudgetHolds
<1> QED BY <1>5, <1>6, <1>7, SumsAreNat, PolicyIsNat

\* A new limit counts for the current month, and a new month starts empty.
LEMMA PolicyKeepsBudget ==
  ASSUME SpendingInv, UNCHANGED res, (\E l \in Limits : SetPolicy(l)) \/ NextPeriod
  PROVE  BudgetHolds'
<1> USE DEF SpendingInv
<1>1. \A p : InPeriod(p)' = InPeriod(p)
  BY DEF InPeriod
<1>2. WithinHold' = WithinHold
  BY DEF WithinHold
<1> SUFFICES ASSUME NEW p \in Periods
             PROVE  SumFunctionOnSet(WithinHold, InPeriod(p)) <= top'[p]
  BY <1>1, <1>2 DEF BudgetHolds
<1> DEFINE sum == SumFunctionOnSet(WithinHold, InPeriod(p))
<1>3. sum <= top[p] /\ sum \in Nat /\ top[p] \in Nat
  BY SumsAreNat, PolicyIsNat DEF BudgetHolds
<1> HIDE DEF sum
<1>4. CASE \E l \in Limits : SetPolicy(l)
  <2>1. PICK l \in Limits : top' = [top EXCEPT ![period] = GreaterOf(@, l)]
    BY <1>4 DEF SetPolicy
  <2>2. top[p] <= top'[p] /\ top'[p] \in Nat
    BY <1>3, <2>1, PolicyAssumption DEF SpendingTypeOK, GreaterOf
  <2> QED BY <1>3, <2>2 DEF sum
<1>5. CASE NextPeriod
  <2>1. CASE p = period + 1
    <3>1. InPeriod(p) = {}
      BY <2>1, PolicyIsNat DEF InPeriod, PolicyInv, SpendingTypeOK, Reservation, Periods
    <3>2. sum = 0
      BY <3>1, SumEmpty DEF sum
    <3>3. top'[p] = limit
      BY <1>5, <2>1 DEF NextPeriod, SpendingTypeOK
    <3> QED BY <3>2, <3>3, PolicyIsNat DEF sum
  <2>2. CASE p # period + 1
    <3>1. top'[p] = top[p]
      BY <1>5, <2>2 DEF NextPeriod, SpendingTypeOK
    <3> QED BY <1>3, <3>1 DEF sum
  <2> QED BY <2>1, <2>2
<1> QED BY <1>4, <1>5

\* Every step keeps what the turns of a month hold within its largest limit.
LEMMA BudgetStep ==
  ASSUME SpendingInv, SpendingTypeOK', [SpendingNext]_spendingVars
  PROVE  BudgetHolds' /\ HoldIsCharged' /\ VerifiedIsSettled' /\ PolicyInv'
<1> USE DEF SpendingInv
<1>0. res \in [Turns -> Reservation] /\ res' \in [Turns -> Reservation]
  BY DEF SpendingTypeOK
<1>1. CASE UNCHANGED <<res, policyVars>>
  BY <1>1 DEF BudgetHolds, HoldIsCharged, VerifiedIsSettled, PolicyInv, InPeriod, WithinHold, policyVars
<1>2. ASSUME NEW t \in Turns, Reserve(t)
      PROVE  BudgetHolds' /\ HoldIsCharged' /\ VerifiedIsSettled' /\ PolicyInv'
  <2>1. /\ UNCHANGED policyVars
        /\ res'[t] = [status |-> "reserved", period |-> period, charged |-> Hold, verified |-> FALSE]
        /\ \A u \in Turns \ {t} : res'[u] = res[u]
    BY <1>0, <1>2 DEF Reserve
  <2>2. HoldIsCharged' /\ VerifiedIsSettled'
    BY <2>1, PolicyIsNat DEF HoldIsCharged, VerifiedIsSettled
  <2>3. PolicyInv'
    BY <2>1, PolicyIsNat DEF PolicyInv, policyVars
  <2> QED BY <1>2, <2>2, <2>3, ReserveKeepsBudget
<1>3. ASSUME NEW t \in Turns, Adjusts(t), UNCHANGED policyVars
      PROVE  BudgetHolds' /\ HoldIsCharged' /\ VerifiedIsSettled' /\ PolicyInv'
  <2>1. \A u \in Turns \ {t} : res'[u] = res[u]
    BY <1>0, <1>3 DEF Adjusts
  <2>2. HoldIsCharged' /\ VerifiedIsSettled'
    BY <1>0, <1>3, <2>1 DEF HoldIsCharged, VerifiedIsSettled, Adjusts, Reservation
  <2>3. PolicyInv'
    BY <1>3, <2>1 DEF PolicyInv, Adjusts, policyVars
  <2> QED BY <1>3, <2>2, <2>3, AdjustKeepsBudget
<1>4. CASE (\E l \in Limits : SetPolicy(l)) \/ NextPeriod
  <2>1. UNCHANGED res
    BY <1>4 DEF SetPolicy, NextPeriod
  <2>2. HoldIsCharged' /\ VerifiedIsSettled'
    BY <2>1 DEF HoldIsCharged, VerifiedIsSettled
  <2>3. PolicyInv'
    <3>1. CASE \E l \in Limits : SetPolicy(l)
      <4>1. PICK l \in Limits : SetPolicy(l)
        BY <3>1
      <4>2. top'[period] = GreaterOf(top[period], l) /\ limit' = l /\ period' = period
        BY <4>1, PolicyIsNat DEF SetPolicy, SpendingTypeOK
      <4>3. l \in Nat /\ top[period] \in Nat
        BY PolicyAssumption, PolicyIsNat
      <4> QED BY <2>1, <4>2, <4>3 DEF PolicyInv, GreaterOf
    <3>2. CASE NextPeriod
      <4>1. period' = period + 1 /\ limit' = limit /\ top' = [top EXCEPT ![period + 1] = limit]
        BY <3>2 DEF NextPeriod
      <4>2. period' \in Periods /\ top'[period'] = limit
        BY <4>1 DEF SpendingTypeOK
      <4>3. \A t \in Turns : res[t].period \in Nat
        BY <1>0, PolicyIsNat DEF Reservation
      <4> QED BY <2>1, <4>1, <4>2, <4>3, PolicyIsNat DEF PolicyInv
    <3> QED BY <1>4, <3>1, <3>2
  <2> QED BY <1>4, <2>1, <2>2, <2>3, PolicyKeepsBudget
<1> QED
  BY <1>1, <1>2, <1>3, <1>4, ReservationSteps

\* The ledger never forgets a call, and writes nothing for a settled turn of which no
\* call is pending.
LEMMA LedgerSteps ==
  ASSUME SpendingTypeOK, [SpendingNext]_spendingVars, NEW u \in Turns
  PROVE  /\ \A c \in Calls : ledger[u][c].status # "absent" => ledger'[u][c].status # "absent"
         /\ res[u].status = "settled" /\ WithStatus(ledger[u], {"pending"}) = {} => ledger'[u] = ledger[u]
<1> DEFINE Kept == /\ \A c \in Calls : ledger[u][c].status # "absent" => ledger'[u][c].status # "absent"
                   /\ res[u].status = "settled" /\ WithStatus(ledger[u], {"pending"}) = {} => ledger'[u] = ledger[u]
<1>0. ledger \in [Turns -> Rows]
  BY DEF SpendingTypeOK, Rows
<1>1. UNCHANGED ledger => Kept
  OBVIOUS
<1>2. ASSUME NEW t \in Turns, NEW S, FailCalls(t, S) PROVE Kept
  <2>1. \A c \in Calls : ledger'[u][c] = ledger[u][c]
          \/ (ledger[u][c].status = "pending" /\ ledger'[u][c] = [ledger[u][c] EXCEPT !.status = "failed"])
    BY <1>0, <1>2 DEF FailCalls, Rows
  <2>2. ledger' \in [Turns -> Rows]
    BY <1>2, FailCallsType
  <2>3. \A c \in Calls : ledger[u][c] \in LedgerRow
    BY <1>0 DEF Rows
  <2>4. \A c \in Calls : ledger[u][c].status # "absent" => ledger'[u][c].status # "absent"
    BY <2>1, <2>3 DEF LedgerRow
  <2>5. WithStatus(ledger[u], {"pending"}) = {} => ledger'[u] = ledger[u]
    <3> SUFFICES ASSUME WithStatus(ledger[u], {"pending"}) = {} PROVE ledger'[u] = ledger[u]
      OBVIOUS
    <3>1. \A c \in Calls : ledger'[u][c] = ledger[u][c]
      BY <2>1 DEF WithStatus
    <3>2. ledger[u] \in [Calls -> LedgerRow] /\ ledger'[u] \in [Calls -> LedgerRow]
      BY <1>0, <2>2 DEF Rows
    <3> QED BY <3>1, <3>2
  <2> QED BY <2>4, <2>5
<1>3. ASSUME NEW t \in Turns, NEW c \in Calls, NEW s \in {"pending", "unknown", "complete"}, NEW n,
             ledger' = Record(t, c, s, n),
             t = u => res[u].status # "settled" \/ ledger[u][c].status = "pending"
      PROVE  Kept
  BY <1>0, <1>3 DEF Record, WithStatus, Rows
<1>4. ASSUME NEW t \in Turns, NEW c \in Calls, CallStep(t, c) PROVE Kept
  <2>1. CASE StartLands(t, c)
    <3>1. UNCHANGED ledger \/ (ledger' = Record(t, c, "pending", 0) /\ MayStart(t))
      BY <2>1 DEF StartLands
    <3> HIDE DEF Kept
    <3> QED BY <1>1, <1>3, <3>1 DEF MayStart
  <2>2. CASE EndLands(t, c)
    <3>1. UNCHANGED ledger \/ (/\ ledger[t][c].status = "pending"
                               /\ \E s \in {"unknown", "complete"}, n \in {0, sent[t][c]} : ledger' = Record(t, c, s, n))
      BY <2>2 DEF EndLands, CompleteCall
    <3> HIDE DEF Kept
    <3> QED BY <1>1, <1>3, <3>1
  <2>3. CASE FailLands(t, c)
    <3> HIDE DEF Kept
    <3> QED BY <1>1, <1>2, <2>3 DEF FailLands
  <2>4. CASE ~StartLands(t, c) /\ ~EndLands(t, c) /\ ~FailLands(t, c)
    <3>1. UNCHANGED ledger
      BY <1>4, <2>4 DEF CallStep, ModelStart, Admit, Dispatch, ModelEnds, ModelFails
    <3> HIDE DEF Kept
    <3> QED BY <1>1, <3>1
  <2> QED BY <2>1, <2>2, <2>3, <2>4
<1>5. ASSUME NEW t \in Turns, TurnStep(t) PROVE Kept
  <2>1. UNCHANGED ledger \/ \E S \in SUBSET open[t] : FailCalls(t, S)
    BY <1>5 DEF TurnStep, Reserve, Close, Reconcile, UntrackedStart, AbortTurn, Finish, FinishFails, FinishSettles, CrashTurn,
       callbackVars
  <2> HIDE DEF Kept
  <2> QED BY <1>1, <1>2, <2>1
<1>6. SetPolicy(limit') \/ NextPeriod \/ UNCHANGED spendingVars => UNCHANGED ledger
  BY DEF SetPolicy, NextPeriod, spendingVars, callbackVars
<1>7. (\E l \in Limits : SetPolicy(l)) => UNCHANGED ledger
  BY DEF SetPolicy
<1>8. Kept
  <2> HIDE DEF Kept
  <2> QED BY <1>1, <1>4, <1>5, <1>6, <1>7 DEF SpendingNext
<1> QED BY <1>8

\* A call is started, and then dispatched, when the ledger knows of it.
LEMMA DispatchStep ==
  ASSUME SpendingTypeOK, DispatchIsRecorded, [SpendingNext]_spendingVars
  PROVE  DispatchIsRecorded'
<1> SUFFICES ASSUME NEW u \in Turns, NEW d \in Calls,
                    at'[u][d] = "started" \/ d \in dispatched'[u]
             PROVE  ledger'[u][d].status # "absent"
  BY DEF DispatchIsRecorded
<1>0. /\ ledger[u][d].status # "absent" => ledger'[u][d].status # "absent"
      /\ at[u][d] = "started" \/ d \in dispatched[u] => ledger[u][d].status # "absent"
  BY LedgerSteps DEF DispatchIsRecorded
<1> SUFFICES ASSUME at[u][d] # "started", d \notin dispatched[u] PROVE ledger'[u][d].status # "absent"
  BY <1>0
<1>1. ASSUME NEW t \in Turns, NEW c \in Calls, CallStep(t, c)
      PROVE  ledger'[u][d].status # "absent"
  <2>1. CASE StartLands(t, c)
    <3>1. UNCHANGED dispatched
      BY <2>1 DEF StartLands
    <3>0. at'[u][d] = "started"
      BY <3>1
    <3>2. at' = [at EXCEPT ![t][c] = "started"] /\ ledger' = Record(t, c, "pending", 0)
      <4>1. \/ at' = [at EXCEPT ![t][c] = "started"] /\ ledger' = Record(t, c, "pending", 0)
            \/ at' = [at EXCEPT ![t][c] = "refused"]
        BY <2>1 DEF StartLands, Move
      <4>2. at' = [at EXCEPT ![t][c] = "refused"] => FALSE
        BY <3>0 DEF SpendingTypeOK
      <4> QED BY <4>1, <4>2
    <3>3. t = u /\ c = d
      BY <3>0, <3>2 DEF SpendingTypeOK
    <3> QED BY <3>2, <3>3 DEF Record, SpendingTypeOK
  <2>2. CASE Dispatch(t, c)
    <3>1. at[t][c] = "started" /\ \E to \in {"running", "failing", "refused"} : at' = [at EXCEPT ![t][c] = to]
      BY <2>2 DEF Dispatch, Move
    <3>2. dispatched' = dispatched \/ dispatched' = [dispatched EXCEPT ![t] = @ \cup {c}]
      BY <2>2 DEF Dispatch
    <3>3. at'[u][d] # "started"
      BY <3>1 DEF SpendingTypeOK
    <3> QED BY <3>1, <3>2, <3>3 DEF SpendingTypeOK
  <2>3. CASE ~StartLands(t, c) /\ ~Dispatch(t, c)
    <3>1. UNCHANGED dispatched
      BY <1>1, <2>3 DEF CallStep, ModelStart, Admit, ModelEnds, ModelFails, EndLands, FailLands
    <3>2. \E to \in Places \ {"started"} : at' = [at EXCEPT ![t][c] = to]
      BY <1>1, <2>3 DEF CallStep, ModelStart, Admit, ModelEnds, ModelFails, EndLands, FailLands, Move, Places
    <3> QED BY <3>1, <3>2 DEF SpendingTypeOK
  <2> QED BY <2>1, <2>2, <2>3
<1>2. ASSUME NEW t \in Turns, TurnStep(t)
      PROVE  UNCHANGED <<at, dispatched>>
  BY <1>2 DEF TurnStep, Reserve, Close, Reconcile, UntrackedStart, AbortTurn, Finish, FinishFails, FinishSettles, CrashTurn,
     callbackVars, handlerVars
<1>3. (\E l \in Limits : SetPolicy(l)) \/ NextPeriod \/ UNCHANGED spendingVars => UNCHANGED <<at, dispatched>>
  BY DEF SetPolicy, NextPeriod, spendingVars, callbackVars, handlerVars
<1> QED BY <1>1, <1>2, <1>3 DEF SpendingNext

\* A turn that is over stays over, and its callback hears of no model any more.
LEMMA FinishedSteps ==
  ASSUME SpendingTypeOK, [SpendingNext]_spendingVars, NEW u \in Turns, fin[u] = "done"
  PROVE  fin'[u] = "done" /\ cb'[u].untracked = cb[u].untracked
<1>0. cb \in [Turns -> Callback] /\ fin \in [Turns -> {"none", "waiting", "settling", "done", "crashed"}]
  BY DEF SpendingTypeOK
<1>1. ASSUME NEW t \in Turns, NEW c \in Calls, CallStep(t, c)
      PROVE  fin'[u] = "done" /\ cb'[u].untracked = cb[u].untracked
  <2>1. UNCHANGED fin
    BY <1>1 DEF CallStep, ModelStart, Admit, StartLands, Dispatch, ModelEnds, ModelFails, EndLands, FailLands
  <2>2. UNCHANGED cb \/ Fail(t) \/ \E n \in {sent[t][c]} : cb' = [cb EXCEPT ![t].spent = @ + n]
    BY <1>1 DEF CallStep, ModelStart, Admit, StartLands, Dispatch, ModelEnds, ModelFails, EndLands, FailLands
  <2> QED BY <1>0, <2>1, <2>2 DEF Fail, Callback
<1>2. ASSUME NEW t \in Turns, TurnStep(t)
      PROVE  fin'[u] = "done" /\ cb'[u].untracked = cb[u].untracked
  <2>1. CASE UntrackedStart(t)
    BY <1>0, <2>1 DEF UntrackedStart
  <2>2. CASE AbortTurn(t)
    BY <1>0, <2>2 DEF AbortTurn, Callback
  <2>3. CASE Finish(t)
    BY <1>0, <2>3 DEF Finish
  <2>4. CASE FinishFails(t) \/ FinishSettles(t) \/ CrashTurn(t)
    BY <1>0, <2>4 DEF FinishFails, FinishSettles, CrashTurn
  <2>5. CASE Reserve(t) \/ Close(t) \/ \E actual \in Costs : Reconcile(t, actual)
    BY <2>5 DEF Reserve, Close, Reconcile, callbackVars
  <2> QED BY <1>2, <2>1, <2>2, <2>3, <2>4, <2>5 DEF TurnStep
<1>3. (\E l \in Limits : SetPolicy(l)) \/ NextPeriod \/ UNCHANGED spendingVars => UNCHANGED <<fin, cb>>
  BY DEF SetPolicy, NextPeriod, spendingVars, callbackVars
<1> QED BY <1>1, <1>2, <1>3 DEF SpendingNext

\* What a settlement returns is exact.
LEMMA SettlementIsExact ==
  ASSUME SpendingTypeOK, NEW t \in Turns, Settlement(t).status = "settled", Settlement(t).charged < Hold
  PROVE  /\ WithStatus(ledger[t], {"pending", "unknown", "failed"}) = {}
         /\ Settlement(t).charged = CostOf(ledger[t])
         /\ ~cb[t].untracked
<1> DEFINE cost == CostOf(ledger[t])
<1>0. res[t] \in Reservation /\ Hold \in Nat /\ cost \in Nat
  <2>1. ledger[t] \in Rows
    BY DEF SpendingTypeOK, Rows
  <2> QED BY <2>1, CostIsNat, PolicyAssumption DEF SpendingTypeOK
<1>1. Incomplete(ledger[t]) = {} /\ ~cb[t].untracked
  BY <1>0 DEF Settlement, Reservation
<1>2. WithStatus(ledger[t], {"failed"}) = {} /\ Settlement(t).charged = cost
  <2> HIDE DEF cost
  <2>1. ~(GreaterOf(cost, Hold) < Hold)
    BY <1>0 DEF GreaterOf
  <2>2. \/ Settlement(t) = [res[t] EXCEPT !.status = "settled", !.charged = GreaterOf(cost, Hold)]
        \/ WithStatus(ledger[t], {"failed"}) = {} /\ Settlement(t) = [res[t] EXCEPT !.status = "settled", !.charged = cost]
    BY <1>1 DEF Settlement, cost
  <2> QED BY <1>0, <2>1, <2>2 DEF Reservation
<1> QED BY <1>1, <1>2 DEF Incomplete, WithStatus

\* What a turn got back stays exact.
LEMMA RefundStep ==
  ASSUME SpendingInv, SpendingTypeOK', [SpendingNext]_spendingVars
  PROVE  RefundInv'
<1> USE DEF SpendingInv
<1>0. res \in [Turns -> Reservation]
  BY DEF SpendingTypeOK
<1> SUFFICES ASSUME NEW u \in Turns, res'[u].status = "settled", ~res'[u].verified
             PROVE  /\ fin'[u] = "done"
                    /\ res'[u].charged < Hold =>
                         /\ WithStatus(ledger'[u], {"pending", "unknown", "failed"}) = {}
                         /\ res'[u].charged = CostOf(ledger'[u])
                         /\ ~cb'[u].untracked
  BY DEF RefundInv, Refunded
<1>1. CASE res'[u] = res[u]
  <2>1. fin[u] = "done"
    BY <1>1 DEF RefundInv
  <2>2. fin'[u] = "done" /\ cb'[u].untracked = cb[u].untracked
    BY <2>1, FinishedSteps
  <2>3. ASSUME res'[u].charged < Hold
        PROVE  /\ WithStatus(ledger'[u], {"pending", "unknown", "failed"}) = {}
               /\ res'[u].charged = CostOf(ledger'[u])
               /\ ~cb'[u].untracked
    <3>1. /\ WithStatus(ledger[u], {"pending", "unknown", "failed"}) = {}
          /\ res[u].charged = CostOf(ledger[u]) /\ ~cb[u].untracked
      BY <1>1, <2>3 DEF RefundInv, Refunded
    <3>2. WithStatus(ledger[u], {"pending"}) = {}
      BY <3>1 DEF WithStatus
    <3>3. ledger'[u] = ledger[u]
      BY <1>1, <3>2, LedgerSteps
    <3> QED BY <1>1, <2>2, <3>1, <3>3
  <2> QED BY <2>2, <2>3
<1>2. CASE res'[u] # res[u]
  <2>1. FinishSettles(u) /\ res'[u] = Settlement(u)
    <3>1. UNCHANGED res => FALSE
      BY <1>2
    <3>2. ASSUME NEW t \in Turns, Reserve(t) PROVE FALSE
      BY <1>0, <1>2, <3>2 DEF Reserve
    <3>3. ASSUME NEW t \in Turns, Adjusts(t) PROVE t = u
      BY <1>0, <1>2, <3>3 DEF Adjusts
    <3>4. (\E l \in Limits : SetPolicy(l)) \/ NextPeriod => UNCHANGED res
      BY DEF SetPolicy, NextPeriod
    <3>5. Adjusts(u)
      BY <3>1, <3>2, <3>3, <3>4, ReservationSteps
    <3> QED BY <3>5 DEF Adjusts
  <2>2. fin'[u] = "done" /\ UNCHANGED <<ledger, cb>>
    BY <2>1 DEF FinishSettles, SpendingTypeOK
  <2> QED BY <2>1, <2>2, SettlementIsExact
<1> QED BY <1>1, <1>2

-----------------------------------------------------------------------------
(* ModelSpending: the theorems                                             *)

\* The ledger and its reservations satisfy the inductive invariant in every state.
THEOREM SpendingCorrect == SpendingSpec => []SpendingInv
<1>1. SpendingInit => SpendingInv
  <2> SUFFICES ASSUME SpendingInit PROVE SpendingInv
    OBVIOUS
  <2>1. SpendingTypeOK
    <3>1. limit \in Nat /\ 0 \in Periods
      BY PolicyAssumption DEF SpendingInit, Periods
    <3> QED
      BY <3>1 DEF SpendingInit, SpendingTypeOK, Reservation, LedgerRow, Callback, Places
  <2>2. HoldIsCharged /\ VerifiedIsSettled /\ PolicyInv
    BY <2>1, PolicyIsNat DEF SpendingInit, HoldIsCharged, VerifiedIsSettled, PolicyInv
  <2>3. BudgetHolds
    <3>1. \A p : InPeriod(p) = {}
      BY DEF SpendingInit, InPeriod
    <3>2. \A p \in Periods : top[p] \in Nat
      BY <2>1, PolicyIsNat
    <3> QED BY <3>1, <3>2, SumEmpty DEF BudgetHolds
  <2>4. DispatchIsRecorded /\ RefundInv
    BY DEF SpendingInit, DispatchIsRecorded, RefundInv, Refunded
  <2> QED BY <2>1, <2>2, <2>3, <2>4 DEF SpendingInv
<1>2. SpendingInv /\ [SpendingNext]_spendingVars => SpendingInv'
  BY SpendingTypeStep, BudgetStep, DispatchStep, RefundStep DEF SpendingInv
<1> QED
  BY <1>1, <1>2, PTL DEF SpendingSpec

\* Whatever the limits, the costs and the number of turns, a month is never charged more
\* than its highest limit for what its turns spend within their holds.
THEOREM BudgetAlwaysHolds == SpendingSpec => []BudgetHolds
<1>1. SpendingInv => BudgetHolds
  BY DEF SpendingInv
<1> QED BY <1>1, SpendingCorrect, PTL

\* A turn that gets part of its hold back has every dispatched call on record.
THEOREM SpendingInvariantHolds == SpendingSpec => []SpendingInvariant
<1>1. SpendingInv => SpendingInvariant
  <2> SUFFICES ASSUME SpendingInv, NEW t \in Turns, Refunded(t)
               PROVE  /\ \A c \in dispatched[t] : ledger[t][c].status = "complete"
                      /\ res[t].charged = CostOf(ledger[t])
                      /\ ~cb[t].untracked
    BY DEF SpendingInv, SpendingInvariant, RefundIsExact, Refunded
  <2>1. /\ WithStatus(ledger[t], {"pending", "unknown", "failed"}) = {}
        /\ res[t].charged = CostOf(ledger[t]) /\ ~cb[t].untracked
    BY DEF SpendingInv, RefundInv
  <2>2. ASSUME NEW c \in dispatched[t] PROVE ledger[t][c].status = "complete"
    <3>1. c \in Calls /\ ledger[t][c].status # "absent"
      BY DEF SpendingInv, SpendingTypeOK, DispatchIsRecorded
    <3>2. ledger[t][c] \in LedgerRow
      BY <3>1 DEF SpendingInv, SpendingTypeOK
    <3> QED BY <2>1, <3>1, <3>2 DEF WithStatus, LedgerRow
  <2> QED BY <2>1, <2>2
<1> QED BY <1>1, SpendingCorrect, PTL

\* A late completion never overwrites a reservation that an administrator reconciled.
THEOREM VerifiedAlwaysStays == SpendingSpec => VerifiedStays
<1>1. SpendingInv /\ [SpendingNext]_spendingVars => [\A t \in Turns : res[t].verified => res'[t] = res[t]]_spendingVars
  <2> SUFFICES ASSUME SpendingInv, [SpendingNext]_spendingVars, NEW t \in Turns, res[t].verified
               PROVE  res'[t] = res[t]
    OBVIOUS
  <2>1. SpendingTypeOK /\ res[t].status = "settled" /\ res \in [Turns -> Reservation]
    BY DEF SpendingInv, VerifiedIsSettled, SpendingTypeOK
  <2>2. ASSUME NEW u \in Turns, Reserve(u) \/ Adjusts(u) PROVE res'[t] = res[t]
    BY <2>1, <2>2 DEF Reserve, Adjusts
  <2>3. (\E l \in Limits : SetPolicy(l)) \/ NextPeriod => UNCHANGED res
    BY DEF SetPolicy, NextPeriod
  <2> QED BY <2>2, <2>3, ReservationSteps DEF SpendingInv
<1> QED BY <1>1, SpendingCorrect, PTL DEF SpendingSpec, VerifiedStays
=============================================================================
