------------------------- MODULE TurnConnectProofs -------------------------
(***************************************************************************)
(* Proofs about TurnConnect, for any number of connections, any length of  *)
(* the reply and any windows of the log and of the bus.                    *)
(***************************************************************************)
EXTENDS TurnConnect, FiniteSetTheorems, TLAPS

-----------------------------------------------------------------------------
(* The inductive invariant                                                 *)

\* The shape of the state, in parts.
TurnType ==
  /\ pc \in {"idle", "marked", "admitted", "created", "running", "saved", "released", "settled",
             "ended", "closed", "crashed"}
  /\ exec \in {"none", "live", "over"}
  /\ newer \in BOOLEAN /\ started \in BOOLEAN
  /\ saved \in 0..Pieces /\ saved <= Produced
  /\ seq \in 0..(Pieces + 2) /\ term \in {0, seq}
MirrorType ==
  /\ mirror \in {"off", "on", "dead"}
  /\ mirrored \in 0..seq /\ wire \in {0, mirrored + 1}
  /\ bus \subseteq 1..mirrored /\ Cardinality(bus) <= BusWindow
PlaceType ==
  /\ near \subseteq Readers /\ full \subseteq Readers
  /\ at \in [Readers -> {"idle", "lookup", "replay", "opened", "read", "caught", "streaming", "checking", "done"}]
  /\ source \in [Readers -> {"none", "unavailable", "local", "remote"}]
  /\ seen \in [Readers -> 0..Pieces]
  /\ late \in [Readers -> BOOLEAN] /\ left \in [Readers -> BOOLEAN]
EventType ==
  /\ held \in [Readers -> SUBSET Sequences]
  /\ got \in [Readers -> SUBSET Sequences]

\* Before its first event the turn has nothing; after its last one it makes no more.
TurnInv ==
  /\ pc \in {"idle", "marked", "admitted", "created"} => ~started /\ seq = 0
  /\ ~started => seq = term
  /\ started => seq >= 1 /\ term # 1
  /\ term # 0 => pc = "ended"
  /\ pc = "running" => started
  /\ Produced \in 0..Pieces

\* The Redis stream holds the last events that the mirror wrote.
BusInv ==
  /\ wire <= seq
  /\ \E a \in 1..(mirrored + 1) : bus = a..mirrored

\* The first n events of the turn.
FirstEvents(n) == 1..n

\* A connection has the events of the turn from the first one, without a gap, and a
\* local one has all of them.
ReadsInv ==
  \A r \in Readers :
    /\ \E n \in 0..seq : held[r] = FirstEvents(n)
    /\ \E n \in Nat : got[r] = FirstEvents(n)
    /\ got[r] \subseteq held[r]
    /\ r \in Subscribed => held[r] = FirstEvents(seq)

\* Nothing is delivered before the row is left out, or has nothing, or is an earlier one.
ShownInv ==
  \A r \in Readers :
    /\ at[r] \in {"idle", "lookup", "replay", "opened", "read", "caught"} => got[r] = {}
    /\ seen[r] <= saved
    /\ at[r] \in {"streaming", "checking"} \/ got[r] # {} => late[r] \/ left[r] \/ seen[r] = 0

ConnectInv == TypeOK /\ TurnInv /\ BusInv /\ ReadsInv /\ ShownInv

\* The parts are the type invariant.
LEMMA TypeParts == TypeOK <=> TurnType /\ MirrorType /\ PlaceType /\ EventType
BY DEF TypeOK, TurnType, MirrorType, PlaceType, EventType

-----------------------------------------------------------------------------
(* The steps, by what they are about                                       *)

Goes == Mark \/ Reject \/ Admit \/ CreateRow \/ Release \/ FreeSlot \/ Crash
Saves == SaveProgress \/ Finalize \/ LeaseLapses \/ NextTurn
Appends == Start \/ Produce \/ Terminal
Opens(r) == OpenLocal(r) \/ OpenElsewhere(r) \/ Lookup(r) \/ Replay(r) \/ ReadHistory(r)
Follows(r) == CatchUp(r) \/ Decide(r) \/ Deliver(r) \/ Wait(r)
Ends(r) == EndLocal(r) \/ CheckOwner(r) \/ Leave(r)

\* Every step is about one of these.
LEMMA StepCases ==
  ASSUME [Next]_vars
  PROVE  \/ Goes \/ Saves \/ Appends \/ MirrorStep
         \/ \E r \in Readers : Opens(r) \/ Follows(r) \/ Ends(r)
         \/ UNCHANGED vars
BY DEF Next, TurnStep, ReaderStep, Goes, Saves, Appends, Opens, Follows, Ends

-----------------------------------------------------------------------------
(* Intervals                                                               *)

\* The greatest and the least event of an interval.
LEMMA IntervalBounds ==
  /\ \A n \in Nat : Max(FirstEvents(n) \cup {0}) = n
  /\ \A a, b \in Nat : a <= b => Min(a..b) = a
<1>1. ASSUME NEW n \in Nat PROVE Max(FirstEvents(n) \cup {0}) = n
  <2> DEFINE S == (1..n) \cup {0}
  <2>1. n \in S /\ \A y \in S : n >= y
    OBVIOUS
  <2>2. \A x \in S : (\A y \in S : x >= y) => x = n
    BY <2>1
  <2> QED
    BY <2>1, <2>2 DEF Max, FirstEvents
<1>2. ASSUME NEW a \in Nat, NEW b \in Nat, a <= b PROVE Min(a..b) = a
  <2>1. a \in a..b /\ \A y \in a..b : a <= y
    BY <1>2
  <2>2. \A x \in a..b : (\A y \in a..b : x <= y) => x = a
    BY <2>1
  <2> QED
    BY <2>1, <2>2 DEF Min
<1> QED
  BY <1>1, <1>2

\* Of two beginnings the longer one contains the shorter one; the next event makes
\* the next beginning, and what is missing starts with it.
LEMMA Beginnings ==
  /\ \A n \in Nat : FirstEvents(n) \subseteq Nat /\ FirstEvents(n + 1) = FirstEvents(n) \cup {n + 1}
  /\ \A n, m \in Nat : FirstEvents(n) \subseteq FirstEvents(m) <=> n <= m
  /\ \A n, m \in Nat : n < m => Min(FirstEvents(m) \ FirstEvents(n)) = n + 1
  /\ FirstEvents(0) = {}
<1>1. \A n \in Nat : FirstEvents(n) \subseteq Nat /\ FirstEvents(n + 1) = FirstEvents(n) \cup {n + 1}
  BY DEF FirstEvents
<1>2. ASSUME NEW n \in Nat, NEW m \in Nat PROVE FirstEvents(n) \subseteq FirstEvents(m) <=> n <= m
  <2>1. n <= m => 1..n \subseteq 1..m
    OBVIOUS
  <2>2. ASSUME n > m PROVE n \in 1..n /\ n \notin 1..m
    BY <2>2
  <2> QED
    BY <2>1, <2>2 DEF FirstEvents
<1>3. ASSUME NEW n \in Nat, NEW m \in Nat, n < m PROVE Min(FirstEvents(m) \ FirstEvents(n)) = n + 1
  <2>1. (1..m) \ (1..n) = (n + 1)..m
    OBVIOUS
  <2>2. Min((n + 1)..m) = n + 1
    BY <1>3, IntervalBounds
  <2> QED
    BY <2>1, <2>2 DEF FirstEvents
<1>4. FirstEvents(0) = {}
  BY DEF FirstEvents
<1> QED
  BY <1>1, <1>2, <1>3, <1>4

\* A stream that is trimmed keeps its last events, at most as many as the window.
LEMMA TrimmedInterval ==
  ASSUME NEW m \in Nat, NEW a \in 1..m
  PROVE  \E c \in 1..m : Trim(a..m) = c..m /\ Cardinality(c..m) <= BusWindow
<1> USE WindowAssumption
<1> DEFINE c == IF m - BusWindow + 1 > a THEN m - BusWindow + 1 ELSE a
<1>1. ASSUME NEW n \in a..m PROVE Cardinality({k \in a..m : k > n}) = m - n
  <2>1. {k \in a..m : k > n} = (n + 1)..m
    OBVIOUS
  <2>2. Cardinality((n + 1)..m) = m - n
    <3>1. n + 1 \in Int /\ m \in Int /\ n <= m
      OBVIOUS
    <3>2. Cardinality((n + 1)..m) = IF n + 1 > m THEN 0 ELSE m - (n + 1) + 1
      BY <3>1, FS_Interval
    <3> QED
      BY <3>1, <3>2
  <2> QED
    BY <2>1, <2>2
<1>2. Trim(a..m) = {n \in a..m : m - n < BusWindow}
  BY <1>1 DEF Trim
<1>3. c \in 1..m /\ {n \in a..m : m - n < BusWindow} = c..m
  OBVIOUS
<1>4. Cardinality(c..m) <= BusWindow
  BY <1>3, FS_Interval
<1> QED
  BY <1>2, <1>3, <1>4

\* Entries that have no gap are an interval.
LEMMA GaplessEntries ==
  ASSUME NEW after \in Nat, MirrorType, seq \in Nat, ~HasGap(after, Entries(after))
  PROVE  \E k \in Nat : Entries(after) = (after + 1)..(after + k)
<1>1. mirrored \in Nat
  BY DEF MirrorType
<1>2. IsFiniteSet(1..mirrored)
  BY <1>1, FS_Interval
<1>3. Entries(after) \subseteq 1..mirrored
  BY DEF Entries, MirrorType
<1>4. Cardinality(Entries(after)) \in Nat
  BY <1>2, <1>3, FS_Subset, FS_CardinalityType
<1> QED
  BY <1>4 DEF HasGap

\* A connection that takes over what the stream has after its last event has no gap.
LEMMA ExtendedReads ==
  ASSUME NEW after \in 0..seq, MirrorType, seq \in Nat, ~HasGap(after, Entries(after))
  PROVE  \E n \in after..seq : FirstEvents(after) \cup Entries(after) = FirstEvents(n)
<1>0. after \in Nat
  OBVIOUS
<1>1. PICK k \in Nat : Entries(after) = (after + 1)..(after + k)
  BY <1>0, GaplessEntries
<1>2. after + k <= seq
  <2>1. CASE k = 0
    BY <2>1
  <2>2. CASE k # 0
    <3>1. after + k \in Entries(after)
      BY <1>1, <2>2
    <3> QED
      BY <3>1 DEF Entries, MirrorType
  <2> QED
    BY <2>1, <2>2
<1>3. FirstEvents(after) \cup Entries(after) = FirstEvents(after + k)
  BY <1>1 DEF FirstEvents
<1> QED
  BY <1>2, <1>3

-----------------------------------------------------------------------------
(* The parts, one by one                                                   *)

\* The turn keeps its shape, and its events their order.
LEMMA TurnKept ==
  ASSUME TurnType, TurnInv, [Next]_vars
  PROVE  TurnType' /\ TurnInv'
<1> USE WindowAssumption DEF TurnType, TurnInv, Produced, rowVars, logVars, mirrorVars, turnVars, queueVars,
    viewVars, readerVars
<1>1. ASSUME Goes PROVE TurnType' /\ TurnInv'
  BY <1>1 DEF Goes, Mark, Turn, Reject, Admit, CreateRow, Release, FreeSlot, Crash, Registered
<1>2. ASSUME Saves PROVE TurnType' /\ TurnInv'
  <2>1. CASE SaveProgress
    BY <2>1 DEF SaveProgress
  <2>2. CASE Finalize
    BY <2>2 DEF Finalize, Turn
  <2>3. CASE LeaseLapses
    BY <2>3 DEF LeaseLapses
  <2>4. CASE NextTurn
    BY <2>4 DEF NextTurn
  <2> QED
    BY <1>2, <2>1, <2>2, <2>3, <2>4 DEF Saves
<1>3. ASSUME Appends PROVE TurnType' /\ TurnInv'
  <2>1. CASE Start
    <3>1. seq' = seq + 1
      BY <2>1 DEF Start, Turn, Append
    <3> QED
      BY <2>1, <3>1 DEF Start, Turn
  <2>2. CASE Produce
    <3>1. seq' = seq + 1
      BY <2>2 DEF Produce, Append
    <3> QED
      BY <2>2, <3>1 DEF Produce
  <2>3. CASE Terminal
    <3>1. seq' = seq + 1
      BY <2>3 DEF Terminal, Turn, Append
    <3> QED
      BY <2>3, <3>1 DEF Terminal, Turn
  <2> QED
    BY <1>3, <2>1, <2>2, <2>3 DEF Appends
<1>4. ASSUME MirrorStep PROVE TurnType' /\ TurnInv'
  BY <1>4 DEF MirrorStep, MirrorSends, MirrorLands, MirrorStops, MirrorLost, BusLost
<1>5. ASSUME NEW r \in Readers, Opens(r) PROVE TurnType' /\ TurnInv'
  BY <1>5 DEF Opens, OpenLocal, Step, Choose, OpenElsewhere, Lookup, Replay, ReadHistory
<1>6. ASSUME NEW r \in Readers, Follows(r) PROVE TurnType' /\ TurnInv'
  BY <1>6 DEF Follows, CatchUp, Step, Decide, Choose, Deliver, Wait
<1>7. ASSUME NEW r \in Readers, Ends(r) PROVE TurnType' /\ TurnInv'
  BY <1>7 DEF Ends, EndLocal, Step, CheckOwner, Leave
<1>8. ASSUME UNCHANGED vars PROVE TurnType' /\ TurnInv'
  BY <1>8 DEF vars
<1> QED
  BY <1>1, <1>2, <1>3, <1>4, <1>5, <1>6, <1>7, <1>8, StepCases

\* The connections keep their shape.
LEMMA PlacesKept ==
  ASSUME TurnType, TurnInv, PlaceType, [Next]_vars
  PROVE  PlaceType'
<1> USE WindowAssumption DEF TurnType, TurnInv, PlaceType, rowVars, logVars, mirrorVars, turnVars, queueVars,
    viewVars, readerVars
<1>1. ASSUME Goes PROVE PlaceType'
  BY <1>1 DEF Goes, Mark, Turn, Reject, Admit, CreateRow, Release, FreeSlot, Crash, Registered
<1>2. ASSUME Saves PROVE PlaceType'
  BY <1>2 DEF Saves, SaveProgress, Finalize, Turn, LeaseLapses, NextTurn
<1>3. ASSUME Appends PROVE PlaceType'
  <2>1. CASE Start
    <3>1. full' \subseteq Readers
      BY <2>1 DEF Start, Turn, Append, Subscribed
    <3>2. UNCHANGED <<near, readerVars>>
      BY <2>1 DEF Start
    <3> QED
      BY <3>1, <3>2
  <2>2. CASE Produce
    <3>1. full' \subseteq Readers
      BY <2>2 DEF Produce, Append, Subscribed
    <3>2. UNCHANGED <<near, readerVars>>
      BY <2>2 DEF Produce
    <3> QED
      BY <3>1, <3>2
  <2>3. CASE Terminal
    <3>1. full' \subseteq Readers
      BY <2>3 DEF Terminal, Turn, Append, Subscribed
    <3>2. UNCHANGED <<near, readerVars>>
      BY <2>3 DEF Terminal
    <3> QED
      BY <3>1, <3>2
  <2> QED
    BY <1>3, <2>1, <2>2, <2>3 DEF Appends
<1>4. ASSUME MirrorStep PROVE PlaceType'
  BY <1>4 DEF MirrorStep, MirrorSends, MirrorLands, MirrorStops, MirrorLost, BusLost
<1>5. ASSUME NEW r \in Readers, Opens(r) PROVE PlaceType'
  <2>1. CASE OpenLocal(r) \/ Replay(r)
    BY <2>1 DEF OpenLocal, Replay, Step, Choose
  <2>2. CASE OpenElsewhere(r) \/ Lookup(r)
    BY <2>2 DEF OpenElsewhere, Lookup, Step
  <2>3. CASE ReadHistory(r)
    BY <2>3 DEF ReadHistory, Step
  <2> QED
    BY <1>5, <2>1, <2>2, <2>3 DEF Opens
<1>6. ASSUME NEW r \in Readers, Follows(r) PROVE PlaceType'
  BY <1>6 DEF Follows, CatchUp, Step, Decide, Choose, Deliver, Wait
<1>7. ASSUME NEW r \in Readers, Ends(r) PROVE PlaceType'
  BY <1>7 DEF Ends, EndLocal, Step, CheckOwner, Leave
<1>8. ASSUME UNCHANGED vars PROVE PlaceType'
  BY <1>8 DEF vars
<1> QED
  BY <1>1, <1>2, <1>3, <1>4, <1>5, <1>6, <1>7, <1>8, StepCases

\* The stream holds the last events.
LEMMA BusKept ==
  ASSUME TurnType, MirrorType, BusInv, TurnInv, [Next]_vars
  PROVE  MirrorType' /\ BusInv'
<1> USE WindowAssumption DEF TurnType, TurnInv, MirrorType, BusInv, rowVars, logVars, mirrorVars, turnVars,
    queueVars, viewVars, readerVars
<1>1. ASSUME Goes PROVE MirrorType' /\ BusInv'
  BY <1>1 DEF Goes, Mark, Turn, Reject, Admit, CreateRow, Release, FreeSlot, Crash, Registered
<1>2. ASSUME Saves PROVE MirrorType' /\ BusInv'
  BY <1>2 DEF Saves, SaveProgress, Finalize, Turn, LeaseLapses, NextTurn
<1>3. ASSUME Appends PROVE MirrorType' /\ BusInv'
  BY <1>3 DEF Appends, Start, Turn, Append, Produce, Terminal
<1>4. ASSUME MirrorStep PROVE MirrorType' /\ BusInv'
  <2>1. CASE MirrorSends
    BY <2>1 DEF MirrorSends
  <2>2. CASE MirrorLands
    <3>1. mirrored' = mirrored + 1 /\ wire' = 0 /\ UNCHANGED <<seq, mirror>> /\ mirrored' <= seq
      BY <2>2 DEF MirrorLands
    <3>2. PICK a \in 1..(mirrored + 1) : bus = a..mirrored
      OBVIOUS
    <3>3. bus' = Trim(a..mirrored')
      <4>1. bus \cup {wire} = a..mirrored'
        BY <2>2, <3>1, <3>2 DEF MirrorLands
      <4> QED
        BY <2>2, <4>1 DEF MirrorLands
    <3>4. mirrored' \in Nat /\ a \in 1..mirrored'
      BY <3>1
    <3>5. PICK c \in 1..mirrored' : bus' = c..mirrored' /\ Cardinality(c..mirrored') <= BusWindow
      BY <3>3, <3>4, TrimmedInterval
    <3> QED
      BY <3>1, <3>5
  <2>3. CASE MirrorStops
    BY <2>3 DEF MirrorStops
  <2>4. CASE MirrorLost
    BY <2>4 DEF MirrorLost
  <2>5. CASE BusLost
    <3>1. bus' = {} /\ UNCHANGED <<seq, mirror, mirrored, wire>>
      BY <2>5 DEF BusLost
    <3>2. Cardinality(bus') <= BusWindow
      BY <3>1, FS_EmptySet
    <3>3. mirrored + 1 \in 1..(mirrored + 1) /\ (mirrored + 1)..mirrored = {}
      OBVIOUS
    <3> QED
      BY <3>1, <3>2, <3>3
  <2> QED
    BY <1>4, <2>1, <2>2, <2>3, <2>4, <2>5 DEF MirrorStep
<1>5. ASSUME NEW r \in Readers, Opens(r) PROVE MirrorType' /\ BusInv'
  BY <1>5 DEF Opens, OpenLocal, Step, Choose, OpenElsewhere, Lookup, Replay, ReadHistory
<1>6. ASSUME NEW r \in Readers, Follows(r) PROVE MirrorType' /\ BusInv'
  BY <1>6 DEF Follows, CatchUp, Step, Decide, Choose, Deliver, Wait
<1>7. ASSUME NEW r \in Readers, Ends(r) PROVE MirrorType' /\ BusInv'
  BY <1>7 DEF Ends, EndLocal, Step, CheckOwner, Leave
<1>8. ASSUME UNCHANGED vars PROVE MirrorType' /\ BusInv'
  BY <1>8 DEF vars
<1> QED
  BY <1>1, <1>2, <1>3, <1>4, <1>5, <1>6, <1>7, <1>8, StepCases

\* The event that the turn appends reaches every queue of a local connection that it
\* does not overflow.
LEMMA AppendKept ==
  ASSUME TurnType, PlaceType, EventType, ReadsInv, Append, UNCHANGED <<at, source, got>>
  PROVE  held' \in [Readers -> SUBSET Nat] /\ got' \in [Readers -> SUBSET Nat] /\ ReadsInv'
<1> USE DEF TurnType, PlaceType, EventType, Sequences
<1>1. PICK dropped \in SUBSET Subscribed :
        /\ full' = full \cup dropped
        /\ held' = [r \in Readers |->
                     IF r \in dropped THEN got[r] ELSE IF r \in Subscribed THEN held[r] \cup {seq + 1} ELSE held[r]]
  BY DEF Append
<1>2. seq' = seq + 1 /\ seq \in Nat
  BY DEF Append
<1>3. held' \in [Readers -> SUBSET Nat] /\ got' \in [Readers -> SUBSET Nat]
  BY <1>1, <1>2, WindowAssumption
<1>4. ASSUME NEW r \in Readers
      PROVE  /\ \E n \in 0..seq' : held'[r] = FirstEvents(n)
             /\ \E n \in Nat : got'[r] = FirstEvents(n)
             /\ got'[r] \subseteq held'[r]
             /\ r \in Subscribed' => held'[r] = FirstEvents(seq')
  <2>1. PICK n \in 0..seq, m \in Nat :
          held[r] = FirstEvents(n) /\ got[r] = FirstEvents(m) /\ got[r] \subseteq held[r] /\ (r \in Subscribed => held[r] = FirstEvents(seq))
    BY DEF ReadsInv
  <2>2. m \in 0..n
    BY <2>1, Beginnings
  <2>3. r \in Subscribed' => r \in Subscribed /\ r \notin dropped
    BY <1>1 DEF Subscribed
  <2>4. CASE r \in dropped
    <3>1. held'[r] = FirstEvents(m) /\ got'[r] = FirstEvents(m) /\ r \notin Subscribed'
      BY <1>1, <2>1, <2>3, <2>4
    <3> QED
      BY <1>2, <2>2, <3>1
  <2>5. CASE r \notin dropped /\ r \in Subscribed
    <3>1. held'[r] = FirstEvents(seq')
      BY <1>1, <1>2, <2>1, <2>5, Beginnings
    <3>2. got'[r] = FirstEvents(m) /\ FirstEvents(m) \subseteq held'[r]
      BY <1>1, <2>1, <2>5
    <3> QED
      BY <1>2, <3>1, <3>2
  <2>6. CASE r \notin dropped /\ r \notin Subscribed
    <3>1. held'[r] = held[r] /\ r \notin Subscribed'
      BY <1>1, <2>3, <2>6
    <3> QED
      BY <1>2, <2>1, <3>1
  <2> QED
    BY <2>4, <2>5, <2>6
<1> QED
  BY <1>3, <1>4 DEF ReadsInv

\* A step after which one connection holds a beginning of the turn that has all it wrote.
LEMMA SetReads ==
  ASSUME TurnType, PlaceType, EventType, ReadsInv, NEW r \in Readers, NEW n \in 0..seq,
         held' = [held EXCEPT ![r] = FirstEvents(n)], got[r] \subseteq FirstEvents(n),
         r \in Subscribed' => n = seq, Subscribed' \subseteq Subscribed \cup {r}, UNCHANGED <<got, seq>>
  PROVE  held' \in [Readers -> SUBSET Nat] /\ got' \in [Readers -> SUBSET Nat] /\ ReadsInv'
<1> USE DEF EventType, Sequences
<1>1. held'[r] = FirstEvents(n) /\ \A q \in Readers \ {r} : held'[q] = held[q]
  OBVIOUS
<1>2. held' \in [Readers -> SUBSET Nat] /\ got' \in [Readers -> SUBSET Nat]
  <2>1. FirstEvents(n) \subseteq Nat
    BY Beginnings
  <2> QED
    BY <2>1, WindowAssumption
<1>3. ASSUME NEW q \in Readers
      PROVE  /\ \E k \in 0..seq' : held'[q] = FirstEvents(k)
             /\ \E k \in Nat : got'[q] = FirstEvents(k)
             /\ got'[q] \subseteq held'[q]
             /\ q \in Subscribed' => held'[q] = FirstEvents(seq')
  <2>1. CASE q = r
    BY <1>1, <2>1 DEF ReadsInv
  <2>2. CASE q # r
    BY <1>1, <2>2 DEF ReadsInv
  <2> QED
    BY <2>1, <2>2
<1> QED
  BY <1>2, <1>3 DEF ReadsInv

\* A step that adds the entries of the stream to a connection that is not local.
LEMMA ExtendKept ==
  ASSUME TurnType, PlaceType, MirrorType, EventType, ReadsInv, NEW r \in Readers,
         ~HasGap(LastHeld(r), Entries(LastHeld(r))),
         held' = [held EXCEPT ![r] = held[r] \cup Entries(LastHeld(r))],
         r \notin Subscribed', Subscribed' \subseteq Subscribed \cup {r}, UNCHANGED <<got, seq>>
  PROVE  held' \in [Readers -> SUBSET Nat] /\ got' \in [Readers -> SUBSET Nat] /\ ReadsInv'
<1>1. PICK h \in 0..seq : held[r] = FirstEvents(h) /\ got[r] \subseteq held[r]
  BY DEF ReadsInv
<1>2. seq \in Nat /\ h \in Nat /\ LastHeld(r) = h
  <2>1. seq \in Nat /\ h \in Nat
    BY WindowAssumption DEF TurnType
  <2> QED
    BY <1>1, <2>1, IntervalBounds DEF LastHeld
<1>3. PICK n \in h..seq : FirstEvents(h) \cup Entries(h) = FirstEvents(n)
  BY <1>2, ExtendedReads
<1>4. n \in 0..seq /\ got[r] \subseteq FirstEvents(n)
  BY <1>1, <1>2, <1>3
<1>5. held' = [held EXCEPT ![r] = FirstEvents(n)]
  BY <1>1, <1>2, <1>3 DEF EventType
<1> QED
  BY <1>4, <1>5, SetReads


\* A connection has the events without a gap.
LEMMA ReadsKept ==
  ASSUME TurnType, PlaceType, MirrorType, EventType, TurnInv, ReadsInv, ShownInv, [Next]_vars
  PROVE  held' \in [Readers -> SUBSET Nat] /\ got' \in [Readers -> SUBSET Nat] /\ ReadsInv'
<1> USE WindowAssumption DEF TurnType, PlaceType, EventType, TurnInv, ReadsInv, Subscribed, Sequences,
    rowVars, logVars, mirrorVars, turnVars, queueVars, viewVars, readerVars
<1>1. ASSUME Goes PROVE held' \in [Readers -> SUBSET Nat] /\ got' \in [Readers -> SUBSET Nat] /\ ReadsInv'
  BY <1>1 DEF Goes, Mark, Turn, Reject, Admit, CreateRow, Release, FreeSlot, Crash, Registered
<1>2. ASSUME Saves PROVE held' \in [Readers -> SUBSET Nat] /\ got' \in [Readers -> SUBSET Nat] /\ ReadsInv'
  BY <1>2 DEF Saves, SaveProgress, Finalize, Turn, LeaseLapses, NextTurn
<1>3. ASSUME Appends PROVE held' \in [Readers -> SUBSET Nat] /\ got' \in [Readers -> SUBSET Nat] /\ ReadsInv'
  <2>1. CASE Start
    BY <2>1, AppendKept DEF Start, Turn
  <2>2. CASE Produce
    BY <2>2, AppendKept DEF Produce
  <2>3. CASE Terminal
    BY <2>3, AppendKept DEF Terminal, Turn
  <2> QED
    BY <1>3, <2>1, <2>2, <2>3 DEF Appends
<1>4. ASSUME MirrorStep PROVE held' \in [Readers -> SUBSET Nat] /\ got' \in [Readers -> SUBSET Nat] /\ ReadsInv'
  BY <1>4 DEF MirrorStep, MirrorSends, MirrorLands, MirrorStops, MirrorLost, BusLost
<1>5. ASSUME NEW r \in Readers, Opens(r) PROVE held' \in [Readers -> SUBSET Nat] /\ got' \in [Readers -> SUBSET Nat] /\ ReadsInv'
  <2>1. CASE OpenLocal(r)
    <3>1. got[r] = {} /\ seq \in 0..seq /\ UNCHANGED <<got, seq>>
      BY <2>1 DEF OpenLocal, Step, ShownInv
    <3>2. CASE held' = [held EXCEPT ![r] = 1..seq]
      <4>1. held' = [held EXCEPT ![r] = FirstEvents(seq)]
        BY <3>2 DEF FirstEvents
      <4>2. Subscribed' \subseteq Subscribed \cup {r}
        BY <2>1 DEF OpenLocal, Step, Choose
      <4> QED
        BY <3>1, <4>1, <4>2, SetReads
    <3>3. CASE source' = [source EXCEPT ![r] = "unavailable"] /\ UNCHANGED held
      BY <2>1, <3>3 DEF OpenLocal, Step
    <3> QED
      BY <2>1, <3>2, <3>3 DEF OpenLocal, Choose
  <2>2. CASE OpenElsewhere(r)
    BY <2>2 DEF OpenElsewhere, Step
  <2>3. CASE Lookup(r)
    BY <2>3 DEF Lookup, Step
  <2>4. CASE Replay(r)
    <3>1. got[r] = {} /\ UNCHANGED <<got, seq>>
      BY <2>4 DEF Replay, Step, ShownInv
    <3>2. CASE Replayable(0) /\ source' = [source EXCEPT ![r] = "remote"] /\ held' = [held EXCEPT ![r] = bus]
      <4>1. Entries(0) = bus
        <5>1. \A n \in bus : n \in Nat /\ n > 0
          BY DEF MirrorType
        <5> QED
          BY <5>1 DEF Entries
      <4>2. PICK n \in 0..seq : bus = FirstEvents(n)
        <5>1. CASE bus = {}
          BY <5>1, Beginnings
        <5>2. CASE ~HasGap(0, Entries(0))
          <6>1. 0 \in 0..seq /\ seq \in Nat
            OBVIOUS
          <6>2. PICK n \in 0..seq : FirstEvents(0) \cup Entries(0) = FirstEvents(n)
            BY <5>2, <6>1, ExtendedReads
          <6>3. FirstEvents(0) \cup Entries(0) = bus
            BY <4>1, Beginnings
          <6> QED
            BY <6>2, <6>3
        <5> QED
          BY <3>2, <5>1, <5>2 DEF Replayable
      <4>3. r \notin Subscribed' /\ Subscribed' \subseteq Subscribed \cup {r}
        BY <2>4, <3>2 DEF Replay, Step
      <4> QED
        BY <3>1, <3>2, <4>2, <4>3, SetReads
    <3>3. CASE source' = [source EXCEPT ![r] = "unavailable"] /\ UNCHANGED held
      BY <2>4, <3>3 DEF Replay, Step
    <3> QED
      BY <2>4, <3>2, <3>3 DEF Replay, Choose
  <2>5. CASE ReadHistory(r)
    BY <2>5 DEF ReadHistory, Step
  <2> QED
    BY <1>5, <2>1, <2>2, <2>3, <2>4, <2>5 DEF Opens
<1>6. ASSUME NEW r \in Readers, Follows(r) PROVE held' \in [Readers -> SUBSET Nat] /\ got' \in [Readers -> SUBSET Nat] /\ ReadsInv'
  <2>1. CASE CatchUp(r)
    <3>1. UNCHANGED <<got, seq>> /\ r \notin Subscribed' /\ Subscribed' \subseteq Subscribed \cup {r}
      BY <2>1 DEF CatchUp, Step
    <3>2. CASE Replayable(LastHeld(r)) /\ held' = [held EXCEPT ![r] = held[r] \cup Entries(LastHeld(r))]
      <4>1. CASE bus = {}
        <5>1. held' = held
          BY <3>2, <4>1 DEF Entries
        <5> QED
          BY <2>1, <5>1 DEF CatchUp, Step
      <4>2. CASE ~HasGap(LastHeld(r), Entries(LastHeld(r)))
        BY <3>1, <3>2, <4>2, ExtendKept
      <4> QED
        BY <3>2, <4>1, <4>2 DEF Replayable
    <3>3. CASE UNCHANGED held
      BY <2>1, <3>3 DEF CatchUp, Step
    <3> QED
      BY <2>1, <3>2, <3>3 DEF CatchUp
  <2>2. CASE Decide(r)
    BY <2>2 DEF Decide, Choose
  <2>3. CASE Deliver(r)
    <3>1. PICK n \in 0..seq, m \in Nat : held[r] = FirstEvents(n) /\ got[r] = FirstEvents(m) /\ got[r] \subseteq held[r]
      OBVIOUS
    <3>2. n \in Nat /\ m < n
      <4>1. n \in Nat /\ m <= n
        BY <3>1, Beginnings
      <4>2. m # n
        BY <2>3, <3>1 DEF Deliver, Pending
      <4> QED
        BY <4>1, <4>2
    <3>3. got' = [got EXCEPT ![r] = FirstEvents(m + 1)]
      <4>1. Min(Pending(r)) = m + 1
        BY <3>1, <3>2, Beginnings DEF Pending
      <4>2. got' = [got EXCEPT ![r] = FirstEvents(m) \cup {m + 1}]
        BY <2>3, <3>1, <4>1 DEF Deliver
      <4> QED
        BY <4>2, Beginnings
    <3>4. m + 1 \in Nat /\ FirstEvents(m + 1) \subseteq held[r] /\ FirstEvents(m + 1) \subseteq Nat
      BY <3>1, <3>2, Beginnings
    <3>5. UNCHANGED <<held, source, full, seq>> /\ Subscribed' \subseteq Subscribed
      BY <2>3 DEF Deliver
    <3>6. held' \in [Readers -> SUBSET Nat] /\ got' \in [Readers -> SUBSET Nat]
      BY <3>3, <3>4, <3>5
    <3>7. \A q \in Readers : got'[q] = IF q = r THEN FirstEvents(m + 1) ELSE got[q]
      BY <3>3
    <3> QED
      BY <3>4, <3>5, <3>6, <3>7
  <2>4. CASE Wait(r)
    <3>1. UNCHANGED <<got, seq>> /\ r \notin Subscribed' /\ Subscribed' \subseteq Subscribed
      BY <2>4 DEF Wait, Step
    <3>2. CASE ~HasGap(LastHeld(r), Entries(LastHeld(r))) /\ held' = [held EXCEPT ![r] = held[r] \cup Entries(LastHeld(r))]
      BY <3>1, <3>2, ExtendKept
    <3>3. CASE UNCHANGED held
      BY <3>1, <3>3
    <3> QED
      BY <2>4, <3>2, <3>3 DEF Wait
  <2> QED
    BY <1>6, <2>1, <2>2, <2>3, <2>4 DEF Follows
<1>7. ASSUME NEW r \in Readers, Ends(r) PROVE held' \in [Readers -> SUBSET Nat] /\ got' \in [Readers -> SUBSET Nat] /\ ReadsInv'
  BY <1>7 DEF Ends, EndLocal, Step, CheckOwner, Leave
<1>8. ASSUME UNCHANGED vars PROVE held' \in [Readers -> SUBSET Nat] /\ got' \in [Readers -> SUBSET Nat] /\ ReadsInv'
  BY <1>8 DEF vars
<1> QED
  BY <1>1, <1>2, <1>3, <1>4, <1>5, <1>6, <1>7, <1>8, StepCases

\* No reply is shown twice.
LEMMA ShownKept ==
  ASSUME TurnType, TurnInv, PlaceType, EventType, ReadsInv, ShownInv, [Next]_vars
  PROVE  ShownInv'
<1> USE WindowAssumption DEF TurnType, TurnInv, PlaceType, EventType, ShownInv, Produced, rowVars, logVars,
    mirrorVars, turnVars, queueVars, viewVars, readerVars
<1>1. ASSUME Goes PROVE ShownInv'
  BY <1>1 DEF Goes, Mark, Turn, Reject, Admit, CreateRow, Release, FreeSlot, Crash, Registered
<1>2. ASSUME Saves PROVE ShownInv'
  BY <1>2 DEF Saves, SaveProgress, Finalize, Turn, LeaseLapses, NextTurn
<1>3. ASSUME Appends PROVE ShownInv'
  BY <1>3 DEF Appends, Start, Turn, Append, Produce, Terminal
<1>4. ASSUME MirrorStep PROVE ShownInv'
  BY <1>4 DEF MirrorStep, MirrorSends, MirrorLands, MirrorStops, MirrorLost, BusLost
<1>5. ASSUME NEW r \in Readers, Opens(r) PROVE ShownInv'
  <2>1. CASE OpenLocal(r)
    BY <2>1 DEF OpenLocal, Step, Choose
  <2>2. CASE OpenElsewhere(r)
    BY <2>2 DEF OpenElsewhere, Step
  <2>3. CASE Lookup(r)
    BY <2>3 DEF Lookup, Step
  <2>4. CASE Replay(r)
    BY <2>4 DEF Replay, Step, Choose
  <2>5. CASE ReadHistory(r)
    BY <2>5 DEF ReadHistory, Step
  <2> QED
    BY <1>5, <2>1, <2>2, <2>3, <2>4, <2>5 DEF Opens
<1>6. ASSUME NEW r \in Readers, Follows(r) PROVE ShownInv'
  <2>1. CASE CatchUp(r)
    BY <2>1 DEF CatchUp, Step
  <2>2. CASE Decide(r)
    <3>1. UNCHANGED <<got, seen, late, saved>> /\ got[r] = {} /\ \A q \in Readers \ {r} : at'[q] = at[q] /\ left'[q] = left[q]
      BY <2>2 DEF Decide
    <3>2. at'[r] # "done" => late[r] \/ left'[r] \/ seen[r] = 0
      <4>1. CASE Named(r)
        BY <2>2, <4>1 DEF Decide
      <4>2. CASE ~Named(r) /\ source[r] = "remote"
        BY <2>2, <4>2 DEF Decide, HasReply
      <4>3. CASE ~Named(r) /\ source[r] = "local" /\ r \notin full /\ seen[r] # 0
        <5>1. started /\ seq \in Nat /\ seq >= 1
          BY <4>3
        <5>2. held[r] = FirstEvents(seq)
          BY <2>2, <4>3 DEF Decide, ReadsInv, Subscribed
        <5> QED
          BY <4>3, <5>1, <5>2 DEF Named, FirstEvents
      <4>4. CASE ~(source[r] = "remote") /\ ~(source[r] = "local" /\ r \notin full)
        BY <2>2, <4>4 DEF Decide
      <4> QED
        BY <4>1, <4>2, <4>3, <4>4
    <3>3. at'[r] \in {"streaming", "done"}
      BY <2>2 DEF Decide
    <3> QED
      BY <3>1, <3>2, <3>3
  <2>3. CASE Deliver(r)
    BY <2>3 DEF Deliver
  <2>4. CASE Wait(r)
    BY <2>4 DEF Wait, Step
  <2> QED
    BY <1>6, <2>1, <2>2, <2>3, <2>4 DEF Follows
<1>7. ASSUME NEW r \in Readers, Ends(r) PROVE ShownInv'
  BY <1>7 DEF Ends, EndLocal, Step, CheckOwner, Leave
<1>8. ASSUME UNCHANGED vars PROVE ShownInv'
  BY <1>8 DEF vars
<1> QED
  BY <1>1, <1>2, <1>3, <1>4, <1>5, <1>6, <1>7, <1>8, StepCases

-----------------------------------------------------------------------------
(* The theorems                                                            *)

\* The first state satisfies the invariant.
LEMMA ConnectStart ==
  ASSUME Init
  PROVE  ConnectInv
<1> USE WindowAssumption DEF Init
<1>1. TurnType /\ TurnInv
  <2>1. Produced = 0
    BY DEF Produced
  <2>2. 0 \in 0..Pieces /\ 0 \in 0..(Pieces + 2)
    OBVIOUS
  <2>3. newer \in BOOLEAN /\ started \in BOOLEAN
    OBVIOUS
  <2> QED
    BY <2>1, <2>2, <2>3 DEF TurnType, TurnInv
<1>2. MirrorType /\ BusInv
  <2>1. Cardinality(bus) <= BusWindow
    BY FS_EmptySet
  <2>2. 1 \in 1..(mirrored + 1) /\ bus = 1..mirrored
    OBVIOUS
  <2> QED
    BY <2>1, <2>2 DEF MirrorType, BusInv
<1>3. PlaceType
  BY DEF PlaceType
<1>4. EventType /\ ReadsInv
  <2>1. \A r \in Readers : held[r] = FirstEvents(0) /\ got[r] = FirstEvents(0) /\ r \notin Subscribed
    BY Beginnings DEF Subscribed
  <2> QED
    BY <2>1 DEF EventType, ReadsInv
<1>5. ShownInv
  BY DEF ShownInv
<1> QED
  BY <1>1, <1>2, <1>3, <1>4, <1>5, TypeParts DEF ConnectInv

\* Every step keeps it.
LEMMA ConnectStep ==
  ASSUME ConnectInv, [Next]_vars
  PROVE  ConnectInv'
<1>1. TurnType /\ MirrorType /\ PlaceType /\ EventType /\ TurnInv /\ BusInv /\ ReadsInv /\ ShownInv
  BY TypeParts DEF ConnectInv
<1>2. TurnType' /\ TurnInv' /\ MirrorType' /\ BusInv' /\ PlaceType'
  BY <1>1, TurnKept, BusKept, PlacesKept
<1>3. held' \in [Readers -> SUBSET Nat] /\ got' \in [Readers -> SUBSET Nat] /\ ReadsInv' /\ ShownInv'
  BY <1>1, ReadsKept, ShownKept
<1>4. EventType'
  <2>1. seq' \in Nat /\ seq' <= Pieces + 2 /\ Pieces + 2 \in Nat
    BY <1>2, WindowAssumption DEF TurnType
  <2>2. ASSUME NEW r \in Readers PROVE held'[r] \subseteq Sequences /\ got'[r] \subseteq Sequences
    <3>1. PICK n \in 0..seq' : held'[r] = FirstEvents(n) /\ got'[r] \subseteq held'[r]
      BY <1>3 DEF ReadsInv
    <3>2. FirstEvents(n) \subseteq Sequences
      BY <2>1 DEF FirstEvents, Sequences
    <3> QED
      BY <3>1, <3>2
  <2> QED
    BY <1>3, <2>2 DEF EventType
<1>5. TypeOK'
  BY <1>2, <1>4 DEF TypeOK, TurnType, MirrorType, PlaceType, EventType
<1> QED
  BY <1>2, <1>3, <1>5 DEF ConnectInv

\* A connection sees the turn in order, from its start, whatever its row, its log and its
\* mirror did between the reads.
THEOREM ConnectCorrect == Spec => []ConnectInv
<1> QED
  BY ConnectStart, ConnectStep, PTL DEF Spec

\* No piece of a reply is streamed to a client that had it from history.
THEOREM ViewInvariantHolds == Spec => []ViewInvariant
<1>1. ConnectInv => ShownOnce
  BY DEF ConnectInv, ShownInv, ShownOnce
<1>2. ConnectInv => ViewInvariant
  BY <1>1 DEF ConnectInv, ViewInvariant
<1> QED
  BY <1>2, ConnectCorrect, PTL

\* A stream that delivers the end of the turn delivered all of it.
THEOREM FinishedViewIsWholeHolds == Spec => []FinishedViewIsWhole
<1>1. ASSUME ConnectInv, NEW r \in Readers, term # 0, term \in got[r] PROVE got[r] = 1..term
  <2>1. seq \in Nat /\ term = seq
    BY <1>1, WindowAssumption DEF ConnectInv, TypeOK
  <2>2. PICK n \in 0..seq, m \in Nat : held[r] = FirstEvents(n) /\ got[r] = FirstEvents(m) /\ got[r] \subseteq held[r]
    BY <1>1 DEF ConnectInv, ReadsInv
  <2>3. m <= n /\ n <= seq
    BY <2>1, <2>2, Beginnings
  <2>4. term <= m
    BY <1>1, <2>1, <2>2 DEF FirstEvents
  <2>5. m = term
    BY <2>1, <2>2, <2>3, <2>4
  <2> QED
    BY <2>2, <2>5 DEF FirstEvents
<1>2. ConnectInv => FinishedViewIsWhole
  BY <1>1 DEF FinishedViewIsWhole
<1> QED
  BY <1>2, ConnectCorrect, PTL

-----------------------------------------------------------------------------
(* The refinement of FollowedTurn                                          *)

\* A step that only moves a connection whose stream is open leaves the views alone,
\* and at most closes that stream.
LEMMA MoveImplements ==
  ASSUME PlaceType, NEW r \in Readers, at[r] # "done", NEW place, at' = [at EXCEPT ![r] = place],
         UNCHANGED <<seq, term, got>>
  PROVE  (\E S \in SUBSET Readers : Followed!Close(S)) \/ UNCHANGED Followed!followVars
<1> DEFINE gone == {q \in Readers : at[q] = "done"}
<1>1. gone' = IF place = "done" THEN gone \cup {r} ELSE gone
  BY DEF PlaceType
<1>2. CASE place = "done"
  <2>1. {r} \in SUBSET Readers /\ Followed!Close({r})
    BY <1>1, <1>2 DEF Followed!Close
  <2> QED
    BY <2>1
<1>3. CASE place # "done"
  BY <1>1, <1>3 DEF Followed!followVars
<1> QED
  BY <1>2, <1>3

\* A frame is the event after the last one that the connection was shown; the end of
\* the turn, which closes a remote stream, is the newest event.
LEMMA DeliverImplements ==
  ASSUME TurnType, PlaceType, EventType, ReadsInv, NEW r \in Readers, Deliver(r)
  PROVE  \E n \in 1..seq : Followed!Show(r, n)
<1> DEFINE gone == {q \in Readers : at[q] = "done"}
<1>1. seq \in Nat /\ term \in {0, seq}
  BY WindowAssumption DEF TurnType
<1>2. PICK n \in 0..seq, m \in Nat : held[r] = FirstEvents(n) /\ got[r] = FirstEvents(m) /\ got[r] \subseteq held[r]
  BY DEF ReadsInv
<1>3. n \in Nat /\ m < n
  <2>1. n \in Nat /\ m <= n
    BY <1>1, <1>2, Beginnings
  <2>2. m # n
    BY <1>2 DEF Deliver, Pending
  <2> QED
    BY <2>1, <2>2
<1>4. Min(Pending(r)) = m + 1
  BY <1>2, <1>3, Beginnings DEF Pending
<1>5. m + 1 \in 1..seq
  BY <1>1, <1>2, <1>3
<1>6. got[r] = 1..((m + 1) - 1)
  BY <1>2 DEF FirstEvents
<1>7. got' = [got EXCEPT ![r] = 1..(m + 1)]
  <2>1. got' = [got EXCEPT ![r] = FirstEvents(m) \cup {m + 1}]
    BY <1>2, <1>4 DEF Deliver
  <2> QED
    BY <1>2, <2>1, Beginnings DEF FirstEvents
<1>8. r \notin gone /\ UNCHANGED <<seq, term>>
  BY DEF Deliver, turnVars, logVars
<1>9. gone' = gone \/ (term # 0 /\ m + 1 = seq /\ gone' = gone \cup {r})
  <2>1. CASE at' = at
    BY <2>1
  <2>2. CASE m + 1 = term /\ at' = [at EXCEPT ![r] = "done"]
    <3>1. gone' = gone \cup {r}
      BY <2>2 DEF PlaceType
    <3>2. term # 0 /\ m + 1 = seq
      BY <1>1, <1>2, <2>2
    <3> QED
      BY <3>1, <3>2
  <2> QED
    BY <1>4, <2>1, <2>2 DEF Deliver
<1> QED
  BY <1>5, <1>6, <1>7, <1>8, <1>9 DEF Followed!Show

\* A process that dies closes the streams it had.
LEMMA CrashImplements ==
  ASSUME PlaceType, Crash
  PROVE  \E S \in SUBSET Readers : Followed!Close(S)
<1> DEFINE S == {r \in near : at[r] # "idle"}
<1>1. S \in SUBSET Readers
  BY DEF PlaceType
<1>2. {r \in Readers : at'[r] = "done"} = {r \in Readers : at[r] = "done"} \cup S
  BY DEF Crash, PlaceType
<1>3. UNCHANGED <<seq, term, got>>
  BY DEF Crash, logVars
<1> QED
  BY <1>1, <1>2, <1>3 DEF Followed!Close

\* Every step of a connection shows one event, ends one stream or does neither.
LEMMA ReaderImplements ==
  ASSUME TurnType, PlaceType, EventType, ReadsInv, NEW r \in Readers, Opens(r) \/ Follows(r) \/ Ends(r)
  PROVE  Followed!FollowNext \/ UNCHANGED Followed!followVars
<1> USE DEF turnVars, logVars, queueVars, readerVars, viewVars
<1>1. ASSUME NEW place, at[r] # "done", at' = [at EXCEPT ![r] = place], UNCHANGED <<seq, term, got>>
      PROVE  Followed!FollowNext \/ UNCHANGED Followed!followVars
  BY <1>1, MoveImplements DEF Followed!FollowNext
<1>2. CASE OpenLocal(r) \/ OpenElsewhere(r)
  BY <1>1, <1>2 DEF OpenLocal, OpenElsewhere, Step
<1>3. CASE Lookup(r) \/ Replay(r)
  BY <1>1, <1>3 DEF Lookup, Replay, Step
<1>4. CASE ReadHistory(r)
  BY <1>1, <1>4 DEF ReadHistory, Step
<1>5. CASE CatchUp(r)
  BY <1>1, <1>5 DEF CatchUp, Step
<1>6. CASE Decide(r)
  <2>1. at[r] # "done" /\ UNCHANGED <<seq, term, got>>
    BY <1>6 DEF Decide
  <2>2. \E place : at' = [at EXCEPT ![r] = place]
    BY <1>6 DEF Decide
  <2> QED
    BY <1>1, <2>1, <2>2
<1>7. CASE Deliver(r)
  BY <1>7, DeliverImplements DEF Followed!FollowNext
<1>8. CASE Wait(r)
  <2>1. UNCHANGED <<seq, term, got>>
    BY <1>8 DEF Wait
  <2>2. CASE at' = at
    BY <2>1, <2>2 DEF Followed!followVars
  <2>3. CASE Step(r, "streaming", "done") \/ Step(r, "streaming", "checking")
    BY <1>1, <2>1, <2>3 DEF Step
  <2> QED
    BY <1>8, <2>2, <2>3 DEF Wait
<1>9. CASE Ends(r)
  BY <1>1, <1>9 DEF Ends, EndLocal, CheckOwner, Leave, Step
<1> QED
  BY <1>2, <1>3, <1>4, <1>5, <1>6, <1>7, <1>8, <1>9 DEF Opens, Follows

\* Every step is one of FollowedTurn or none.
LEMMA ConnectImplements ==
  ASSUME ConnectInv, [Next]_vars
  PROVE  [Followed!FollowNext]_(Followed!followVars)
<1>1. TurnType /\ PlaceType /\ EventType /\ TurnInv /\ ReadsInv
  BY TypeParts DEF ConnectInv
<1>2. ASSUME UNCHANGED <<seq, term, got, at>> PROVE UNCHANGED Followed!followVars
  BY <1>2 DEF Followed!followVars
<1>3. CASE Goes
  <2>1. CASE Crash
    BY <1>1, <2>1, CrashImplements DEF Followed!FollowNext
  <2>2. CASE Mark \/ Reject \/ Admit \/ CreateRow \/ Release \/ FreeSlot
    BY <1>2, <2>2 DEF Mark, Reject, Admit, CreateRow, Release, FreeSlot, logVars, readerVars
  <2> QED
    BY <1>3, <2>1, <2>2 DEF Goes
<1>4. CASE Saves
  BY <1>2, <1>4 DEF Saves, SaveProgress, Finalize, LeaseLapses, NextTurn, logVars, readerVars
<1>5. CASE Appends
  <2>1. pc # "ended" /\ UNCHANGED <<got, at>>
    BY <1>5 DEF Appends, Start, Produce, Terminal, Turn, readerVars
  <2>2. term = 0
    BY <1>1, <2>1 DEF TurnInv
  <2>3. seq' = seq + 1
    BY <1>5 DEF Appends, Start, Produce, Terminal, Append
  <2>4. Followed!Happen
    BY <2>1, <2>2, <2>3 DEF Followed!Happen
  <2> QED
    BY <2>4 DEF Followed!FollowNext
<1>6. CASE MirrorStep
  BY <1>2, <1>6 DEF MirrorStep, MirrorSends, MirrorLands, MirrorStops, MirrorLost, BusLost, logVars, readerVars
<1>7. CASE UNCHANGED vars
  BY <1>2, <1>7 DEF vars, turnVars, logVars, readerVars
<1> QED
  BY <1>1, <1>3, <1>4, <1>5, <1>6, <1>7, ReaderImplements, StepCases

\* The replay implements FollowedTurn: on any replica, for any windows, any length of the
\* turn and any number of connections, frames come in the order of the events, each once
\* and none skipped, until the stream ends for good.
THEOREM ConnectFollowsTurn == Spec => FollowsTurn
<1>1. Init => Followed!FollowInit
  BY DEF Init, Followed!FollowInit
<1>2. ConnectInv /\ [Next]_vars => [Followed!FollowNext]_(Followed!followVars)
  BY ConnectImplements
<1> QED
  BY <1>1, <1>2, ConnectCorrect, PTL DEF Spec, FollowsTurn, Followed!FollowSpec
=============================================================================
