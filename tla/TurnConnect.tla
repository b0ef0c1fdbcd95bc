---------------------------- MODULE TurnConnect ----------------------------
(***************************************************************************)
(* A browser connects to a session while a turn runs on it: the saved      *)
(* history first, then the turn replayed from its start and followed live. *)
(* On the replica of the turn the events come from its TurnEventLog; on    *)
(* another replica from the Redis stream that mirrors the log              *)
(* (TurnCoordinationBus).  The row of the reply, the log and the mirror    *)
(* advance at their own pace, and every read of the connection sees them   *)
(* at another moment.                                                      *)
(*                                                                         *)
(* An event is its sequence number.  Event 1 stands for RUN_STARTED and    *)
(* turn_started, the next ones for pieces of the reply, the last one for   *)
(* the terminal event; a turn that fails before its row exists has only    *)
(* that.  The saved row is the number of pieces it holds.                  *)
(***************************************************************************)
EXTENDS Naturals, FiniteSets, FiniteSetsExt

CONSTANTS
  Readers,     \* connections
  Pieces,      \* bound: pieces of the reply
  LogWindow,   \* MAX_EVENTS of the log
  BusWindow    \* MAX_EVENTS of the bus

ASSUME WindowAssumption == Pieces \in Nat /\ LogWindow \in Nat \ {0} /\ BusWindow \in Nat \ {0}

VARIABLES
  pc,          \* where the turn is
  exec,        \* its execution: none, live, over
  newer,       \* a newer prompt was saved, by a newer execution
  saved,       \* pieces in the saved row
  started,     \* turn_started is in the log
  seq,         \* last sequence of the log
  term,        \* sequence of the terminal event, or 0
  mirror,      \* off, on, dead
  wire,        \* the write of the mirror that is in flight, or 0
  mirrored,    \* the last sequence the mirror wrote
  bus,         \* sequences in the Redis stream
  near,        \* readers on the replica of the turn
  at,          \* per reader: where the connection is
  source,      \* per reader: TurnSource.kind
  held,        \* per reader: sequences captured so far
  got,         \* per reader: sequences written to the client
  full,        \* readers whose queue overflowed
  seen,        \* per reader: pieces in the row when the history was read
  late,        \* per reader: the history ended with a newer prompt
  left         \* per reader: the row was left out of the history

rowVars == <<pc, exec, newer, saved>>
logVars == <<started, seq, term>>
mirrorVars == <<mirror, wire, mirrored, bus>>
turnVars == <<rowVars, logVars, mirrorVars>>
queueVars == <<held, full>>
viewVars == <<seen, late, left>>
readerVars == <<at, source, got, viewVars>>
vars == <<turnVars, near, queueVars, readerVars>>

Init ==
  /\ pc = "idle" /\ exec = "none" /\ newer = FALSE /\ saved = 0
  /\ started = FALSE /\ seq = 0 /\ term = 0
  /\ mirror = "off" /\ wire = 0 /\ mirrored = 0 /\ bus = {}
  /\ near \in SUBSET Readers
  /\ at = [r \in Readers |-> "idle"]
  /\ source = [r \in Readers |-> "none"]
  /\ held = [r \in Readers |-> {}]
  /\ got = [r \in Readers |-> {}]
  /\ full = {}
  /\ seen = [r \in Readers |-> 0]
  /\ late = [r \in Readers |-> FALSE]
  /\ left = [r \in Readers |-> FALSE]

-----------------------------------------------------------------------------
(* The turn: registry entry, row, log                                      *)

\* eventLog: the log is found through the registry entry, which admission frees.
Registered == pc \in {"marked", "admitted", "created", "running", "saved", "released"}
LogClosed == pc \in {"ended", "closed", "crashed"}
LogBase == IF seq > LogWindow THEN seq - LogWindow ELSE 0
Produced == IF ~started THEN 0 ELSE IF term = 0 THEN seq - 1 ELSE term - 2

Subscribed == {r \in Readers : source[r] = "local" /\ at[r] # "done"} \ full

\* appendEntry and its listeners.  A queue that cannot hold the event drops all it holds.
Append ==
  /\ seq' = seq + 1
  /\ \E dropped \in SUBSET Subscribed :
       /\ full' = full \cup dropped
       /\ held' = [r \in Readers |->
                    IF r \in dropped THEN got[r] ELSE IF r \in Subscribed THEN held[r] \cup {seq + 1} ELSE held[r]]

Turn(from, to) == pc = from /\ pc' = to

Mark ==
  /\ Turn("idle", "marked")
  /\ UNCHANGED <<exec, newer, saved, logVars, mirrorVars, near, queueVars, readerVars>>

\* The slot is released and the log is closed.
Reject ==
  /\ Turn("marked", "closed")
  /\ UNCHANGED <<exec, newer, saved, logVars, mirrorVars, near, queueVars, readerVars>>

Admit ==
  /\ Turn("marked", "admitted")
  /\ exec' = "live"
  /\ mirror' = "on"
  /\ UNCHANGED <<newer, saved, logVars, wire, mirrored, bus, near, queueVars, readerVars>>

\* Without a row there is no turn_started and no final write.
CreateRow ==
  /\ Turn("admitted", "created") \/ Turn("admitted", "saved")
  /\ UNCHANGED <<exec, newer, saved, logVars, mirrorVars, near, queueVars, readerVars>>

\* RUN_STARTED of the runtime, or the synthetic one of a failed setup.
Start ==
  /\ Turn("created", "running")
  /\ Append
  /\ started' = TRUE
  /\ UNCHANGED <<exec, newer, saved, term, mirrorVars, near, readerVars>>

Produce ==
  /\ pc = "running" /\ Produced < Pieces
  /\ Append
  /\ UNCHANGED <<rowVars, started, term, mirrorVars, near, readerVars>>

\* A checkpoint or a progress write lands with the text it was sent with.
SaveProgress ==
  /\ pc = "running"
  /\ saved' \in (saved + 1)..Produced
  /\ UNCHANGED <<pc, exec, newer, logVars, mirrorVars, near, queueVars, readerVars>>

\* finalize, whose write may fail.
Finalize ==
  /\ Turn("running", "saved")
  /\ saved' \in {saved, Produced}
  /\ UNCHANGED <<exec, newer, logVars, mirrorVars, near, queueVars, readerVars>>

\* settleTurn: the lease, if its write succeeds, then the registry entry.
Release ==
  /\ Turn("saved", "released")
  /\ exec' \in {exec, "over"}
  /\ UNCHANGED <<newer, saved, logVars, mirrorVars, near, queueVars, readerVars>>

FreeSlot ==
  /\ Turn("released", "settled")
  /\ UNCHANGED <<exec, newer, saved, logVars, mirrorVars, near, queueVars, readerVars>>

Terminal ==
  /\ Turn("settled", "ended")
  /\ Append
  /\ term' = seq + 1
  /\ UNCHANGED <<exec, newer, saved, started, mirrorVars, near, readerVars>>

\* The process dies with its log, its mirror queue and its connections.
Crash ==
  /\ Registered \/ pc = "settled"
  /\ pc' = "crashed"
  /\ mirror' = "dead"
  /\ at' = [r \in Readers |-> IF r \in near /\ at[r] # "idle" THEN "done" ELSE at[r]]
  /\ UNCHANGED <<exec, newer, saved, logVars, wire, mirrored, bus, near, queueVars, source, got, viewVars>>

\* Heartbeats fail while the turn runs, or its process died.
LeaseLapses ==
  /\ exec = "live" /\ exec' = "over"
  /\ UNCHANGED <<pc, newer, saved, logVars, mirrorVars, near, queueVars, readerVars>>

NextTurn ==
  /\ exec = "over" /\ ~newer /\ newer' = TRUE
  /\ UNCHANGED <<pc, exec, saved, logVars, mirrorVars, near, queueVars, readerVars>>

-----------------------------------------------------------------------------
(* The mirror and the bus                                                  *)

MirrorSends ==
  /\ mirror = "on" /\ wire = 0 /\ mirrored < seq
  /\ wire' = mirrored + 1
  /\ UNCHANGED <<rowVars, logVars, mirror, mirrored, bus, near, queueVars, readerVars>>

Trim(entries) == {n \in entries : Cardinality({k \in entries : k > n}) < BusWindow}

\* Also after its time limit, or after its process died.
MirrorLands ==
  /\ wire # 0
  /\ bus' = Trim(bus \cup {wire})
  /\ mirrored' = wire
  /\ wire' = 0
  /\ UNCHANGED <<rowVars, logVars, mirror, near, queueVars, readerVars>>

\* A failed write, its time limit or a full queue stops the mirror for good.
MirrorStops ==
  /\ mirror = "on" /\ wire # 0
  /\ mirror' = "dead"
  /\ UNCHANGED <<rowVars, logVars, wire, mirrored, bus, near, queueVars, readerVars>>

MirrorLost ==
  /\ mirror = "dead" /\ wire # 0
  /\ wire' = 0
  /\ UNCHANGED <<rowVars, logVars, mirror, mirrored, bus, near, queueVars, readerVars>>

\* The keys expire an hour after the last write, or Redis loses them.
BusLost ==
  /\ bus # {} /\ bus' = {}
  /\ UNCHANGED <<rowVars, logVars, mirror, wire, mirrored, near, queueVars, readerVars>>

NoGap(after, entries) == FALSE
HasGap(after, entries) == entries # (after + 1)..(after + Cardinality(entries))
Entries(after) == {n \in bus : n > after}

\* replay: not null.
Replayable(after) ==
  IF bus = {} THEN after = 0
  ELSE after \in (Min(bus) - 1)..Max(bus) /\ ~HasGap(after, Entries(after))

-----------------------------------------------------------------------------
(* A connection                                                            *)

Step(r, from, to) == at[r] = from /\ at' = [at EXCEPT ![r] = to]
Choose(r, kind) == source' = [source EXCEPT ![r] = kind]
LastHeld(r) == Max(held[r] \cup {0})
Pending(r) == held[r] \ got[r]

\* openTurnSource.  The subscription and its replay are one step.
OpenLocal(r) ==
  /\ r \in near /\ Registered
  /\ Step(r, "idle", "opened")
  /\ \/ LogBase = 0 /\ Choose(r, "local") /\ held' = [held EXCEPT ![r] = 1..seq]
     \/ seq > 0 /\ Choose(r, "unavailable") /\ UNCHANGED held
  /\ UNCHANGED <<turnVars, near, full, got, viewVars>>

OpenElsewhere(r) ==
  /\ ~(r \in near /\ Registered)
  /\ Step(r, "idle", "lookup")
  /\ UNCHANGED <<turnVars, near, queueVars, source, got, viewVars>>

\* currentOwner.  A connection that finds the next turn is one of that turn.
Lookup(r) ==
  /\ ~newer
  /\ Step(r, "lookup", IF exec = "live" THEN "replay" ELSE "opened")
  /\ UNCHANGED <<turnVars, near, queueVars, source, got, viewVars>>

\* The three reads of replay see a stream that only grows, is trimmed or is lost:
\* what they return together, one of them would have returned.
Replay(r) ==
  /\ Step(r, "replay", "opened")
  /\ \/ Replayable(0) /\ Choose(r, "remote") /\ held' = [held EXCEPT ![r] = bus]
     \/ Choose(r, "unavailable") /\ UNCHANGED held
  /\ UNCHANGED <<turnVars, near, full, got, viewVars>>

ReadHistory(r) ==
  /\ Step(r, "opened", "read") \/ Step(r, "opened", "done")
  /\ seen' = [seen EXCEPT ![r] = saved]
  /\ late' = [late EXCEPT ![r] = newer]
  /\ UNCHANGED <<turnVars, near, queueVars, source, got, left>>

\* A read that fails, or that cannot follow on, keeps the first replay.
CatchUp(r) ==
  /\ source[r] = "remote" /\ Step(r, "read", "caught")
  /\ \/ Replayable(LastHeld(r)) /\ held' = [held EXCEPT ![r] = @ \cup Entries(LastHeld(r))]
     \/ UNCHANGED held
  /\ UNCHANGED <<turnVars, near, full, source, got, viewVars>>

\* turnStartedRowId
Named(r) == started /\ 1 \in held[r]

\* hasReplyAfterLastPrompt
NeverReply(r) == FALSE
HasReply(r) == seen[r] > 0 /\ ~late[r]

\* The row that the replay rebuilds is left out; a reply that the bus cannot name yet
\* is shown from history alone.
Decide(r) ==
  /\ at[r] = "caught" \/ (at[r] = "read" /\ source[r] # "remote")
  /\ LET follows == \/ source[r] = "local" /\ r \notin full
                    \/ source[r] = "remote" /\ (Named(r) \/ ~HasReply(r))
     IN /\ at' = [at EXCEPT ![r] = IF follows THEN "streaming" ELSE "done"]
        /\ left' = [left EXCEPT ![r] = follows /\ Named(r)]
        /\ IF follows \/ source[r] = "none" THEN UNCHANGED source ELSE Choose(r, "unavailable")
  /\ UNCHANGED <<turnVars, near, queueVars, got, seen, late>>

\* One frame.  The terminal event ends a remote stream.
Deliver(r) ==
  /\ at[r] = "streaming" /\ Pending(r) # {} /\ r \notin full
  /\ LET next == Min(Pending(r))
     IN /\ got' = [got EXCEPT ![r] = @ \cup {next}]
        /\ at' = IF source[r] = "remote" /\ next = term THEN [at EXCEPT ![r] = "done"] ELSE at
  /\ UNCHANGED <<turnVars, near, queueVars, source, viewVars>>

EndLocal(r) ==
  /\ source[r] = "local" /\ (r \in full \/ (LogClosed /\ Pending(r) = {}))
  /\ Step(r, "streaming", "done")
  /\ UNCHANGED <<turnVars, near, queueVars, source, got, viewVars>>

\* waitForEvents: entries, a gap, or nothing for ten seconds.
Wait(r) ==
  /\ source[r] = "remote" /\ Pending(r) = {}
  /\ LET entries == Entries(LastHeld(r))
     IN \/ /\ entries # {} /\ ~HasGap(LastHeld(r), entries) /\ at[r] = "streaming"
           /\ held' = [held EXCEPT ![r] = @ \cup entries]
           /\ UNCHANGED at
        \/ /\ entries # {} /\ HasGap(LastHeld(r), entries)
           /\ Step(r, "streaming", "done")
           /\ UNCHANGED held
        \/ /\ entries = {}
           /\ Step(r, "streaming", "checking")
           /\ UNCHANGED held
  /\ UNCHANGED <<turnVars, near, full, source, got, viewVars>>

OwnerKept == exec # "none"
OwnerIsTurn == exec = "live" /\ ~newer

CheckOwner(r) ==
  /\ Step(r, "checking", IF OwnerIsTurn THEN "streaming" ELSE "done")
  /\ UNCHANGED <<turnVars, near, queueVars, source, got, viewVars>>

\* The client leaves, reads too slowly or loses access, or a read fails.
Leave(r) ==
  /\ Step(r, "streaming", "done") \/ Step(r, "checking", "done")
  /\ UNCHANGED <<turnVars, near, queueVars, source, got, viewVars>>

-----------------------------------------------------------------------------
TurnStep ==
  \/ Mark \/ Reject \/ Admit \/ CreateRow \/ Start \/ Produce \/ SaveProgress
  \/ Finalize \/ Release \/ FreeSlot \/ Terminal \/ Crash \/ LeaseLapses \/ NextTurn

MirrorStep == MirrorSends \/ MirrorLands \/ MirrorStops \/ MirrorLost \/ BusLost

ReaderStep(r) ==
  \/ OpenLocal(r) \/ OpenElsewhere(r) \/ Lookup(r) \/ Replay(r) \/ ReadHistory(r)
  \/ CatchUp(r) \/ Decide(r) \/ Deliver(r) \/ EndLocal(r) \/ Wait(r) \/ CheckOwner(r) \/ Leave(r)

Next == TurnStep \/ MirrorStep \/ \E r \in Readers : ReaderStep(r)

Spec == Init /\ [][Next]_vars

\* The loop of a stream runs: a write to the client has a deadline (SseWriter), XREAD
\* blocks for ten seconds, and the database answers.  Nothing is assumed of the turn,
\* of the mirror or of the client.
Fairness ==
  \A r \in Readers : WF_vars(Deliver(r)) /\ WF_vars(EndLocal(r)) /\ WF_vars(Wait(r)) /\ WF_vars(CheckOwner(r))

LiveSpec == Spec /\ Fairness

-----------------------------------------------------------------------------
(* Properties                                                              *)

Sequences == 1..(Pieces + 2)

\* The shape of the state, and the limit of the stream.
TypeOK ==
  /\ pc \in {"idle", "marked", "admitted", "created", "running", "saved", "released", "settled",
             "ended", "closed", "crashed"}
  /\ exec \in {"none", "live", "over"}
  /\ newer \in BOOLEAN /\ started \in BOOLEAN
  /\ saved \in 0..Pieces /\ saved <= Produced
  /\ seq \in 0..(Pieces + 2) /\ term \in {0, seq}
  /\ mirror \in {"off", "on", "dead"}
  /\ mirrored \in 0..seq /\ wire \in {0, mirrored + 1}
  /\ bus \subseteq 1..mirrored /\ Cardinality(bus) <= BusWindow
  /\ near \subseteq Readers /\ full \subseteq Readers
  /\ at \in [Readers -> {"idle", "lookup", "replay", "opened", "read", "caught", "streaming", "checking", "done"}]
  /\ source \in [Readers -> {"none", "unavailable", "local", "remote"}]
  /\ held \in [Readers -> SUBSET Sequences]
  /\ got \in [Readers -> SUBSET Sequences]
  /\ seen \in [Readers -> 0..Pieces]
  /\ late \in [Readers -> BOOLEAN] /\ left \in [Readers -> BOOLEAN]

Text == IF started THEN (2..seq) \ {term} ELSE {}

\* A piece of the reply that the stream writes was not already in the history it sent,
\* whatever the row, the log and the mirror did between the reads: unless the history
\* ended with the prompt of a newer turn.
ShownOnce ==
  \A r \in Readers : got[r] \cap Text # {} /\ ~late[r] => left[r] \/ seen[r] = 0

\* A stream that delivers the end of the turn delivered all of it, through a log and a
\* stream that drop their first events, a lost Redis and a mirror that stops.
FinishedViewIsWhole ==
  \A r \in Readers : term # 0 /\ term \in got[r] => got[r] = 1..term

Followed == INSTANCE FollowedTurn WITH
  last <- seq,
  over <- (term # 0),
  view <- got,
  gone <- {r \in Readers : at[r] = "done"}

\* Whatever the windows drop, the mirror misses or a crash ends, each step is one of
\* FollowedTurn or none: frames come in the order of the events, without a gap or a
\* repetition, after the event has happened, and never on a stream that has ended.
FollowsTurn == Followed!FollowSpec

\* The state has its shape, and no reply is shown twice.
ViewInvariant == TypeOK /\ ShownOnce

TurnGone(r) == IF source[r] = "local" THEN LogClosed ELSE exec = "over"

\* A stream ends after its turn is gone, also when the mirror never wrote the end.
StreamEnds ==
  \A r \in Readers : (at[r] \in {"streaming", "checking"} /\ TurnGone(r)) ~> (at[r] = "done")
=============================================================================
