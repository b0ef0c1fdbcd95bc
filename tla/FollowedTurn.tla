---------------------------- MODULE FollowedTurn ----------------------------
(***************************************************************************)
(* What the replay of a turn promises to the connections that follow it,   *)
(* with no replicas, windows, mirror, Redis stream or queues: the events   *)
(* of the turn are numbered as they happen until it is over, and whoever   *)
(* follows it is shown them one at a time, in that order, from the first   *)
(* one, each once and after it happened, until the follower is gone for    *)
(* good.  A follower may be gone at any moment; a frame is its last one    *)
(* only when it is the end of the turn.  TurnConnect implements this       *)
(* specification.                                                          *)
(***************************************************************************)
EXTENDS Naturals

CONSTANT Readers

VARIABLES
  last,      \* the number of the newest event
  over,      \* that event is the end of the turn
  view,      \* per reader: the events it was shown
  gone       \* readers whose stream is closed

followVars == <<last, over, view, gone>>

FollowInit ==
  /\ last = 0 /\ over = FALSE
  /\ view = [r \in Readers |-> {}]
  /\ gone = {}

Happen ==
  /\ ~over
  /\ last' = last + 1
  /\ over' \in BOOLEAN
  /\ UNCHANGED <<view, gone>>

Show(r, n) ==
  /\ r \notin gone /\ view[r] = 1..(n - 1)
  /\ view' = [view EXCEPT ![r] = 1..n]
  /\ gone' = gone \/ (over /\ n = last /\ gone' = gone \cup {r})
  /\ UNCHANGED <<last, over>>

\* One stream ends, or all those of a process that dies.
Close(S) ==
  /\ gone' = gone \cup S
  /\ UNCHANGED <<last, over, view>>

FollowNext ==
  \/ Happen
  \/ \E r \in Readers : \E n \in 1..last : Show(r, n)
  \/ \E S \in SUBSET Readers : Close(S)

FollowSpec == FollowInit /\ [][FollowNext]_followVars
=============================================================================
