------------------------------ MODULE Consent ------------------------------
(***************************************************************************)
(* What approvals promise to the user who is asked, with no replicas,      *)
(* runtimes, timers or statements in flight: a question is put once and    *)
(* gets one answer for good, a turn hears of a consent only after it was   *)
(* given, and a consent lets one call of the turn that put the question go *)
(* ahead, if that turn heard of it.  ApprovalFlow implements this          *)
(* specification.                                                          *)
(***************************************************************************)
CONSTANTS
  Approvals,
  Turns,
  NoTurn,
  Calls

VARIABLES
  answer,    \* per approval: what has become of the question
  asker,     \* per approval: the turn that put the question, or NoTurn
  heard,     \* per turn: the consents it heard of
  spent,     \* the consents that are used up
  ran        \* per approval: the calls that went ahead with it

consentVars == <<answer, asker, heard, spent, ran>>

ConsentInit ==
  /\ answer = [a \in Approvals |-> "absent"]
  /\ asker = [a \in Approvals |-> NoTurn]
  /\ heard = [t \in Turns |-> {}]
  /\ spent = {}
  /\ ran = [a \in Approvals |-> {}]

Ask(t, a) ==
  /\ answer[a] = "absent"
  /\ answer' = [answer EXCEPT ![a] = "pending"]
  /\ asker' = [asker EXCEPT ![a] = t]
  /\ UNCHANGED <<heard, spent, ran>>

Decide(a) ==
  /\ answer[a] = "pending"
  /\ \E v \in {"approved", "rejected"} : answer' = [answer EXCEPT ![a] = v]
  /\ UNCHANGED <<asker, heard, spent, ran>>

\* Nobody answered: a timer, the sweep, or the end of the execution, which may close
\* several questions at once.
Expire(S) ==
  /\ \A a \in S : answer[a] = "pending"
  /\ answer' = [a \in Approvals |-> IF a \in S THEN "expired" ELSE answer[a]]
  /\ UNCHANGED <<asker, heard, spent, ran>>

\* Several turns that wait for the same answer may hear of it at once.
Hear(S, a) ==
  /\ answer[a] = "approved"
  /\ heard' = [t \in Turns |-> IF t \in S THEN heard[t] \cup {a} ELSE heard[t]]
  /\ UNCHANGED <<answer, asker, spent, ran>>

\* A consent is used up before its call goes ahead, which it may then fail to do.
Use(c, a) ==
  /\ answer[a] = "approved" /\ a \notin spent
  /\ \E t \in Turns : asker[a] = t /\ a \in heard[t]
  /\ spent' = spent \cup {a}
  /\ ran' \in {ran, [ran EXCEPT ![a] = @ \cup {c}]}
  /\ UNCHANGED <<answer, asker, heard>>

ConsentNext ==
  \/ \E a \in Approvals :
       \/ \E t \in Turns : Ask(t, a)
       \/ Decide(a)
       \/ \E S \in SUBSET Turns : Hear(S, a)
       \/ \E c \in Calls : Use(c, a)
  \/ \E S \in SUBSET Approvals : Expire(S)

ConsentSpec == ConsentInit /\ [][ConsentNext]_consentVars
=============================================================================
