----------------------- MODULE RefreshRotationProofs -----------------------
(***************************************************************************)
(* Proofs about RefreshRotation, for every set of handlers and of tokens.  *)
(***************************************************************************)
EXTENDS RefreshRotation, TLAPS

-----------------------------------------------------------------------------
(* The inductive invariant                                                 *)

\* What a handler or a marker holds was given to somebody, or was signed by a handler
\* that is on its way to give it.
KnownInv ==
  /\ \A k \in Tokens : marker[k] \in Tokens => marker[k] \in handed
  /\ \A r \in Requests : pc[r] # "idle" => tok[r] \in handed
  /\ \A r \in Requests : pc[r] = "answering" => new[r] \in handed
  /\ \A r \in Requests : pc[r] \in {"issuing", "completing"} => new[r] \in Tokens

\* A handler that claimed its token and has neither passed the right to rotate on to the
\* successor nor given it back.
Rotating(r) == pc[r] \in {"minting", "issuing", "completing", "restoring"}

\* The right to rotate the family is in one place: a token that somebody was given, or a
\* handler, or nowhere.
OneRight ==
  /\ \A j, k \in live \cap handed : j = k
  /\ \A r \in Requests : Rotating(r) =>
       /\ live \cap handed = {}
       /\ \A q \in Requests : Rotating(q) => q = r
       /\ pc[r] \in {"issuing", "completing"} => new[r] \notin handed
       /\ marker[tok[r]] \notin Tokens

RightInv == family = "active" /\ "resent" \notin faults => OneRight

\* Who reports the end of a session has seen that its family is revoked.
EndInv ==
  /\ ended => family = "revoked"
  /\ \A r \in Requests :
       pc[r] \in {"auditing", "keeping", "readingKept", "writingKept", "clearing"} => family = "revoked"

\* The note of an unrecorded reuse goes only after its event is written.
KeptInv ==
  /\ accused => recorded \/ unaudited
  /\ \A r \in Requests : pc[r] = "clearing" => recorded

\* A token that can be rotated, or that a rotation has claimed.
Known(k) == k \in live \/ marker[k] # None

\* Without a fault, the token of the browser and those of its requests are known, so no
\* handler takes one for stolen.
NobodyAccused == ~accused /\ \A r \in Requests : pc[r] \notin {"revoking", "auditing", "keeping"}

RequestsKnown == \A r \in Requests : pc[r] \in {"admitting", "claiming"} => Known(tok[r])

\* The rotation of the browser's token is under way.
Underway(k) == marker[k] # None /\ \E r \in Requests : tok[r] = k /\ (Rotating(r) \/ pc[r] = "answering")

CookieKnown == cookie # None => cookie \in live \/ Underway(cookie)

TheftInv ==
  /\ faults = {} => NobodyAccused
  /\ faults = {} /\ family = "active" => RequestsKnown /\ CookieKnown

FamilyInv == TypeOK /\ KnownInv /\ RightInv /\ EndInv /\ KeptInv /\ TheftInv

-----------------------------------------------------------------------------
(* Types                                                                   *)

\* A step of a handler keeps the shape of the places.
LEMMA GoType ==
  ASSUME TypeOK, NEW r \in Requests, NEW from, NEW to \in Places, Go(r, from, to)
  PROVE  /\ pc' \in [Requests -> Places]
         /\ pc[r] = from /\ pc'[r] = to
         /\ \A q \in Requests : q # r => pc'[q] = pc[q]
BY DEF TypeOK, Go

\* A handler that is done holds nothing.
LEMMA RestType ==
  ASSUME TypeOK, NEW r \in Requests, NEW from, Rest(r, from)
  PROVE  /\ pc' \in [Requests -> Places]
         /\ tok' \in [Requests -> handed \cup {None}] /\ new' \in [Requests -> issued \cup {None}]
         /\ pc[r] = from /\ pc'[r] = "idle" /\ tok'[r] = None /\ new'[r] = None
         /\ \A q \in Requests : q # r => pc'[q] = pc[q] /\ tok'[q] = tok[q] /\ new'[q] = new[q]
BY DEF TypeOK, Rest, Places

\* The scripts keep the shape of the keys.
LEMMA RestoreType ==
  ASSUME TypeOK, NEW k \in handed, RestoreJti(k)
  PROVE  live' \subseteq issued /\ marker' \in [Tokens -> Tokens \cup {None, Pending}]
BY DEF TypeOK, RestoreJti

TypeInv == TypeOK /\ KnownInv

\* Every step keeps the shape, and what handlers and markers hold stays known.
LEMMA TypeStep == TypeInv /\ [Next]_vars => TypeInv'
<1> SUFFICES ASSUME TypeOK, KnownInv, [Next]_vars PROVE TypeInv'
  BY DEF TypeInv
<1> USE TokenAssumption
<1>1. ASSUME NEW r \in Requests, Present(r) PROVE TypeInv'
  <2>1. pc' \in [Requests -> Places] /\ pc'[r] = "admitting" /\ \A q \in Requests : q # r => pc'[q] = pc[q]
    BY <1>1, GoType DEF Present, Places
  <2>2. PICK k \in handed : tok' = [tok EXCEPT ![r] = k]
    BY <1>1 DEF Present, TypeOK
  <2>3. faults' \subseteq {"lost", "resent"}
    BY <1>1 DEF Present, TypeOK
  <2> QED
    BY <1>1, <2>1, <2>2, <2>3 DEF Present, TypeInv, TypeOK, KnownInv, redisVars, worldVars
<1>2. ASSUME NEW r \in Requests, Admit(r) PROVE TypeInv'
  BY <1>2, GoType, RestType DEF Admit, TypeInv, TypeOK, KnownInv, Places, AfterClaim, redisVars, worldVars, historyVars
<1>3. ASSUME NEW r \in Requests, Refuse(r) PROVE TypeInv'
  BY <1>3, RestType DEF Refuse, RevokeFamily, TypeInv, TypeOK, KnownInv, worldVars
<1>4. ASSUME NEW r \in Requests, Claim(r) PROVE TypeInv'
  <2>a. pc[r] = "claiming"
    BY <1>4 DEF Claim
  <2>b. \/ Rest(r, "claiming")
        \/ /\ UNCHANGED <<tok, new>>
           /\ \E to \in {"readingKept", "minting", "waiting", "revoking"} : Go(r, "claiming", to)
    BY <1>4 DEF Claim
  <2>1. /\ pc' \in [Requests -> Places] /\ tok' \in [Requests -> handed \cup {None}]
        /\ new' \in [Requests -> issued \cup {None}]
        /\ \A q \in Requests : q # r => pc'[q] = pc[q] /\ tok'[q] = tok[q] /\ new'[q] = new[q]
        /\ pc'[r] # "idle" => tok'[r] = tok[r]
        /\ pc'[r] \notin {"answering", "issuing", "completing"}
    <3>1. CASE Rest(r, "claiming")
      BY <3>1, RestType
    <3>2. ASSUME UNCHANGED <<tok, new>>,
                 NEW to \in {"readingKept", "minting", "waiting", "revoking"}, Go(r, "claiming", to)
          PROVE  /\ pc' \in [Requests -> Places] /\ pc'[r] = to
                 /\ \A q \in Requests : q # r => pc'[q] = pc[q]
      BY <3>2 DEF Go, TypeOK, Places, AfterClaim
    <3> QED
      BY <2>b, <3>1, <3>2 DEF TypeOK
  <2>2. /\ live' \subseteq issued /\ marker' \in [Tokens -> Tokens \cup {None, Pending}]
        /\ \A k \in Tokens : marker'[k] \in Tokens => marker[k] = marker'[k]
        /\ family' \in {"active", "revoked"} /\ faults' \subseteq {"lost", "resent"}
    BY <1>4 DEF Claim, Consume, RevokeFamily, TypeOK
  <2>3. ended' \in BOOLEAN
    BY <1>4 DEF Claim, TypeOK
  <2> QED
    BY <1>4, <2>a, <2>1, <2>2, <2>3 DEF Claim, TypeInv, TypeOK, KnownInv, worldVars
<1>5. ASSUME NEW r \in Requests, Wait(r) PROVE TypeInv'
  BY <1>5, GoType, RestType DEF Wait, HasResult, TypeInv, TypeOK, KnownInv, Places, AfterClaim, redisVars, worldVars, historyVars
<1>6. ASSUME NEW r \in Requests, Mint(r) PROVE TypeInv'
  BY <1>6, GoType DEF Mint, TypeInv, TypeOK, KnownInv, Places, AfterClaim, redisVars, worldVars
<1>7. ASSUME NEW r \in Requests, Issue(r) PROVE TypeInv'
  <2>1. live' \subseteq issued /\ family' \in {"active", "revoked"} /\ lifeOver' \in BOOLEAN
    <3>1. new[r] \in issued
      BY <1>7 DEF Issue, Go, TypeOK, KnownInv
    <3>2. CASE IssueJti(new[r])
      BY <3>1, <3>2 DEF IssueJti, TypeOK
    <3>3. CASE UNCHANGED <<live, family, lifeOver>>
      BY <3>3 DEF TypeOK
    <3> QED
      BY <1>7, <3>2, <3>3 DEF Issue
  <2>2. \/ Go(r, "issuing", "completing") \/ Go(r, "issuing", "restoring")
    BY <1>7 DEF Issue
  <2>3. UNCHANGED <<marker, unaudited, tok, new, member, cookie, historyVars>>
    BY <1>7 DEF Issue
  <2> QED
    BY <2>1, <2>2, <2>3, GoType DEF TypeInv, TypeOK, KnownInv, Places, AfterClaim, historyVars
<1>8. ASSUME NEW r \in Requests, Complete(r) PROVE TypeInv'
  BY <1>8, GoType DEF Complete, TypeInv, TypeOK, KnownInv, Places, AfterClaim, worldVars
<1>9. ASSUME NEW r \in Requests, Restore(r) PROVE TypeInv'
  <2>1. /\ pc' \in [Requests -> Places] /\ tok' \in [Requests -> handed \cup {None}]
        /\ new' \in [Requests -> issued \cup {None}]
        /\ \A q \in Requests : q # r => pc'[q] = pc[q] /\ tok'[q] = tok[q] /\ new'[q] = new[q]
        /\ pc'[r] # "idle" => tok'[r] = tok[r]
        /\ pc[r] = "restoring" /\ pc'[r] \in {"idle", "resending"}
    BY <1>9, GoType, RestType DEF Restore, Restoring, Places, AfterClaim, TypeOK
  <2>2. tok[r] \in handed
    BY <2>1 DEF KnownInv
  <2>3. /\ live' \subseteq issued /\ marker' \in [Tokens -> Tokens \cup {None, Pending}]
        /\ \A k \in Tokens : marker'[k] \in Tokens => marker[k] = marker'[k]
        /\ faults' \subseteq {"lost", "resent"}
    BY <1>9, <2>2 DEF Restore, Restoring, RestoreJti, TypeOK
  <2> QED
    BY <1>9, <2>1, <2>3 DEF Restore, TypeInv, TypeOK, KnownInv, worldVars
<1>10. ASSUME NEW r \in Requests, ResendRestore(r) PROVE TypeInv'
  BY <1>10, RestType, RestoreType DEF ResendRestore, RestoreJti, TypeInv, TypeOK, KnownInv, Places, AfterClaim, worldVars
<1>11. ASSUME NEW r \in Requests, Answer(r) PROVE TypeInv'
  BY <1>11, RestType DEF Answer, TypeInv, TypeOK, KnownInv, redisVars
<1>12. ASSUME NEW r \in Requests, RevokeReuse(r) PROVE TypeInv'
  BY <1>12, GoType, RestType DEF RevokeReuse, RevokeFamily, TypeInv, TypeOK, KnownInv, Places, AfterClaim, worldVars, historyVars
<1>13. ASSUME NEW r \in Requests, AuditReuse(r) PROVE TypeInv'
  <2>1. CASE Rest(r, "auditing") /\ recorded' = TRUE /\ Told
    BY <1>13, <2>1, RestType DEF AuditReuse, Told, TypeInv, TypeOK, KnownInv, redisVars, worldVars
  <2>2. CASE Go(r, "auditing", "keeping") /\ recorded' \in {TRUE, recorded} /\ UNCHANGED <<tok, new, ended, accused>>
    <3>1. recorded' \in BOOLEAN
      BY <2>2 DEF TypeOK
    <3> QED
      BY <1>13, <2>2, <3>1, GoType DEF AuditReuse, TypeInv, TypeOK, KnownInv, Places, AfterClaim, redisVars, worldVars
  <2> QED
    BY <1>13, <2>1, <2>2 DEF AuditReuse
<1>14. ASSUME NEW r \in Requests, KeepReuse(r) PROVE TypeInv'
  BY <1>14, RestType DEF KeepReuse, Told, TypeInv, TypeOK, KnownInv, worldVars
<1>15. ASSUME NEW r \in Requests, ReadKept(r) PROVE TypeInv'
  <2>1. CASE Go(r, "readingKept", "writingKept") /\ UNCHANGED <<tok, new, ended>>
    BY <1>15, <2>1, GoType DEF ReadKept, TypeInv, TypeOK, KnownInv, Places, AfterClaim, redisVars, worldVars
  <2>2. CASE Rest(r, "readingKept") /\ ended' = TRUE
    BY <1>15, <2>2, RestType DEF ReadKept, TypeInv, TypeOK, KnownInv, redisVars, worldVars
  <2> QED
    BY <1>15, <2>1, <2>2 DEF ReadKept
<1>16. ASSUME NEW r \in Requests, WriteKept(r) PROVE TypeInv'
  <2>1. CASE Go(r, "writingKept", "clearing") /\ UNCHANGED <<tok, new, ended>>
    BY <1>16, <2>1, GoType DEF WriteKept, TypeInv, TypeOK, KnownInv, Places, AfterClaim, redisVars, worldVars
  <2>2. CASE Rest(r, "writingKept") /\ ended' = TRUE
    BY <1>16, <2>2, RestType DEF WriteKept, TypeInv, TypeOK, KnownInv, redisVars, worldVars
  <2> QED
    BY <1>16, <2>1, <2>2 DEF WriteKept
<1>17. ASSUME NEW r \in Requests, ClearKept(r) PROVE TypeInv'
  BY <1>17, RestType DEF ClearKept, TypeInv, TypeOK, KnownInv, worldVars
<1>18. ASSUME NEW r \in Requests, Crash(r) PROVE TypeInv'
  BY <1>18, RestType DEF Crash, TypeInv, TypeOK, KnownInv, redisVars, worldVars
<1>19. ASSUME NEW k \in Tokens, MarkerExpires(k) PROVE TypeInv'
  BY <1>19 DEF MarkerExpires, TypeInv, TypeOK, KnownInv, handlerVars, worldVars
<1>20. CASE Logout \/ LifetimePasses \/ ChangeMembership
  BY <1>20 DEF Logout, LifetimePasses, ChangeMembership, RevokeFamily, TypeInv, TypeOK, KnownInv, redisVars, handlerVars, historyVars
<1>21. CASE UNCHANGED vars
  BY <1>21 DEF vars, redisVars, handlerVars, worldVars, historyVars, TypeInv, TypeOK, KnownInv
<1> QED
  BY <1>1, <1>2, <1>3, <1>4, <1>5, <1>6, <1>7, <1>8, <1>9, <1>10, <1>11, <1>12, <1>13, <1>14, <1>15,
     <1>16, <1>17, <1>18, <1>19, <1>20, <1>21 DEF Next, Step

\* The shape holds at the start.
LEMMA TypeInit == Init => TypeInv
BY TokenAssumption DEF Init, TypeInv, TypeOK, KnownInv, Places, AfterClaim

\* A handler moves only itself.
LEMMA OthersStay ==
  ASSUME TypeOK, NEW r \in Requests, Step(r)
  PROVE  \A q \in Requests : q # r => pc'[q] = pc[q] /\ tok'[q] = tok[q] /\ new'[q] = new[q]
<1> USE DEF TypeOK, Go, Rest
<1>1. CASE Present(r) \/ Admit(r) \/ Refuse(r) \/ Wait(r) \/ Mint(r) \/ Issue(r)
  BY <1>1 DEF Present, Admit, Refuse, Wait, Mint, Issue
<1>2. CASE Claim(r)
  BY <1>2 DEF Claim
<1>3. CASE Complete(r) \/ Restore(r) \/ ResendRestore(r) \/ Answer(r) \/ Crash(r)
  BY <1>3 DEF Complete, Restore, Restoring, ResendRestore, Answer, Crash
<1>4. CASE RevokeReuse(r) \/ AuditReuse(r) \/ KeepReuse(r) \/ ReadKept(r) \/ WriteKept(r) \/ ClearKept(r)
  BY <1>4 DEF RevokeReuse, AuditReuse, KeepReuse, ReadKept, WriteKept, ClearKept
<1> QED
  BY <1>1, <1>2, <1>3, <1>4 DEF Step

-----------------------------------------------------------------------------
(* The end of a session and the record of a reuse                          *)

Reporting == {"auditing", "keeping", "readingKept", "writingKept", "clearing"}

\* The scripts let nothing back into a family that has ended.
LEMMA RevokedStays ==
  ASSUME [Next]_vars, family = "revoked" PROVE family' = "revoked"
<1>1. ASSUME NEW r \in Requests, Step(r) PROVE family' = "revoked"
  <2>1. CASE Present(r) \/ Admit(r) \/ Refuse(r) \/ Wait(r) \/ Mint(r) \/ Issue(r)
    BY <2>1 DEF Present, Admit, Refuse, RevokeFamily, Wait, Mint, Issue, IssueJti, redisVars
  <2>2. CASE Claim(r)
    BY <2>2 DEF Claim, RevokeFamily
  <2>3. CASE Complete(r) \/ Restore(r) \/ ResendRestore(r) \/ Answer(r) \/ Crash(r)
    BY <2>3 DEF Complete, Restore, ResendRestore, Answer, Crash, redisVars
  <2>4. CASE RevokeReuse(r) \/ AuditReuse(r) \/ KeepReuse(r) \/ ReadKept(r) \/ WriteKept(r) \/ ClearKept(r)
    BY <2>4 DEF RevokeReuse, RevokeFamily, AuditReuse, KeepReuse, ReadKept, WriteKept, ClearKept, redisVars
  <2> QED
    BY <1>1, <2>1, <2>2, <2>3, <2>4 DEF Step
<1>2. ASSUME NEW k \in Tokens, MarkerExpires(k) PROVE family' = "revoked"
  BY <1>2 DEF MarkerExpires
<1>3. CASE Logout \/ LifetimePasses \/ ChangeMembership \/ UNCHANGED vars
  BY <1>3 DEF Logout, RevokeFamily, LifetimePasses, ChangeMembership, vars, redisVars
<1> QED
  BY <1>1, <1>2, <1>3 DEF Next

\* Only a handler that reports the end, or that ends the family in the same step, says so.
LEMMA EndStep == TypeOK /\ EndInv /\ [Next]_vars => EndInv'
<1> SUFFICES ASSUME TypeOK, EndInv, [Next]_vars PROVE EndInv'
  OBVIOUS
<1> USE DEF EndInv, RevokeFamily
<1>1. ASSUME NEW r \in Requests, Step(r), family' # "revoked" PROVE ~ended' /\ pc'[r] \notin Reporting
  <2>1. ~ended /\ pc[r] \notin Reporting /\ family # "revoked"
    BY <1>1, RevokedStays DEF Reporting
  <2> USE DEF TypeOK, Go, Rest, Reporting
  <2>2. CASE Present(r) \/ Admit(r) \/ Wait(r) \/ Mint(r) \/ Issue(r)
    BY <2>1, <2>2 DEF Present, Admit, Wait, Mint, Issue, historyVars
  <2>3. CASE Refuse(r)
    <3>1. UNCHANGED ended
      BY <1>1, <2>3 DEF Refuse
    <3> QED
      BY <2>1, <2>3, <3>1 DEF Refuse
  <2>4. CASE Claim(r)
    <3>1. UNCHANGED ended
      BY <1>1, <2>4 DEF Claim
    <3>2. pc'[r] \notin Reporting
      BY <1>1, <2>1, <2>4 DEF Claim
    <3> QED
      BY <2>1, <3>1, <3>2
  <2>5. CASE Complete(r) \/ Answer(r) \/ Crash(r)
    BY <2>1, <2>5 DEF Complete, Answer, Crash
  <2>6. CASE Restore(r) \/ ResendRestore(r)
    BY <2>1, <2>6 DEF Restore, Restoring, ResendRestore
  <2>7. CASE RevokeReuse(r)
    BY <1>1, <2>1, <2>7 DEF RevokeReuse, historyVars
  <2>8. CASE AuditReuse(r) \/ KeepReuse(r) \/ ReadKept(r) \/ WriteKept(r) \/ ClearKept(r)
    BY <2>1, <2>8 DEF AuditReuse, KeepReuse, ReadKept, WriteKept, ClearKept
  <2> QED
    BY <1>1, <2>2, <2>3, <2>4, <2>5, <2>6, <2>7, <2>8 DEF Step
<1>2. ASSUME NEW r \in Requests, Step(r) PROVE EndInv'
  BY <1>1, <1>2, OthersStay, RevokedStays DEF Reporting
<1>3. ASSUME NEW k \in Tokens, MarkerExpires(k) PROVE EndInv'
  BY <1>3 DEF MarkerExpires, handlerVars
<1>4. CASE Logout \/ LifetimePasses \/ ChangeMembership \/ UNCHANGED vars
  BY <1>4 DEF Logout, LifetimePasses, ChangeMembership, vars, redisVars, handlerVars, historyVars
<1> QED
  BY <1>2, <1>3, <1>4 DEF Next

\* The history of the events only grows.
LEMMA RecordedStays == ASSUME [Next]_vars, recorded PROVE recorded'
<1>1. ASSUME NEW r \in Requests, Step(r) PROVE recorded'
  <2>1. CASE Present(r) \/ Admit(r) \/ Refuse(r) \/ Wait(r) \/ Mint(r) \/ Issue(r) \/ Claim(r)
    BY <2>1 DEF Present, Admit, Refuse, Wait, Mint, Issue, Claim, historyVars
  <2>2. CASE Complete(r) \/ Restore(r) \/ ResendRestore(r) \/ Answer(r) \/ Crash(r) \/ RevokeReuse(r)
    BY <2>2 DEF Complete, Restore, ResendRestore, Answer, Crash, RevokeReuse, historyVars
  <2>3. CASE AuditReuse(r) \/ KeepReuse(r) \/ ReadKept(r) \/ WriteKept(r) \/ ClearKept(r)
    BY <2>3 DEF AuditReuse, KeepReuse, ReadKept, WriteKept, ClearKept
  <2> QED
    BY <1>1, <2>1, <2>2, <2>3 DEF Step
<1>2. ASSUME NEW k \in Tokens, MarkerExpires(k) PROVE recorded'
  BY <1>2 DEF MarkerExpires
<1>3. CASE Logout \/ LifetimePasses \/ ChangeMembership \/ UNCHANGED vars
  BY <1>3 DEF Logout, LifetimePasses, ChangeMembership, vars, historyVars
<1> QED
  BY <1>1, <1>2, <1>3 DEF Next

\* Only a handler that wrote the event clears the note; who accuses records or notes it.
LEMMA KeptStep == TypeOK /\ KeptInv /\ [Next]_vars => KeptInv'
<1> SUFFICES ASSUME TypeOK, KeptInv, [Next]_vars PROVE KeptInv'
  OBVIOUS
<1> USE DEF KeptInv
<1>1. ASSUME NEW r \in Requests, Step(r), ~recorded' PROVE (accused' => unaudited') /\ pc'[r] # "clearing"
  <2>1. ~recorded /\ (accused => unaudited) /\ pc[r] # "clearing"
    BY <1>1, RecordedStays
  <2> USE DEF TypeOK, Go, Rest
  <2>2. CASE Present(r) \/ Admit(r) \/ Refuse(r) \/ Wait(r) \/ Mint(r) \/ Issue(r)
    <3>1. UNCHANGED <<accused, unaudited>>
      BY <2>2 DEF Present, Admit, Refuse, Wait, Mint, Issue, redisVars, historyVars
    <3>2. pc'[r] # "clearing"
      BY <2>2 DEF Present, Admit, Refuse, Wait, Mint, Issue
    <3> QED
      BY <2>1, <3>1, <3>2
  <2>3. CASE Claim(r)
    BY <2>1, <2>3 DEF Claim
  <2>4. CASE Complete(r) \/ Restore(r) \/ ResendRestore(r) \/ Answer(r) \/ Crash(r)
    BY <2>1, <2>4 DEF Complete, Restore, Restoring, ResendRestore, Answer, Crash, redisVars
  <2>5. CASE RevokeReuse(r) \/ ReadKept(r) \/ ClearKept(r)
    <3>1. ~ClearKept(r) /\ UNCHANGED <<accused, unaudited>>
      BY <2>1, <2>5 DEF RevokeReuse, ReadKept, ClearKept, redisVars, historyVars
    <3>2. pc'[r] # "clearing"
      BY <2>5, <3>1 DEF RevokeReuse, ReadKept
    <3> QED
      BY <2>1, <3>1, <3>2
  <2>6. CASE AuditReuse(r)
    <3>1. UNCHANGED <<accused, unaudited>>
      BY <1>1, <2>6 DEF AuditReuse, Told, redisVars
    <3>2. pc'[r] # "clearing"
      BY <2>6 DEF AuditReuse
    <3> QED
      BY <2>1, <3>1, <3>2
  <2>7. CASE KeepReuse(r)
    BY <1>1, <2>1, <2>7 DEF KeepReuse
  <2>8. CASE WriteKept(r)
    BY <1>1, <2>1, <2>8 DEF WriteKept, ClearsAfter, redisVars
  <2> QED
    BY <1>1, <2>2, <2>3, <2>4, <2>5, <2>6, <2>7, <2>8 DEF Step
<1>2. ASSUME NEW r \in Requests, Step(r) PROVE KeptInv'
  BY <1>1, <1>2, OthersStay, RecordedStays
<1>3. ASSUME NEW k \in Tokens, MarkerExpires(k) PROVE KeptInv'
  BY <1>3 DEF MarkerExpires, handlerVars
<1>4. CASE Logout \/ LifetimePasses \/ ChangeMembership \/ UNCHANGED vars
  BY <1>4 DEF Logout, LifetimePasses, ChangeMembership, vars, redisVars, handlerVars, historyVars
<1> QED
  BY <1>2, <1>3, <1>4 DEF Next

-----------------------------------------------------------------------------
(* The right to rotate                                                     *)

\* A named fault is never taken back.
LEMMA FaultsGrow == ASSUME [Next]_vars PROVE faults \subseteq faults'
<1>1. ASSUME NEW r \in Requests, Step(r) PROVE faults \subseteq faults'
  <2>1. CASE Present(r) \/ Admit(r) \/ Refuse(r) \/ Wait(r) \/ Mint(r) \/ Issue(r) \/ Claim(r)
    BY <2>1 DEF Present, Admit, Refuse, Wait, Mint, Issue, Claim, historyVars
  <2>2. CASE Complete(r) \/ Restore(r) \/ ResendRestore(r) \/ Answer(r) \/ Crash(r) \/ RevokeReuse(r)
    BY <2>2 DEF Complete, Restore, Restoring, ResendRestore, Answer, Crash, RevokeReuse, historyVars
  <2>3. CASE AuditReuse(r) \/ KeepReuse(r) \/ ReadKept(r) \/ WriteKept(r) \/ ClearKept(r)
    BY <2>3 DEF AuditReuse, KeepReuse, ReadKept, WriteKept, ClearKept
  <2> QED
    BY <1>1, <2>1, <2>2, <2>3 DEF Step
<1>2. ASSUME NEW k \in Tokens, MarkerExpires(k) PROVE faults \subseteq faults'
  BY <1>2 DEF MarkerExpires
<1>3. CASE Logout \/ LifetimePasses \/ ChangeMembership \/ UNCHANGED vars
  BY <1>3 DEF Logout, LifetimePasses, ChangeMembership, vars, historyVars
<1> QED
  BY <1>1, <1>2, <1>3 DEF Next

\* The step of a handler gives it no right that it did not have.
Takes(r) ==
  Rotating(r)' => /\ Rotating(r) /\ tok'[r] = tok[r]
                  /\ pc'[r] \in {"issuing", "completing"} => pc[r] \in {"issuing", "completing"} /\ new'[r] = new[r]

\* Such a step moves nothing.
LEMMA QuietRight ==
  ASSUME TypeOK, OneRight, NEW r \in Requests, Step(r), UNCHANGED <<live, handed, marker>>, Takes(r)
  PROVE  OneRight'
BY OthersStay DEF OneRight, Rotating, Takes

\* The steps that touch no token and no marker.
LEMMA QuietSteps ==
  ASSUME TypeOK, OneRight, NEW r \in Requests, Step(r),
         \/ Present(r) \/ Admit(r) \/ Refuse(r) \/ Wait(r) \/ Answer(r) \/ Crash(r) \/ RevokeReuse(r)
         \/ AuditReuse(r) \/ KeepReuse(r) \/ ReadKept(r) \/ WriteKept(r) \/ ClearKept(r)
  PROVE  OneRight'
<1>1. UNCHANGED <<live, handed, marker>>
  BY DEF Present, Admit, Refuse, Wait, Answer, Crash, RevokeReuse, AuditReuse, KeepReuse, ReadKept,
         WriteKept, ClearKept, redisVars, historyVars
<1>2. ~Rotating(r)'
  <2> USE DEF TypeOK, Go, Rest, Rotating
  <2>1. CASE Present(r) \/ Admit(r) \/ Refuse(r) \/ Wait(r) \/ Answer(r) \/ Crash(r)
    BY <2>1 DEF Present, Admit, Refuse, Wait, Answer, Crash
  <2>2. CASE \/ RevokeReuse(r) \/ AuditReuse(r) \/ KeepReuse(r)
             \/ ReadKept(r) \/ WriteKept(r) \/ ClearKept(r)
    BY <2>2 DEF RevokeReuse, AuditReuse, KeepReuse, ReadKept, WriteKept, ClearKept
  <2> QED
    BY <2>1, <2>2
<1> QED
  BY <1>1, <1>2, QuietRight DEF Takes

\* A claim takes the right from the only token that has it.
LEMMA ClaimRight ==
  ASSUME TypeOK, KnownInv, OneRight, NEW r \in Requests, Claim(r), Step(r)
  PROVE  OneRight'
<1> USE TokenAssumption DEF TypeOK, Go, Rest
<1>1. CASE tok[r] \in live /\ Consume(tok[r]) /\ marker' = [marker EXCEPT ![tok[r]] = Pending]
  <2>1. tok[r] \in live \cap handed /\ tok[r] \in Tokens
    BY <1>1 DEF Claim, KnownInv
  <2>2. \A q \in Requests : ~Rotating(q)
    BY <2>1 DEF OneRight
  <2>3. live' \cap handed' = {} /\ marker'[tok[r]] = Pending
    BY <1>1, <2>1 DEF Consume, Claim, OneRight
  <2>4. /\ pc'[r] = "minting" \/ ~Rotating(r)'
        /\ pc'[r] # "idle" => tok'[r] = tok[r]
    BY DEF Claim, Rotating
  <2> QED
    BY <2>2, <2>3, <2>4, OthersStay DEF OneRight, Rotating
<1>2. CASE UNCHANGED <<live, marker>>
  <2>1. pc'[r] \in {"readingKept", "idle", "waiting", "revoking", "minting"} /\ UNCHANGED handed
    BY DEF Claim
  <2>2. pc'[r] = "minting" => tok[r] \in live /\ tok[r] \in handed /\ live' = live \ {tok[r]}
    BY DEF Claim, KnownInv, Consume
  <2>3. Takes(r)
    BY <1>2, <2>1, <2>2 DEF Takes, Rotating
  <2> QED
    BY <1>2, <2>1, <2>3, QuietRight
<1> QED
  BY <1>1, <1>2 DEF Claim

\* A handler signs and issues a successor that nobody has seen, and gives it away last.
LEMMA HolderRight ==
  ASSUME TypeOK, KnownInv, OneRight, NEW r \in Requests, Step(r), Mint(r) \/ Issue(r) \/ Complete(r)
  PROVE  OneRight'
<1> USE DEF TypeOK, Go
<1>0. /\ Rotating(r) /\ live \cap handed = {} /\ tok'[r] = tok[r] /\ marker[tok[r]] \notin Tokens
      /\ \A q \in Requests : Rotating(q) => q = r
  BY DEF Mint, Issue, Complete, OneRight, Rotating
<1>1. CASE Mint(r)
  <2>1. UNCHANGED <<live, handed, marker>>
    BY <1>1 DEF Mint, redisVars
  <2>2. pc'[r] = "restoring" \/ (pc'[r] = "issuing" /\ new'[r] \notin handed)
    BY <1>1 DEF Mint
  <2> QED
    BY <1>0, <2>1, <2>2, OthersStay DEF OneRight, Rotating
<1>2. CASE Issue(r)
  <2>1. new'[r] = new[r] /\ new[r] \notin handed
    BY <1>2 DEF Issue, OneRight, Rotating
  <2>2. live' \cap handed' = {} /\ UNCHANGED <<handed, marker>>
    BY <1>0, <1>2, <2>1 DEF Issue, IssueJti, historyVars
  <2> QED
    BY <1>0, <2>1, <2>2, OthersStay DEF OneRight, Rotating
<1>3. CASE Complete(r)
  <2>1. live' \cap handed' \subseteq {new[r]} /\ pc'[r] = "answering"
    BY <1>0, <1>3 DEF Complete
  <2> QED
    BY <1>0, <2>1, OthersStay DEF OneRight, Rotating
<1> QED
  BY <1>1, <1>2, <1>3

\* A token comes back from the only handler that has the right; only a command that is
\* sent again could bring back one that has been rotated since.
LEMMA RestoreRight ==
  ASSUME TypeOK, KnownInv, OneRight, NEW r \in Requests, Step(r), Restore(r) \/ ResendRestore(r),
         "resent" \notin faults'
  PROVE  OneRight'
<1> USE TokenAssumption DEF TypeOK, Go, Rest
<1>1. pc'[r] \in {"idle", "resending"} /\ UNCHANGED handed
  BY DEF Restore, Restoring, ResendRestore
<1>2. CASE Restore(r)
  <2>1. /\ Rotating(r) /\ live \cap handed = {} /\ \A q \in Requests : Rotating(q) => q = r
    BY <1>2 DEF Restore, Restoring, OneRight, Rotating
  <2>2. live' \subseteq live \cup {tok[r]}
    BY <1>2 DEF Restore, Restoring, RestoreJti
  <2> QED
    BY <1>1, <2>1, <2>2, OthersStay DEF OneRight, Rotating
<1>3. CASE ResendRestore(r)
  <2>1. tok[r] \in live /\ tok[r] \in Tokens
    BY <1>3 DEF ResendRestore
  <2>2. UNCHANGED live /\ \A k \in Tokens : marker'[k] \in {marker[k], None}
    <3>1. marker \in [Tokens -> Tokens \cup {None, Pending}] /\ live \cup {tok[r]} = live
      BY <2>1
    <3>2. \/ live' = live \cup {tok[r]} /\ marker' = [marker EXCEPT ![tok[r]] = None]
          \/ UNCHANGED <<live, marker>>
      BY <1>3 DEF ResendRestore, RestoreJti
    <3> QED
      BY <3>1, <3>2
  <2>3. ~Rotating(r)' /\ \A q \in Requests : Rotating(q) => tok[q] \in Tokens
    BY <1>1 DEF KnownInv, Rotating
  <2> QED
    BY <1>1, <2>2, <2>3, OthersStay DEF OneRight, Rotating
<1> QED
  BY <1>2, <1>3

\* A marker that expires gives nothing.
LEMMA ExpiryRight == ASSUME TypeOK, KnownInv, OneRight, NEW k \in Tokens, MarkerExpires(k) PROVE OneRight'
<1>1. UNCHANGED <<live, handed, handlerVars>> /\ \A j \in Tokens : marker'[j] \in {marker[j], None}
  BY DEF MarkerExpires, TypeOK
<1>2. \A q \in Requests : Rotating(q) => tok[q] \in Tokens
  BY DEF TypeOK, KnownInv, Rotating
<1> QED
  BY <1>1, <1>2, TokenAssumption DEF OneRight, Rotating, handlerVars

\* No step makes a second token that can be rotated.
LEMMA RightStep == TypeOK /\ KnownInv /\ RightInv /\ [Next]_vars => RightInv'
<1> SUFFICES ASSUME TypeOK, KnownInv, RightInv, [Next]_vars, family' = "active", "resent" \notin faults'
             PROVE  OneRight'
  BY DEF RightInv
<1>1. OneRight
  BY RevokedStays, FaultsGrow DEF RightInv, TypeOK
<1>2. ASSUME NEW r \in Requests, Step(r) PROVE OneRight'
  BY <1>1, <1>2, QuietSteps, ClaimRight, HolderRight, RestoreRight DEF Step
<1>3. ASSUME NEW k \in Tokens, MarkerExpires(k) PROVE OneRight'
  BY <1>1, <1>3, ExpiryRight
<1>4. CASE Logout \/ LifetimePasses \/ ChangeMembership \/ UNCHANGED vars
  <2>1. UNCHANGED <<live, handed, marker, handlerVars>>
    BY <1>4 DEF Logout, LifetimePasses, ChangeMembership, vars, redisVars, historyVars
  <2> QED
    BY <1>1, <2>1 DEF OneRight, Rotating, handlerVars
<1> QED
  BY <1>2, <1>3, <1>4 DEF Next

-----------------------------------------------------------------------------
(* A retry is not a replay                                                 *)

\* No step of a handler makes a token unknown, but for a command that is sent again.
LEMMA KnownStays ==
  ASSUME TypeOK, KnownInv, NEW r \in Requests, Step(r), NEW k \in Tokens, Known(k), faults' = {}
  PROVE  Known(k)'
<1> USE TokenAssumption DEF Known, TypeOK
<1>1. CASE UNCHANGED <<live, marker>>
  BY <1>1
<1>2. CASE Claim(r)
  BY <1>2 DEF Claim, Consume
<1>3. CASE Issue(r)
  BY <1>3 DEF Issue, IssueJti
<1>4. CASE Complete(r)
  BY <1>4 DEF Complete, Go, KnownInv
<1>5. CASE Restore(r)
  BY <1>5 DEF Restore, Restoring, RestoreJti
<1>6. CASE ResendRestore(r)
  <2>1. tok[r] \in live
    BY <1>6 DEF ResendRestore
  <2> QED
    BY <1>6, <2>1 DEF ResendRestore, RestoreJti
<1>7. CASE \/ Present(r) \/ Admit(r) \/ Refuse(r) \/ Wait(r) \/ Mint(r) \/ Answer(r) \/ Crash(r)
           \/ RevokeReuse(r) \/ AuditReuse(r) \/ KeepReuse(r) \/ ReadKept(r) \/ WriteKept(r) \/ ClearKept(r)
  BY <1>7, <1>1 DEF Present, Admit, Refuse, Wait, Mint, Answer, Crash, RevokeReuse, AuditReuse, KeepReuse,
                    ReadKept, WriteKept, ClearKept, redisVars
<1> QED
  BY <1>2, <1>3, <1>4, <1>5, <1>6, <1>7 DEF Step

\* A handler finds a reuse only when the token of its request is unknown.
LEMMA AccuseStep ==
  ASSUME TypeOK, EndInv, NEW r \in Requests, Step(r), NobodyAccused, family = "active" => RequestsKnown
  PROVE  NobodyAccused'
<1> USE DEF TypeOK, Go, Rest
<1>0. ~accused /\ pc[r] \notin {"revoking", "auditing", "keeping"}
  BY DEF NobodyAccused
<1>1. UNCHANGED accused
  BY <1>0 DEF Step, Present, Admit, Refuse, Claim, Wait, Mint, Issue, Complete, Restore, ResendRestore, Answer,
              RevokeReuse, AuditReuse, KeepReuse, ReadKept, WriteKept, ClearKept, Crash, historyVars
<1>2. pc'[r] \notin {"revoking", "auditing", "keeping"}
  <2>1. CASE Present(r) \/ Admit(r) \/ Refuse(r) \/ Wait(r) \/ Mint(r) \/ Issue(r)
    BY <2>1 DEF Present, Admit, Refuse, Wait, Mint, Issue
  <2>2. CASE Claim(r)
    BY <2>2 DEF Claim, RequestsKnown, Known
  <2>3. CASE Complete(r) \/ Restore(r) \/ ResendRestore(r) \/ Answer(r) \/ Crash(r)
    BY <2>3 DEF Complete, Restore, Restoring, ResendRestore, Answer, Crash
  <2>4. CASE ReadKept(r) \/ WriteKept(r) \/ ClearKept(r)
    BY <2>4 DEF ReadKept, WriteKept, ClearKept
  <2> QED
    BY <1>0, <2>1, <2>2, <2>3, <2>4 DEF Step, RevokeReuse, AuditReuse, KeepReuse
<1> QED
  BY <1>0, <1>1, <1>2, OthersStay DEF NobodyAccused

\* A request presents the token of the browser, and keeps it until it is answered.
LEMMA RequestStep ==
  ASSUME TypeOK, KnownInv, NEW r \in Requests, Step(r), faults' = {}, RequestsKnown, CookieKnown
  PROVE  RequestsKnown'
<1> DEFINE KnownNext(k) == k \in live' \/ marker'[k] # None
<1>1. ASSUME NEW q \in Requests, pc[q] \in {"admitting", "claiming"} PROVE KnownNext(tok[q])
  <2>1. tok[q] \in Tokens /\ Known(tok[q])
    BY <1>1 DEF KnownInv, TypeOK, RequestsKnown
  <2> QED
    BY <1>1, <2>1, KnownStays DEF Known
<1>2. CASE Present(r)
  <2>1. cookie # None /\ tok'[r] = cookie /\ cookie \in Tokens
    BY <1>2 DEF Present, TypeOK
  <2>2. Known(cookie)
    BY <2>1 DEF CookieKnown, Underway, Known
  <2>3. KnownNext(tok'[r])
    BY <1>2, <2>1, <2>2 DEF Present, redisVars, Known
  <2> QED
    BY <1>1, <2>3, OthersStay DEF RequestsKnown, Known
<1>3. CASE ~Present(r)
  <2>1. pc'[r] \in {"admitting", "claiming"} => pc[r] \in {"admitting", "claiming"} /\ tok'[r] = tok[r]
    <3> USE DEF TypeOK, Go, Rest
    <3>1. CASE Admit(r) \/ Refuse(r) \/ Claim(r) \/ Wait(r) \/ Mint(r) \/ Issue(r)
      BY <3>1 DEF Admit, Refuse, Claim, Wait, Mint, Issue
    <3>2. CASE Complete(r) \/ Restore(r) \/ ResendRestore(r) \/ Answer(r) \/ Crash(r)
      BY <3>2 DEF Complete, Restore, Restoring, ResendRestore, Answer, Crash
    <3>3. CASE \/ RevokeReuse(r) \/ AuditReuse(r) \/ KeepReuse(r)
               \/ ReadKept(r) \/ WriteKept(r) \/ ClearKept(r)
      BY <3>3 DEF RevokeReuse, AuditReuse, KeepReuse, ReadKept, WriteKept, ClearKept
    <3> QED
      BY <1>3, <3>1, <3>2, <3>3 DEF Step
  <2> QED
    BY <1>1, <2>1, OthersStay DEF RequestsKnown, Known
<1> QED
  BY <1>2, <1>3

\* A handler that holds the right to rotate the browser's token gives it back, or an
\* answer in its place.
LEMMA HolderStep ==
  ASSUME TypeOK, KnownInv, RightInv, NEW r \in Requests, Step(r), faults = {}, faults' = {}, family = "active",
         Rotating(r) \/ pc[r] = "answering", ~Answer(r)
  PROVE  tok[r] \in live' \/ (tok'[r] = tok[r] /\ (Rotating(r)' \/ pc'[r] = "answering"))
<1> USE DEF TypeOK, Go, Rest, Rotating
<1>1. CASE Mint(r) \/ Issue(r) \/ Complete(r)
  BY <1>1 DEF Mint, Issue, Complete
<1>2. CASE Restore(r)
  <2>1. marker[tok[r]] \notin Tokens /\ tok[r] \in Tokens
    BY <1>2 DEF Restore, Restoring, RightInv, OneRight, KnownInv
  <2>2. MayRestore(tok[r])
    BY <2>1 DEF MayRestore
  <2> QED
    BY <1>2, <2>2 DEF Restore, Restoring, RestoreJti
<1>3. CASE Crash(r)
  BY <1>3 DEF Crash, AfterClaim
<1> QED
  BY <1>1, <1>2, <1>3 DEF Step, Present, Admit, Refuse, Claim, Wait, ResendRestore, RevokeReuse, AuditReuse,
     KeepReuse, ReadKept, WriteKept, ClearKept

\* The token of the browser stays known, or the one that replaces it is.
LEMMA CookieStep ==
  ASSUME TypeOK, KnownInv, RightInv, NEW r \in Requests, Step(r), faults = {}, faults' = {}, family = "active",
         CookieKnown
  PROVE  CookieKnown'
<1> USE TokenAssumption
<1>1. CASE Answer(r)
  BY <1>1 DEF Answer, CookieKnown, redisVars
<1>2. CASE ~Answer(r)
  <2>1. UNCHANGED cookie
    BY <1>2 DEF Step, Present, Admit, Refuse, Claim, Wait, Mint, Issue, Complete, Restore, ResendRestore,
                RevokeReuse, AuditReuse, KeepReuse, ReadKept, WriteKept, ClearKept, Crash, worldVars
  <2> SUFFICES ASSUME cookie \in Tokens, cookie \notin live' PROVE Underway(cookie)'
    BY <2>1 DEF CookieKnown, Underway, TypeOK
  <2>2. marker'[cookie] # None
    BY KnownStays DEF Known, CookieKnown, Underway
  <2>3. CASE cookie \in live
    <3>1. Claim(r)
      BY <2>3 DEF Step, Present, Admit, Refuse, Wait, Mint, Issue, IssueJti, Complete, Restore, Restoring, RestoreJti,
                  ResendRestore, Answer, RevokeReuse, AuditReuse, KeepReuse, ReadKept, WriteKept, ClearKept,
                  Crash, redisVars
    <3>2. Consume(tok[r]) /\ Go(r, "claiming", "minting") /\ UNCHANGED tok
      <4>1. ~(UNCHANGED live)
        BY <2>3
      <4> QED
        BY <3>1, <4>1 DEF Claim
    <3>3. tok[r] = cookie
      BY <2>3, <3>2 DEF Consume
    <3>4. tok'[r] = tok[r] /\ pc'[r] = "minting"
      BY <3>2 DEF Go, TypeOK
    <3> QED
      BY <2>1, <2>2, <3>3, <3>4 DEF Underway, Rotating
  <2>4. CASE cookie \notin live
    <3>1. PICK w \in Requests : tok[w] = cookie /\ (Rotating(w) \/ pc[w] = "answering")
      BY <2>4 DEF CookieKnown, Underway
    <3>2. tok'[w] = cookie /\ (Rotating(w)' \/ pc'[w] = "answering")
      BY <1>2, <3>1, HolderStep, OthersStay DEF Rotating
    <3> QED
      BY <2>1, <2>2, <3>2 DEF Underway
  <2> QED
    BY <2>3, <2>4
<1> QED
  BY <1>1, <1>2

\* Without a fault that is named, nobody is taken for a thief.
LEMMA TheftStep == TypeOK /\ KnownInv /\ RightInv /\ EndInv /\ TheftInv /\ [Next]_vars => TheftInv'
<1> SUFFICES ASSUME TypeOK, KnownInv, RightInv, EndInv, TheftInv, [Next]_vars, faults' = {}
             PROVE  NobodyAccused' /\ (family' = "active" => RequestsKnown' /\ CookieKnown')
  BY DEF TheftInv
<1>1. faults = {} /\ NobodyAccused /\ (family = "active" => RequestsKnown /\ CookieKnown)
  BY FaultsGrow DEF TheftInv
<1>2. family' = "active" => family = "active"
  BY RevokedStays DEF TypeOK
<1>3. ASSUME NEW r \in Requests, Step(r)
      PROVE  NobodyAccused' /\ (family' = "active" => RequestsKnown' /\ CookieKnown')
  BY <1>1, <1>2, <1>3, AccuseStep, RequestStep, CookieStep
<1>4. ASSUME NEW k \in Tokens, MarkerExpires(k)
      PROVE  NobodyAccused' /\ (family' = "active" => RequestsKnown' /\ CookieKnown')
  <2>1. \A q \in Requests : tok[q] # k
    BY <1>4 DEF MarkerExpires
  <2>2. UNCHANGED <<live, family, pc, tok, cookie, accused>> /\ \A j \in Tokens : j # k => marker'[j] = marker[j]
    BY <1>4 DEF MarkerExpires, TypeOK, handlerVars, worldVars
  <2>3. NobodyAccused'
    BY <1>1, <2>2 DEF NobodyAccused
  <2>4. RequestsKnown => RequestsKnown'
    BY <2>1, <2>2 DEF RequestsKnown, Known, KnownInv, TypeOK
  <2>5. CookieKnown => CookieKnown'
    BY <2>1, <2>2 DEF CookieKnown, Underway, Rotating, TypeOK
  <2> QED
    BY <1>1, <1>2, <2>3, <2>4, <2>5
<1>5. CASE Logout \/ LifetimePasses \/ ChangeMembership \/ UNCHANGED vars
  <2>1. UNCHANGED <<live, marker, handlerVars, accused>> /\ (UNCHANGED cookie \/ family' = "revoked")
    BY <1>5 DEF Logout, RevokeFamily, LifetimePasses, ChangeMembership, vars, redisVars, historyVars, worldVars
  <2>2. NobodyAccused'
    BY <1>1, <2>1 DEF NobodyAccused, handlerVars
  <2>3. RequestsKnown => RequestsKnown'
    BY <2>1 DEF RequestsKnown, Known, handlerVars
  <2>4. UNCHANGED cookie /\ CookieKnown => CookieKnown'
    BY <2>1 DEF CookieKnown, Underway, Rotating, handlerVars
  <2> QED
    BY <1>1, <1>2, <2>1, <2>2, <2>3, <2>4
<1> QED
  BY <1>3, <1>4, <1>5 DEF Next

-----------------------------------------------------------------------------
(* The theorems                                                            *)

\* The inductive invariant holds at the start, and every step preserves it.
THEOREM FamilyCorrect == Spec => []FamilyInv
<1>1. Init => FamilyInv
  <2>1. Init => TypeOK /\ KnownInv
    BY TypeInit DEF TypeInv
  <2>2. Init => RightInv
    BY TokenAssumption DEF Init, RightInv, OneRight, Rotating
  <2>3. Init => EndInv /\ KeptInv
    BY DEF Init, EndInv, KeptInv
  <2>4. Init => TheftInv
    BY DEF Init, TheftInv, NobodyAccused, RequestsKnown, CookieKnown
  <2> QED
    BY <2>1, <2>2, <2>3, <2>4 DEF FamilyInv
<1>2. FamilyInv /\ [Next]_vars => FamilyInv'
  BY TypeStep, RightStep, EndStep, KeptStep, TheftStep DEF FamilyInv, TypeInv
<1> QED
  BY <1>1, <1>2, PTL DEF Spec

\* The scripts of the store keep the shape of a family, and of the tokens that anybody was
\* given at most one can be rotated, unless Redis executed a restore twice.
THEOREM RotationHolds == Spec => []RotationInvariant
<1>1. FamilyInv => RotationInvariant
  BY DEF FamilyInv, RightInv, OneRight, RotationInvariant, OneUsable
<1> QED
  BY <1>1, FamilyCorrect, PTL

\* After a sign-out, a refused member, a detected reuse or the absolute lifetime, no handler
\* of /auth/refresh that is under way makes the family active again.
THEOREM EndedStaysEndedHolds == Spec => []EndedStaysEnded
<1>1. FamilyInv => EndedStaysEnded
  BY DEF FamilyInv, EndInv, EndedStaysEnded
<1> QED
  BY <1>1, FamilyCorrect, PTL

\* /auth/refresh answers no browser that a token was reused, whatever fails in its handlers
\* and whoever retries, unless a fault that is named has happened.
THEOREM NoFalseTheftHolds == Spec => []NoFalseTheft
<1>1. FamilyInv => NoFalseTheft
  BY DEF FamilyInv, TheftInv, NobodyAccused, NoFalseTheft
<1> QED
  BY <1>1, FamilyCorrect, PTL

\* A reuse that was answered is an audit event, a line of the log or a note in Redis that
\* the next refusal turns into an event.
THEOREM ReuseIsRecordedHolds == Spec => []ReuseIsRecorded
<1>1. FamilyInv => ReuseIsRecorded
  BY DEF FamilyInv, KeptInv, ReuseIsRecorded
<1> QED
  BY <1>1, FamilyCorrect, PTL
=============================================================================
