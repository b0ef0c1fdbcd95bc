-------------------------- MODULE RefreshRotation --------------------------
(***************************************************************************)
(* One family of refresh tokens in Redis and the handlers of /auth/refresh *)
(* that rotate it.  The tabs of a browser share one cookie, so handlers of *)
(* the same token run beside one another, on any replica.                  *)
(*                                                                         *)
(* A Lua script is one step.  A call to Redis may fail without effect, or  *)
(* take effect and lose its answer; the client sends a command again when  *)
(* its connection drops.  Handler slots are used again, so any number of   *)
(* refreshes follow one another.  A marker may expire at any moment, and   *)
(* the login time when the lifetime is over; the other keys of a family    *)
(* outlive all its tokens.                                                 *)
(***************************************************************************)
CONSTANTS
  Requests,    \* handlers of /auth/refresh that run at one time
  Tokens,      \* bound: the jtis of the family
  First,       \* the jti of the login
  None,        \* no token, no marker
  Pending      \* the marker of a rotation that has no result yet

ASSUME TokenAssumption == First \in Tokens /\ None \notin Tokens /\ Pending \notin Tokens \cup {None}

VARIABLES
  live,        \* refresh_jti: the jtis that can be claimed
  family,      \* refresh_family
  marker,      \* refresh_rotation, per jti: None, Pending or the successor
  unaudited,   \* refresh_reuse_unaudited
  member,      \* the membership of the user
  lifeOver,    \* refresh_family_login_at is missing, or a whole lifetime ago
  cookie,      \* the token that the browser holds
  pc,          \* per handler: what it does next
  tok,         \* per handler: the token of the request
  new,         \* per handler: the token it answers with
  issued,      \* jtis ever signed
  handed,      \* history: tokens that were answered or cached
  ended,       \* history: somebody was told that the session is over
  accused,     \* history: a reuse was detected and answered
  recorded,    \* history: its event is written, or its failure is logged
  faults       \* history: what the code does not repair, "lost" or "resent"

redisVars == <<live, family, marker, unaudited>>
handlerVars == <<pc, tok, new>>
worldVars == <<member, lifeOver, cookie>>
historyVars == <<issued, handed, ended, accused, recorded, faults>>
vars == <<redisVars, handlerVars, worldVars, historyVars>>

Init ==
  /\ live = {First} /\ family = "active"
  /\ marker = [k \in Tokens |-> None] /\ unaudited = FALSE
  /\ member = TRUE /\ lifeOver = FALSE /\ cookie = First
  /\ pc = [r \in Requests |-> "idle"]
  /\ tok = [r \in Requests |-> None] /\ new = [r \in Requests |-> None]
  /\ issued = {First} /\ handed = {First}
  /\ ended = FALSE /\ accused = FALSE /\ recorded = FALSE /\ faults = {}

-----------------------------------------------------------------------------
(* The scripts of the store                                                *)

ConsumeLate(k) == UNCHANGED live
Consume(k) == live' = live \ {k}

\* A login time that is missing is set to now: the lifetime begins again.
IssueAlways(k) == live' = live \cup {k} /\ family' = "active" /\ lifeOver' \in {FALSE, lifeOver}
IssueJti(k) ==
  /\ family # "revoked"
  /\ live' = live \cup {k}
  /\ family' = "active"
  /\ lifeOver' \in {FALSE, lifeOver}

\* Only a pending marker, or none, and never into a family that has ended.
MayRestore(k) == marker[k] \in {None, Pending} /\ family = "active"
RestoreJti(k) ==
  IF MayRestore(k)
  THEN live' = live \cup {k} /\ marker' = [marker EXCEPT ![k] = None]
  ELSE UNCHANGED <<live, marker>>

RevokeFamily == family' = "revoked"

-----------------------------------------------------------------------------
(* /auth/refresh                                                           *)

Go(r, from, to) == pc[r] = from /\ pc' = [pc EXCEPT ![r] = to]

\* The handler is done: a refusal changes nothing in the browser.
Rest(r, from) ==
  /\ pc[r] = from
  /\ pc' = [pc EXCEPT ![r] = "idle"]
  /\ tok' = [tok EXCEPT ![r] = None] /\ new' = [new EXCEPT ![r] = None]

\* A tab of the browser, or whoever holds an older copy of the cookie.
Present(r) ==
  /\ Go(r, "idle", "admitting")
  /\ \/ /\ cookie # None /\ tok' = [tok EXCEPT ![r] = cookie]
        /\ UNCHANGED faults
     \/ /\ \E k \in handed : tok' = [tok EXCEPT ![r] = k]
        /\ faults' = faults \cup {"lost"}
  /\ UNCHANGED <<redisVars, new, worldVars, issued, handed, ended, accused, recorded>>

\* The membership decides before the claim.  The lookup may fail.
Admit(r) ==
  /\ \/ member /\ Go(r, "admitting", "claiming") /\ UNCHANGED <<tok, new>>
     \/ ~member /\ Go(r, "admitting", "refusing") /\ UNCHANGED <<tok, new>>
     \/ Rest(r, "admitting")
  /\ UNCHANGED <<redisVars, worldVars, historyVars>>

\* 403 once the family is revoked, 503 when that fails.
Refuse(r) ==
  /\ Rest(r, "refusing")
  /\ \/ RevokeFamily /\ ended' \in {TRUE, ended}
     \/ UNCHANGED <<family, ended>>
  /\ UNCHANGED <<live, marker, unaudited, worldVars, issued, handed, accused, recorded, faults>>

Claim(r) ==
  LET k == tok[r] IN
  /\ pc[r] = "claiming"
  /\ \/ /\ family = "revoked"
        /\ Go(r, "claiming", "readingKept")
        /\ UNCHANGED <<live, family, marker, tok, new, ended, faults>>
     \/ /\ family = "active" /\ lifeOver
        /\ RevokeFamily /\ Rest(r, "claiming")
        /\ ended' \in {TRUE, ended}
        /\ UNCHANGED <<live, marker, faults>>
     \/ /\ family = "active" /\ ~lifeOver /\ k \in live
        /\ Consume(k) /\ marker' = [marker EXCEPT ![k] = Pending]
        /\ \/ Go(r, "claiming", "minting") /\ UNCHANGED <<tok, new, faults>>
           \/ Rest(r, "claiming") /\ faults' = faults \cup {"lost"}
        /\ UNCHANGED <<family, ended>>
     \/ /\ family = "active" /\ ~lifeOver /\ k \notin live /\ marker[k] # None
        /\ Go(r, "claiming", "waiting")
        /\ UNCHANGED <<live, family, marker, tok, new, ended, faults>>
     \/ /\ family = "active" /\ ~lifeOver /\ k \notin live /\ marker[k] = None
        /\ Go(r, "claiming", "revoking")
        /\ UNCHANGED <<live, family, marker, tok, new, ended, faults>>
     \/ /\ Rest(r, "claiming")
        /\ UNCHANGED <<live, family, marker, ended, faults>>
  /\ UNCHANGED <<unaudited, worldVars, issued, handed, accused, recorded>>

\* waitForRefreshRotation: the result of the winner, or 503 after a while.
HasResult(k) == marker[k] \in Tokens

Wait(r) ==
  /\ \/ /\ Go(r, "waiting", "answering")
        /\ HasResult(tok[r])
        /\ new' = [new EXCEPT ![r] = marker[tok[r]]] /\ UNCHANGED tok
     \/ Rest(r, "waiting")
  /\ UNCHANGED <<redisVars, worldVars, historyVars>>

\* The user is read and the tokens are signed; any of it may throw.
Mint(r) ==
  /\ pc[r] = "minting"
  /\ \/ /\ \E k \in Tokens \ issued :
             new' = [new EXCEPT ![r] = k] /\ issued' = issued \cup {k}
        /\ Go(r, "minting", "issuing")
     \/ Go(r, "minting", "restoring") /\ UNCHANGED <<new, issued>>
  /\ UNCHANGED <<redisVars, tok, worldVars, handed, ended, accused, recorded, faults>>

\* A refused issue throws as a failed one does.
Issue(r) ==
  /\ pc[r] = "issuing"
  /\ \/ IssueJti(new[r]) /\ (Go(r, "issuing", "completing") \/ Go(r, "issuing", "restoring"))
     \/ UNCHANGED <<live, family, lifeOver>> /\ Go(r, "issuing", "restoring")
  /\ UNCHANGED <<marker, unaudited, tok, new, member, cookie, historyVars>>

\* Best effort: the rotation has succeeded either way.
Complete(r) ==
  /\ Go(r, "completing", "answering")
  /\ marker' \in {marker, [marker EXCEPT ![tok[r]] = new[r]]}
  /\ handed' = handed \cup {new[r]}
  /\ UNCHANGED <<live, family, unaudited, tok, new, worldVars, issued, ended, accused, recorded, faults>>

SkipRestore(r) == Rest(r, "restoring") /\ UNCHANGED <<live, marker, faults>>

\* 503 in any case.  The command may be sent again after it took effect.
Restoring(r) ==
  \/ /\ Rest(r, "restoring") \/ (Go(r, "restoring", "resending") /\ UNCHANGED <<tok, new>>)
     /\ RestoreJti(tok[r])
     /\ UNCHANGED faults
  \/ Rest(r, "restoring") /\ UNCHANGED <<live, marker>> /\ faults' = faults \cup {"lost"}

Restore(r) ==
  /\ Restoring(r)
  /\ UNCHANGED <<family, unaudited, worldVars, issued, handed, ended, accused, recorded>>

ResendRestore(r) ==
  /\ Rest(r, "resending")
  /\ RestoreJti(tok[r])
  /\ faults' = IF tok[r] \in live THEN faults ELSE faults \cup {"resent"}
  /\ UNCHANGED <<family, unaudited, worldVars, issued, handed, ended, accused, recorded>>

\* Set-Cookie applies when the answer arrives, if it does.
Answer(r) ==
  /\ Rest(r, "answering")
  /\ \/ /\ cookie' = new[r]
        /\ faults' = IF new[r] \in live THEN faults ELSE faults \cup {"lost"}
     \/ /\ UNCHANGED cookie /\ faults' = faults \cup {"lost"}
  /\ UNCHANGED <<redisVars, member, lifeOver, issued, handed, ended, accused, recorded>>

-----------------------------------------------------------------------------
(* A detected reuse and its audit event                                    *)

\* The revoke comes before any answer.  When it fails the retry detects again.
RevokeReuse(r) ==
  /\ \/ RevokeFamily /\ Go(r, "revoking", "auditing") /\ UNCHANGED <<tok, new>>
     \/ RevokeFamily /\ Rest(r, "revoking")
     \/ UNCHANGED family /\ Rest(r, "revoking")
  /\ UNCHANGED <<live, marker, unaudited, worldVars, historyVars>>

Told == ended' = TRUE /\ accused' = TRUE

AuditReuse(r) ==
  /\ pc[r] = "auditing"
  /\ \/ Rest(r, "auditing") /\ recorded' = TRUE /\ Told
     \/ Go(r, "auditing", "keeping") /\ recorded' \in {TRUE, recorded} /\ UNCHANGED <<tok, new, ended, accused>>
  /\ UNCHANGED <<redisVars, worldVars, issued, handed, faults>>

\* When the marker fails too, the log is the only record.
KeepReuse(r) ==
  /\ Rest(r, "keeping") /\ Told
  /\ \/ unaudited' = TRUE /\ UNCHANGED recorded
     \/ unaudited' \in {TRUE, unaudited} /\ recorded' = TRUE
  /\ UNCHANGED <<live, family, marker, worldVars, issued, handed, faults>>

ReadKept(r) ==
  /\ \/ unaudited /\ Go(r, "readingKept", "writingKept") /\ UNCHANGED <<tok, new, ended>>
     \/ Rest(r, "readingKept") /\ ended' = TRUE
  /\ UNCHANGED <<redisVars, worldVars, issued, handed, accused, recorded, faults>>

\* The marker goes after the write.
ClearsAnyway(wrote) == TRUE
ClearsAfter(wrote) == wrote

WriteKept(r) ==
  /\ pc[r] = "writingKept"
  /\ \E wrote \in BOOLEAN :
       /\ recorded' = (recorded \/ wrote)
       /\ IF ClearsAfter(wrote)
          THEN Go(r, "writingKept", "clearing") /\ UNCHANGED <<tok, new, ended>>
          ELSE Rest(r, "writingKept") /\ ended' = TRUE
  /\ UNCHANGED <<redisVars, worldVars, issued, handed, accused, faults>>

ClearKept(r) ==
  /\ Rest(r, "clearing") /\ ended' = TRUE
  /\ unaudited' \in {FALSE, unaudited}
  /\ UNCHANGED <<live, family, marker, worldVars, issued, handed, accused, recorded, faults>>

-----------------------------------------------------------------------------
(* The world                                                               *)

\* Sign-out: 200 and no cookie once the family is revoked, else 503.
Logout ==
  /\ cookie # None /\ RevokeFamily
  /\ \/ cookie' = None /\ ended' = TRUE
     \/ UNCHANGED <<cookie, ended>>
  /\ UNCHANGED <<live, marker, unaudited, handlerVars, member, lifeOver, issued, handed, accused, recorded, faults>>

\* REFRESH_ROTATION_GRACE_SECONDS: a request that is under way is slower.
MarkerExpires(k) ==
  /\ marker[k] # None
  /\ marker' = [marker EXCEPT ![k] = None]
  /\ faults' = IF \E r \in Requests : tok[r] = k THEN faults \cup {"lost"} ELSE faults
  /\ UNCHANGED <<live, family, unaudited, handlerVars, worldVars, issued, handed, ended, accused, recorded>>

LifetimePasses ==
  /\ ~lifeOver /\ lifeOver' = TRUE
  /\ UNCHANGED <<redisVars, handlerVars, member, cookie, historyVars>>

\* A manager removes the member; a provisioned login brings the membership back.
ChangeMembership ==
  /\ member' = ~member
  /\ UNCHANGED <<redisVars, handlerVars, lifeOver, cookie, historyVars>>

AfterClaim == {"minting", "issuing", "completing", "answering", "restoring", "resending", "auditing", "keeping"}

Crash(r) ==
  /\ pc[r] # "idle" /\ Rest(r, pc[r])
  /\ faults' = IF pc[r] \in AfterClaim THEN faults \cup {"lost"} ELSE faults
  /\ UNCHANGED <<redisVars, worldVars, issued, handed, ended, accused, recorded>>

Step(r) ==
  \/ Present(r) \/ Admit(r) \/ Refuse(r) \/ Claim(r) \/ Wait(r)
  \/ Mint(r) \/ Issue(r) \/ Complete(r) \/ Restore(r) \/ ResendRestore(r) \/ Answer(r)
  \/ RevokeReuse(r) \/ AuditReuse(r) \/ KeepReuse(r)
  \/ ReadKept(r) \/ WriteKept(r) \/ ClearKept(r) \/ Crash(r)

Next ==
  \/ \E r \in Requests : Step(r)
  \/ \E k \in Tokens : MarkerExpires(k)
  \/ Logout \/ LifetimePasses \/ ChangeMembership

Spec == Init /\ [][Next]_vars

-----------------------------------------------------------------------------
(* Properties                                                              *)

Places == AfterClaim \cup {"idle", "admitting", "refusing", "claiming", "waiting", "revoking",
                           "readingKept", "writingKept", "clearing"}

\* The shape of the state.
TypeOK ==
  /\ live \subseteq issued /\ issued \subseteq Tokens /\ handed \subseteq issued
  /\ family \in {"active", "revoked"}
  /\ marker \in [Tokens -> Tokens \cup {None, Pending}]
  /\ cookie \in handed \cup {None}
  /\ pc \in [Requests -> Places]
  /\ tok \in [Requests -> handed \cup {None}]
  /\ new \in [Requests -> issued \cup {None}]
  /\ {unaudited, member, lifeOver, ended, accused, recorded} \subseteq BOOLEAN
  /\ faults \subseteq {"lost", "resent"}

\* Of the tokens that anybody was given, at most one can be rotated: two holders of one
\* cookie cannot both go on, so that one of them presents a consumed token.
OneUsable ==
  family = "active" /\ "resent" \notin faults => \A j, k \in live \cap handed : j = k

\* The state has its shape, and no two tokens can both go on.
RotationInvariant == TypeOK /\ OneUsable

\* Once somebody was told that the session is over, by a sign-out, a refused member, a
\* detected reuse or the absolute lifetime, no rotation under way brings it back.
EndedStaysEnded == ended => family = "revoked"

\* A retry is not a replay: failed lookups, signatures, issues and cache writes, in any
\* number of tabs, never end a session as stolen, short of a fault that is named.
NoFalseTheft == accused => faults # {}

\* A detected reuse leaves an event, a marker that a later refusal turns into an event,
\* or a line in the log, whatever other refusals read and clear in between.
ReuseIsRecorded == accused => recorded \/ unaudited
=============================================================================
