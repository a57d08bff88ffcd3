-------------------------------- MODULE Session --------------------------------
(***************************************************************************)
(* Sessions of one member: login, refresh, logout and password reset in the *)
(* backend, and the HTTP client of one browser tab, which renews an expired *)
(* access token once for all the requests that met it. Hashes, cookies'     *)
(* attributes and the wallet login, which issues its tokens the same way,   *)
(* are left out.                                                            *)
(***************************************************************************)
EXTENDS Integers, FiniteSets

CONSTANTS
    MaxSessions,  \* bound: logins
    Calls,        \* the requests the tab makes
    Resets        \* the reset requests

ASSUME SessionAssumption == MaxSessions \in Nat

VARIABLES
    session,   \* RefreshToken rows
    entering,  \* logins checked, tokens not issued yet
    otp,       \* the newest code: "none", "valid" or "used"
    reset,     \* resetPassword: how far each is, and the sessions it found
    cookie,    \* the tab's session, or 0, and whether its access token is fresh
    call,      \* the tab's requests
    isRefreshing, renewal  \* the flag, and the calls of /auth/refresh in flight

accountVars == <<session, entering, otp, reset>>
tabVars == <<cookie, call, isRefreshing, renewal>>
sessionVars == <<accountVars, tabVars>>

Sessions == 1 .. MaxSessions

(* sent     with the access token the tab had then                         *)
(* retried  _isRetry                                                       *)
NoCall == [at |-> "idle", fresh |-> FALSE, retried |-> FALSE]

SessionInit ==
    /\ session = [s \in Sessions |-> "none"] /\ entering = 0
    /\ otp = "none" /\ reset = [r \in Resets |-> [at |-> "idle", found |-> {}]]
    /\ cookie = [session |-> 0, fresh |-> FALSE]
    /\ call = [q \in Calls |-> NoCall]
    /\ isRefreshing = FALSE /\ renewal = {}

SessionTypeOK ==
    /\ session \in [Sessions -> {"none", "valid", "revoked", "expired"}]
    /\ entering \in 0 .. MaxSessions
    /\ otp \in {"none", "valid", "used"}
    /\ reset \in [Resets -> [at : {"idle", "checked", "changed", "used", "done"},
                             found : SUBSET Sessions]]
    /\ cookie \in [session : Sessions \cup {0}, fresh : BOOLEAN]
    /\ call \in [Calls -> [at : {"idle", "sent", "queued", "ok", "failed"}, fresh : BOOLEAN,
                           retried : BOOLEAN]]
    /\ isRefreshing \in BOOLEAN
    /\ renewal \subseteq [by : Calls, answer : {"none", "ok", "refused"}]

-----------------------------------------------------------------------------
(* The account                                                              *)

Unused(s) == session[s] = "none" /\ \A u \in 1 .. s - 1 : session[u] # "none"

(* loginInstitution compares the password, then issues the pair.            *)
LoginChecked ==
    /\ Cardinality({s \in Sessions : session[s] = "none"}) > entering
    /\ entering' = entering + 1
    /\ UNCHANGED <<session, otp, reset, tabVars>>

IssueTokenPair(s) ==
    /\ entering > 0 /\ Unused(s)
    /\ entering' = entering - 1
    /\ session' = [session EXCEPT ![s] = "valid"]
    /\ cookie' = [session |-> s, fresh |-> TRUE]
    /\ UNCHANGED <<otp, reset, call, isRefreshing, renewal>>

Revoked(from) == [s \in Sessions |-> IF s \in from /\ session[s] = "valid" THEN "revoked"
                                     ELSE session[s]]

Logout ==
    /\ cookie.session # 0
    /\ session' = Revoked({cookie.session})
    /\ cookie' = [session |-> 0, fresh |-> FALSE]
    /\ UNCHANGED <<entering, otp, reset, call, isRefreshing, renewal>>

SessionExpires(s) ==
    /\ session[s] = "valid" /\ session' = [session EXCEPT ![s] = "expired"]
    /\ UNCHANGED <<entering, otp, reset, tabVars>>

RequestPasswordReset ==
    /\ otp = "none" /\ otp' = "valid"
    /\ UNCHANGED <<session, entering, reset, tabVars>>

(* resetPassword: the code is checked; then the password, the code and the  *)
(* sessions are three writes, between which the process may stop.           *)
ResetStep(r, from, to) ==
    /\ reset[r].at = from
    /\ reset' = [reset EXCEPT ![r] = [at |-> to, found |-> IF from = "idle"
                                        THEN {s \in Sessions : session[s] = "valid"}
                                        ELSE @.found]]
    /\ UNCHANGED <<entering, tabVars>>

ResetChecked(r) == otp = "valid" /\ ResetStep(r, "idle", "checked") /\ UNCHANGED <<session, otp>>
UpdateMemberPassword(r) == ResetStep(r, "checked", "changed") /\ UNCHANGED <<session, otp>>
MarkOtpUsed(r) == ResetStep(r, "changed", "used") /\ otp' = "used" /\ UNCHANGED session
(* Fault: only the session of the tab is revoked.                           *)
RevokeOneToken(r) ==
    ResetStep(r, "used", "done") /\ session' = Revoked({cookie.session}) /\ UNCHANGED otp

RevokeAllMemberTokens(r) == ResetStep(r, "used", "done") /\ session' = Revoked(Sessions) /\ UNCHANGED otp

ResetAborted(r) ==
    /\ reset[r].at \in {"checked", "changed", "used"}
    /\ reset' = [reset EXCEPT ![r] = [at |-> "idle", found |-> {}]]
    /\ UNCHANGED <<session, entering, otp, tabVars>>

AccountNext ==
    \/ LoginChecked \/ Logout \/ RequestPasswordReset
    \/ \E s \in Sessions : IssueTokenPair(s) \/ SessionExpires(s)
    \/ \E r \in Resets :
         \/ ResetChecked(r) \/ UpdateMemberPassword(r) \/ MarkOtpUsed(r)
         \/ RevokeAllMemberTokens(r) \/ ResetAborted(r)

-----------------------------------------------------------------------------
(* The tab                                                                  *)

AccessExpires ==
    /\ cookie.fresh /\ cookie' = [cookie EXCEPT !.fresh = FALSE]
    /\ UNCHANGED <<accountVars, call, isRefreshing, renewal>>

Sent(q, retried) == [at |-> "sent", fresh |-> cookie.fresh, retried |-> retried]

SendCall(q) ==
    /\ call[q] = NoCall /\ call' = [call EXCEPT ![q] = Sent(q, FALSE)]
    /\ UNCHANGED <<accountVars, cookie, isRefreshing, renewal>>

(* The server answers, or the call fails for another reason.                *)
CallSettles(q) ==
    /\ call[q].at = "sent"
    /\ call' = [call EXCEPT ![q].at = IF call[q].fresh THEN "ok" ELSE "failed"]
    /\ call[q].fresh \/ call[q].retried
    /\ UNCHANGED <<accountVars, cookie, isRefreshing, renewal>>

CallFails(q) ==
    /\ call[q].at = "sent" /\ call' = [call EXCEPT ![q].at = "failed"]
    /\ UNCHANGED <<accountVars, cookie, isRefreshing, renewal>>

(* A first 401: wait for the refresh in flight, or start one.               *)
Unauthorized(q) ==
    /\ call[q].at = "sent" /\ ~call[q].fresh /\ ~call[q].retried
    /\ call' = [call EXCEPT ![q] = [@ EXCEPT !.at = "queued", !.retried = TRUE]]
    /\ IF isRefreshing THEN UNCHANGED <<isRefreshing, renewal>>
       ELSE isRefreshing' = TRUE /\ renewal' = renewal \cup {[by |-> q, answer |-> "none"]}
    /\ UNCHANGED <<accountVars, cookie>>

(* refreshAccessToken: the row must be valid; if not, cookies are cleared.  *)
RefreshAccessToken(w) ==
    /\ w \in renewal /\ w.answer = "none"
    /\ LET valid == cookie.session # 0 /\ session[cookie.session] = "valid" IN
         /\ cookie' = IF valid THEN [cookie EXCEPT !.fresh = TRUE]
                      ELSE [session |-> 0, fresh |-> FALSE]
         /\ renewal' = (renewal \ {w}) \cup {[w EXCEPT !.answer = IF valid THEN "ok" ELSE "refused"]}
    /\ UNCHANGED <<accountVars, call, isRefreshing>>

(* The call of /auth/refresh itself fails.                                  *)
RefreshLost(w) ==
    /\ w \in renewal /\ w.answer = "none"
    /\ renewal' = (renewal \ {w}) \cup {[w EXCEPT !.answer = "refused"]}
    /\ UNCHANGED <<accountVars, cookie, call, isRefreshing>>

(* Fault: on failure only the call that started the refresh is told.        *)
OnRefreshFailedAlone(w) ==
    /\ w \in renewal /\ w.answer # "none"
    /\ isRefreshing' = FALSE /\ renewal' = renewal \ {w}
    /\ call' = [q \in Calls |-> IF call[q].at # "queued" THEN call[q]
                                ELSE IF w.answer = "ok" THEN Sent(q, TRUE)
                                ELSE IF q = w.by THEN [call[q] EXCEPT !.at = "failed"]
                                ELSE call[q]]
    /\ UNCHANGED <<accountVars, cookie>>

(* onRefreshComplete: whoever waits is sent again, or told of the failure.  *)
OnRefreshComplete(w) ==
    /\ w \in renewal /\ w.answer # "none"
    /\ isRefreshing' = FALSE /\ renewal' = renewal \ {w}
    /\ call' = [q \in Calls |-> IF call[q].at # "queued" THEN call[q]
                                ELSE IF w.answer = "ok" THEN Sent(q, TRUE)
                                ELSE [call[q] EXCEPT !.at = "failed"]]
    /\ UNCHANGED <<accountVars, cookie>>

TabNext ==
    \/ AccessExpires
    \/ \E q \in Calls : SendCall(q) \/ CallSettles(q) \/ CallFails(q) \/ Unauthorized(q)
    \/ \E w \in renewal : RefreshAccessToken(w) \/ RefreshLost(w) \/ OnRefreshComplete(w)

SessionNext == AccountNext \/ TabNext

SessionSpec == SessionInit /\ [][SessionNext]_sessionVars

-----------------------------------------------------------------------------
(* Properties                                                               *)

(* api.ts:94: "ensures only ONE refresh call is in flight at a time", even   *)
(* when calls sent before a refresh are refused after it.                   *)
OneRefresh == Cardinality(renewal) <= 1

(* Every call of the tab ends, whether its token, the refresh or the        *)
(* session it waits for expires, fails or is revoked meanwhile.             *)
CallsSettle == \A q \in Calls : call[q].at = "sent" ~> call[q].at \in {"ok", "failed"}

(* auth.service.ts:107, "force logout everywhere": when a reset has ended,   *)
(* no session it found is left, whatever logins, logouts and other resets   *)
(* ran beside it.                                                           *)
ResetEndsSessions ==
    \A r \in Resets : reset[r].at = "done" => \A s \in reset[r].found : session[s] # "valid"
=============================================================================
