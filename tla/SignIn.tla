-------------------------------- MODULE SignIn --------------------------------
(***************************************************************************)
(* How a citizen comes to a session: the wallet's signature over a nonce,   *)
(* or, for the owner of a vehicle who passed KYC, the Aadhaar number. One   *)
(* browser, whose windows share the cookies and the wallet, and each shows  *)
(* the user it last asked for. A login may be delivered to the server more  *)
(* than once. Institutions, and the calls that wait for one refresh, are in *)
(* Session; an attempt here renews by itself.                               *)
(***************************************************************************)
EXTENDS Integers, Sequences

CONSTANTS
    Accounts,   \* the wallet's accounts, each a citizen
    Nobody,     \* no account, no user
    Windows,    \* the browser's windows
    MaxNonces,  \* bound: nonces issued
    MaxOpened   \* bound: sessions opened

ASSUME SignInAssumption ==
    MaxNonces \in Nat /\ MaxOpened \in Nat /\ Nobody \notin Accounts

VARIABLES
    account,      \* useAccount: the account selected in the wallet
    nonceCookie,  \* the nonce in the browser's SIWE cookie, or 0
    issued,       \* how many nonces there are
    lapsed,       \* those whose token is past its five minutes
    attempt,      \* of each window
    opened,       \* RefreshToken rows of citizens, in order
    ended,        \* those revoked or expired
    jar,          \* the session whose cookies the browser has, or 0
    user,         \* UserContext: whom each window takes for signed in
    verified, checking,  \* User.isVerified, and KYC calls between check and write
    holder        \* VehicleOwnership of one vehicle, while it is active

serverVars == <<issued, lapsed, opened, ended, verified, checking, holder>>
browserVars == <<account, nonceCookie, attempt, jar, user>>
signInVars == <<serverVars, browserVars>>

Opened == DOMAIN opened
Citizens == Accounts \cup {Nobody}

(* address  the wallet the message names, or the owner that was found       *)
(* nonce    the nonce in the message; 0: by Aadhaar                         *)
(* signer   the account the wallet signs with                               *)
(* carried  the nonce cookie of the request; once granted or leaving, the   *)
(*          session                                                         *)
(* retried  _isRetry                                                        *)
Idle == [at |-> "idle", address |-> Nobody, nonce |-> 0, signer |-> Nobody, carried |-> 0,
         retried |-> FALSE]

Steps == {"idle", "asked", "answered", "signing", "sent", "looking", "found", "granted", "denied",
          "refused", "renewing", "in", "leaving"}

SignInInit ==
    /\ account = Nobody /\ nonceCookie = 0 /\ issued = 0 /\ lapsed = {}
    /\ attempt = [w \in Windows |-> Idle]
    /\ opened = <<>> /\ ended = {} /\ jar = 0
    /\ user = [w \in Windows |-> Nobody]
    /\ verified = {} /\ checking = {} /\ holder = Nobody

SignInTypeOK ==
    /\ account \in Citizens /\ holder \in Citizens
    /\ issued \in 0 .. MaxNonces /\ nonceCookie \in 0 .. issued /\ lapsed \subseteq 1 .. issued
    /\ attempt \in [Windows -> [at : Steps, address : Citizens, nonce : 0 .. MaxNonces,
                                signer : Citizens, carried : 0 .. MaxNonces + MaxOpened,
                                retried : BOOLEAN]]
    /\ opened \in Seq([user : Accounts, signer : Citizens, nonce : 0 .. MaxNonces,
                       again : BOOLEAN])
    /\ Len(opened) <= MaxOpened
    /\ ended \subseteq Opened /\ jar \in Opened \cup {0}
    /\ user \in [Windows -> Citizens]
    /\ verified \subseteq Accounts /\ checking \subseteq Accounts

Goes(w, to) == attempt' = [attempt EXCEPT ![w] = to]

-----------------------------------------------------------------------------
(* What a window offers                                                     *)

(* isAuthenticated; a session by Aadhaar also counts while the wallet has   *)
(* the citizen's account selected.                                          *)
Authenticated(w) == account # Nobody /\ user[w] = account

SignInOffered(w) == account # Nobody /\ ~Authenticated(w) /\ attempt[w] = Idle

(* RequireB2CAuth                                                           *)
Admitted(w) == user[w] # Nobody

SwitchAccount(a) ==
    /\ a # account /\ account' = a
    /\ UNCHANGED <<serverVars, nonceCookie, attempt, jar, user>>

-----------------------------------------------------------------------------
(* By wallet                                                                *)

HandleSignIn(w) ==
    /\ SignInOffered(w)
    /\ Goes(w, [Idle EXCEPT !.at = "asked", !.address = account])
    /\ UNCHANGED <<serverVars, account, nonceCookie, jar, user>>

GetNonce(w) ==
    /\ attempt[w].at = "asked" /\ issued < MaxNonces
    /\ issued' = issued + 1
    /\ Goes(w, [attempt[w] EXCEPT !.at = "answered", !.nonce = issued + 1])
    /\ UNCHANGED <<lapsed, opened, ended, verified, checking, holder, account, nonceCookie, jar,
                   user>>

NonceLapses(n) ==
    /\ n \notin lapsed /\ lapsed' = lapsed \cup {n}
    /\ UNCHANGED <<issued, opened, ended, verified, checking, holder, browserVars>>

(* The answer sets the cookie, whatever nonce another window has there, and *)
(* the wallet is asked to sign with the account selected by now.            *)
AskSignature(w) ==
    /\ attempt[w].at = "answered"
    /\ nonceCookie' = attempt[w].nonce
    /\ Goes(w, IF account = Nobody THEN Idle
               ELSE [attempt[w] EXCEPT !.at = "signing", !.signer = account])
    /\ UNCHANGED <<serverVars, account, jar, user>>

(* Signed: the request carries the cookie of this moment.                   *)
SendLogin(w) ==
    /\ attempt[w].at = "signing"
    /\ Goes(w, [attempt[w] EXCEPT !.at = "sent", !.carried = nonceCookie])
    /\ UNCHANGED <<serverVars, account, nonceCookie, jar, user>>

(* again  whether the request had opened a session before (a history field)  *)
Open(c, a, n, again) ==
    opened' = Append(opened, [user |-> c, signer |-> a, nonce |-> n, again |-> again])

NonceHolds(n) == n # 0 /\ n \notin lapsed

(* Fault: the address recovered is not compared with the one claimed.       *)
SignatureHoldsForAnyone(w) == attempt[w].carried = attempt[w].nonce

SignatureHolds(w) ==
    attempt[w].signer = attempt[w].address /\ attempt[w].carried = attempt[w].nonce

LoginCitizen(w) ==
    /\ attempt[w].at = "sent" /\ NonceHolds(attempt[w].carried) /\ SignatureHolds(w)
    /\ Len(opened) < MaxOpened
    /\ Open(attempt[w].address, attempt[w].signer, attempt[w].nonce, FALSE)
    /\ Goes(w, [attempt[w] EXCEPT !.at = "granted", !.carried = Len(opened) + 1])
    /\ UNCHANGED <<issued, lapsed, ended, verified, checking, holder, account, nonceCookie, jar,
                   user>>

(* 401 before the nonce cookie is cleared.                                  *)
NonceRefused(w) ==
    /\ attempt[w].at = "sent" /\ ~NonceHolds(attempt[w].carried)
    /\ Goes(w, [attempt[w] EXCEPT !.at = "refused"])
    /\ UNCHANGED <<serverVars, account, nonceCookie, jar, user>>

LoginDenied(w) ==
    /\ attempt[w].at = "sent" /\ NonceHolds(attempt[w].carried) /\ ~SignatureHolds(w)
    /\ Goes(w, [attempt[w] EXCEPT !.at = "denied"])
    /\ UNCHANGED <<serverVars, account, nonceCookie, jar, user>>

(* The database fails, with the row stored or not: also a 401, since        *)
(* loginCitizen turns every error into one.                                 *)
LoginBreaks(w) ==
    /\ attempt[w].at = "sent" /\ NonceHolds(attempt[w].carried) /\ SignatureHolds(w)
    /\ \/ UNCHANGED opened
       \/ /\ Len(opened) < MaxOpened
          /\ Open(attempt[w].address, attempt[w].signer, attempt[w].nonce, FALSE)
    /\ Goes(w, [attempt[w] EXCEPT !.at = "denied"])
    /\ UNCHANGED <<issued, lapsed, ended, verified, checking, holder, account, nonceCookie, jar,
                   user>>

(* A request that opened session s is delivered again: the nonce's token is *)
(* all the server checks and it keeps no record of it, so it opens another. *)
(* The answer may be one the browser no longer waits for, or the one it     *)
(* takes its cookies from.                                                  *)
LoginCitizenAgain(s) ==
    /\ NonceHolds(opened[s].nonce) /\ Len(opened) < MaxOpened
    /\ Open(opened[s].user, opened[s].signer, opened[s].nonce, TRUE)
    /\ \/ UNCHANGED <<nonceCookie, jar>>
       \/ nonceCookie' = 0 /\ jar' = Len(opened) + 1
    /\ UNCHANGED <<issued, lapsed, ended, verified, checking, holder, account, attempt, user>>

-----------------------------------------------------------------------------
(* By Aadhaar                                                               *)

HandleSubmit(w) ==
    /\ attempt[w] = Idle
    /\ Goes(w, [Idle EXCEPT !.at = "looking"])
    /\ UNCHANGED <<serverVars, account, nonceCookie, jar, user>>

FindOwnership(w) ==
    /\ attempt[w].at = "looking"
    /\ Goes(w, IF holder = Nobody THEN [attempt[w] EXCEPT !.at = "refused"]
               ELSE [attempt[w] EXCEPT !.at = "found", !.address = holder])
    /\ UNCHANGED <<serverVars, account, nonceCookie, jar, user>>

LoginCitizenAadhaar(w) ==
    /\ attempt[w].at = "found" /\ attempt[w].address \in verified /\ Len(opened) < MaxOpened
    /\ Open(attempt[w].address, Nobody, 0, FALSE)
    /\ Goes(w, [attempt[w] EXCEPT !.at = "granted", !.carried = Len(opened) + 1])
    /\ UNCHANGED <<issued, lapsed, ended, verified, checking, holder, account, nonceCookie, jar,
                   user>>

NotVerified(w) ==
    /\ attempt[w].at = "found" /\ attempt[w].address \notin verified
    /\ Goes(w, [attempt[w] EXCEPT !.at = "refused"])
    /\ UNCHANGED <<serverVars, account, nonceCookie, jar, user>>

-----------------------------------------------------------------------------
(* Answers                                                                  *)

SetCookies(w) ==
    /\ attempt[w].at = "granted"
    /\ jar' = attempt[w].carried
    /\ nonceCookie' = IF attempt[w].nonce # 0 THEN 0 ELSE nonceCookie
    /\ Goes(w, [Idle EXCEPT !.at = "in"])
    /\ UNCHANGED <<serverVars, account, user>>

(* A 401; the interceptor takes the first for an expired access token.      *)
ClearNonce(w) ==
    /\ attempt[w].at \in {"denied", "refused"}
    /\ nonceCookie' = IF attempt[w].at = "denied" THEN 0 ELSE nonceCookie
    /\ Goes(w, IF attempt[w].retried THEN Idle ELSE [attempt[w] EXCEPT !.at = "renewing"])
    /\ UNCHANGED <<serverVars, account, jar, user>>

(* refresh, and the same request again with the cookies of this moment; a   *)
(* session that has ended loses its cookies instead.                        *)
Renew(w) ==
    /\ attempt[w].at = "renewing"
    /\ IF jar # 0 /\ jar \notin ended
       THEN /\ Goes(w, [attempt[w] EXCEPT !.at = IF attempt[w].nonce = 0 THEN "looking"
                                                ELSE "sent",
                                          !.carried = nonceCookie, !.retried = TRUE])
            /\ UNCHANGED jar
       ELSE Goes(w, Idle) /\ jar' = 0
    /\ UNCHANGED <<serverVars, account, nonceCookie, user>>

(* The wallet's owner rejects, or a call gets no answer: a message, and the *)
(* button again.                                                            *)
GiveUp(w) ==
    /\ attempt[w].at \notin {"idle", "leaving"}
    /\ Goes(w, Idle)
    /\ UNCHANGED <<serverVars, account, nonceCookie, jar, user>>

(* getMe, on sign-in, mount or focus: the user of the access token, which   *)
(* outlives its session; nobody, if it has expired and cannot be renewed.   *)
RefetchUser(w) ==
    /\ attempt[w].at \in {"idle", "in"}
    /\ \/ jar # 0 /\ user' = [user EXCEPT ![w] = opened[jar].user] /\ UNCHANGED jar
       \/ jar \in ended \cup {0} /\ user' = [user EXCEPT ![w] = Nobody] /\ jar' = 0
    /\ Goes(w, Idle)
    /\ UNCHANGED <<serverVars, account, nonceCookie>>

-----------------------------------------------------------------------------
(* Leaving, KYC, and the vehicle                                            *)

HandleLogout(w) ==
    /\ Authenticated(w) /\ attempt[w] = Idle
    /\ ended' = ended \cup ({jar} \ {0})
    /\ Goes(w, [Idle EXCEPT !.at = "leaving", !.carried = jar])
    /\ UNCHANGED <<issued, lapsed, opened, verified, checking, holder, account, nonceCookie, jar,
                   user>>

(* Answered or not, the window is loaded anew and the wallet disconnected.  *)
LoggedOut(w) ==
    /\ attempt[w].at = "leaving"
    /\ jar' \in {jar, IF attempt[w].carried = 0 THEN jar ELSE 0}
    /\ user' = [user EXCEPT ![w] = Nobody] /\ account' = Nobody
    /\ Goes(w, Idle)
    /\ UNCHANGED <<serverVars, nonceCookie>>

SessionEnds(s) ==
    /\ s \notin ended /\ ended' = ended \cup {s}
    /\ UNCHANGED <<issued, lapsed, opened, verified, checking, holder, browserVars>>

(* verifyKyc, by whoever the cookies say it is; a row already verified is   *)
(* refused.                                                                 *)
VerifyKyc(w) ==
    /\ Admitted(w) /\ jar # 0 /\ opened[jar].user \notin verified
    /\ checking' = checking \cup {opened[jar].user}
    /\ UNCHANGED <<issued, lapsed, opened, ended, verified, holder, browserVars>>

VerifyCitizenProfile(c) ==
    /\ c \in checking
    /\ checking' = checking \ {c} /\ verified' \in {verified, verified \cup {c}}
    /\ UNCHANGED <<issued, lapsed, opened, ended, holder, browserVars>>

VehicleChangesHands(c) ==
    /\ c # holder /\ holder' = c
    /\ UNCHANGED <<issued, lapsed, opened, ended, verified, checking, browserVars>>

SignInNext ==
    \/ \E c \in Citizens : SwitchAccount(c) \/ VehicleChangesHands(c) \/ VerifyCitizenProfile(c)
    \/ \E n \in 1 .. issued : NonceLapses(n)
    \/ \E s \in Opened : SessionEnds(s) \/ LoginCitizenAgain(s)
    \/ \E w \in Windows :
         \/ HandleSignIn(w) \/ GetNonce(w) \/ AskSignature(w) \/ SendLogin(w)
         \/ LoginCitizen(w) \/ NonceRefused(w) \/ LoginDenied(w) \/ LoginBreaks(w)
         \/ HandleSubmit(w) \/ FindOwnership(w) \/ LoginCitizenAadhaar(w) \/ NotVerified(w)
         \/ SetCookies(w) \/ ClearNonce(w) \/ Renew(w) \/ GiveUp(w) \/ RefetchUser(w)
         \/ HandleLogout(w) \/ LoggedOut(w) \/ VerifyKyc(w)

SignInSpec == SignInInit /\ [][SignInNext]_signInVars

-----------------------------------------------------------------------------
(* Properties                                                               *)

(* The sessions opened on one nonce are one citizen's, and what the browser *)
(* does by itself, sending again a login that was refused, opens one: only a *)
(* request delivered again opens more, while the nonce lasts. And every     *)
(* session goes back to a signature of its citizen, one by Aadhaar through  *)
(* the KYC of an earlier session, whichever accounts, windows and owners    *)
(* changed while the requests were on their way. (auth.controller.ts:106    *)
(* promises more, "it must be one-time use!".)                              *)
SessionsRestOnSignatures ==
    /\ \A r, s \in Opened :
         opened[r].nonce # 0 /\ opened[r].nonce = opened[s].nonce =>
            /\ opened[r].user = opened[s].user
            /\ r = s \/ opened[r].again \/ opened[s].again
    /\ \A s \in Opened : \E r \in 1 .. s :
         opened[r].nonce # 0 /\ opened[r].signer = opened[s].user
         /\ opened[r].user = opened[s].user
=============================================================================
