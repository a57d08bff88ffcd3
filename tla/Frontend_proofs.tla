---------------------------- MODULE Frontend_proofs ----------------------------
(***************************************************************************)
(* Proofs about the front end: the sign-in of citizens, for any accounts,   *)
(* windows, nonces and sessions, and the cache, where every hook tells it   *)
(* of what its mutation changed on its user's pages, or the pair is listed  *)
(* in Unnoticed, so that, for any number of writes, fetches, failures and   *)
(* notices, a user sees the changes that user made.                         *)
(***************************************************************************)
EXTENDS SignIn, Portal, FiniteSetTheorems, TLAPS

-----------------------------------------------------------------------------
(* SIGN-IN                                                                  *)

Used(n) == \E s \in Opened : opened[s].nonce = n

(* A citizen who has signed for a session of their own.                     *)
Signed(c) ==
    \E s \in Opened : opened[s].nonce # 0 /\ opened[s].signer = c /\ opened[s].user = c

(* A nonce belongs to one window's attempt, and the window does not send one *)
(* that opened a session again: while the answer is a refusal, the cookie of that *)
(* nonce is cleared before the request is sent again.                       *)
NoncesApart ==
    /\ \A s \in Opened : opened[s].nonce <= issued
    /\ \A v, w \in Windows : attempt[w].nonce # 0 /\ attempt[v].nonce = attempt[w].nonce => v = w

AttemptSound(w) ==
    /\ attempt[w].nonce <= issued
    /\ attempt[w].at = "asked" \/ attempt[w].nonce # 0 => attempt[w].address \in Accounts
    /\ attempt[w].at = "granted" => attempt[w].carried \in Opened
    /\ attempt[w].at \in {"looking", "found"} => attempt[w].nonce = 0
    /\ attempt[w].nonce # 0 /\ Used(attempt[w].nonce) =>
         \/ attempt[w].at \in {"granted", "denied"}
         \/ /\ attempt[w].at \in {"refused", "renewing", "sent"}
            /\ nonceCookie # attempt[w].nonce
            /\ attempt[w].at = "sent" => attempt[w].carried # attempt[w].nonce

SignInInv ==
    /\ SignInTypeOK /\ NoncesApart /\ \A w \in Windows : AttemptSound(w)
    /\ \A c \in verified \cup checking : Signed(c)
    /\ SessionsRestOnSignatures

Attempts == [at : Steps, address : Citizens, nonce : 0 .. MaxNonces, signer : Citizens,
             carried : 0 .. MaxNonces + MaxOpened, retried : BOOLEAN]
OpenedRows == [user : Accounts, signer : Citizens, nonce : 0 .. MaxNonces, again : BOOLEAN]

LEMMA SignInTyping ==
    SignInTypeOK <=>
      /\ account \in Citizens /\ holder \in Citizens
      /\ issued \in 0 .. MaxNonces /\ nonceCookie \in 0 .. issued /\ lapsed \subseteq 1 .. issued
      /\ attempt \in [Windows -> Attempts]
      /\ opened \in Seq(OpenedRows) /\ Len(opened) <= MaxOpened
      /\ ended \subseteq Opened /\ jar \in Opened \cup {0}
      /\ user \in [Windows -> Citizens]
      /\ verified \subseteq Accounts /\ checking \subseteq Accounts
BY DEF SignInTypeOK, Attempts, OpenedRows

LEMMA OpenedNumbers ==
    ASSUME SignInTypeOK
    PROVE  /\ Opened = 1 .. Len(opened) /\ Len(opened) \in Nat
           /\ \A s \in Opened : opened[s] \in OpenedRows
BY SignInTyping DEF Opened

LEMMA IdleTyped == Idle \in Attempts
BY SignInAssumption DEF Idle, Attempts, Steps, Citizens

(* A step of one window that opens no session.                              *)
LEMMA AttemptMoves ==
    ASSUME SignInInv, NEW w \in Windows, NEW x \in Attempts, attempt' = [attempt EXCEPT ![w] = x],
           opened' = opened, issued' = issued,
           nonceCookie' \in {nonceCookie, 0, attempt[w].nonce},
           x.nonce \in {0, attempt[w].nonce}, AttemptSound(w)',
           jar' \in Opened \cup {0}, account' \in Citizens, user' \in [Windows -> Citizens],
           ended' \subseteq Opened,
           lapsed' = lapsed, verified' = verified, checking' = checking, holder' = holder
    PROVE  SignInInv'
<1>1. /\ attempt \in [Windows -> Attempts] /\ SignInTypeOK
      /\ attempt' \in [Windows -> Attempts] /\ attempt'[w] = x
      /\ \A v \in Windows \ {w} : attempt'[v] = attempt[v]
  BY SignInTyping DEF SignInInv
<1>2. /\ attempt[w].nonce \in 0 .. issued /\ issued \in Nat /\ nonceCookie \in 0 .. issued
  BY <1>1, SignInTyping, SignInAssumption DEF SignInInv, AttemptSound, Attempts
<1>3. SignInTypeOK'
  <2>1. nonceCookie' \in 0 .. issued'
    BY <1>2
  <2>2. Opened' = Opened
    BY DEF Opened
  <2> QED
    BY <1>1, <2>1, <2>2, SignInTyping DEF SignInTypeOK, Attempts
<1>4. NoncesApart'
  <2>1. \A s \in Opened' : opened'[s].nonce <= issued'
    BY DEF SignInInv, NoncesApart, Opened
  <2>2. \A v, u \in Windows :
          attempt'[u].nonce # 0 /\ attempt'[v].nonce = attempt'[u].nonce => v = u
    BY <1>1 DEF SignInInv, NoncesApart
  <2> QED
    BY <2>1, <2>2 DEF NoncesApart
<1>5. ASSUME NEW v \in Windows PROVE AttemptSound(v)'
  <2>1. CASE v = w
    BY <2>1
  <2>2. CASE v # w
    <3>1. AttemptSound(v) /\ attempt'[v] = attempt[v]
      BY <1>1, <2>2 DEF SignInInv
    <3>2. attempt[v].nonce # 0 /\ nonceCookie # attempt[v].nonce => nonceCookie' # attempt[v].nonce
      BY <2>2 DEF SignInInv, NoncesApart
    <3>3. Opened' = Opened /\ Used(attempt[v].nonce)' = Used(attempt[v].nonce)
      BY <3>1 DEF Opened, Used
    <3> QED
      BY <3>1, <3>2, <3>3 DEF AttemptSound, Used, Opened
  <2> QED
    BY <2>1, <2>2
<1>6. (\A c \in verified \cup checking : Signed(c))' /\ SessionsRestOnSignatures'
  BY DEF SignInInv, Signed, Opened, SessionsRestOnSignatures
<1> QED
  BY <1>3, <1>4, <1>5, <1>6 DEF SignInInv

(* A step that leaves attempts, nonces and sessions as they are.            *)
LEMMA AttemptsRest ==
    ASSUME SignInInv, attempt' = attempt, opened' = opened, issued' = issued,
           nonceCookie' = nonceCookie, jar' = jar, user' = user,
           account' \in Citizens, holder' \in Citizens, ended' \subseteq Opened,
           lapsed' \subseteq 1 .. issued,
           verified' \subseteq Accounts, checking' \subseteq Accounts,
           \A c \in verified' \cup checking' : Signed(c)
    PROVE  SignInInv'
<1>1. Opened' = Opened /\ SignInTypeOK
  BY DEF SignInInv, Opened
<1>2. SignInTypeOK'
  BY <1>1 DEF SignInTypeOK
<1>3. NoncesApart' /\ SessionsRestOnSignatures'
  BY <1>1 DEF SignInInv, NoncesApart, SessionsRestOnSignatures
<1>4. \A w \in Windows : AttemptSound(w)'
  BY <1>1 DEF SignInInv, AttemptSound, Used
<1>5. (\A c \in verified \cup checking : Signed(c))'
  BY <1>1 DEF Signed
<1> QED
  BY <1>2, <1>3, <1>4, <1>5 DEF SignInInv

(* The row of a session: opened by a nonce no session has yet and its        *)
(* citizen's signature, for a citizen who has signed before, or by the      *)
(* request of an earlier session, delivered again.                          *)
LEMMA SessionRow ==
    ASSUME SignInInv, NEW c \in Accounts, NEW a \in Citizens, NEW n \in 0 .. MaxNonces,
           NEW again \in BOOLEAN, Open(c, a, n, again),
           \/ n = 0 /\ Signed(c)
           \/ n # 0 /\ a = c /\ ~Used(n)
           \/ /\ n # 0 /\ again
              /\ \E q \in Opened : opened[q].nonce = n /\ opened[q].user = c
    PROVE  /\ opened' \in Seq(OpenedRows) /\ Len(opened') = Len(opened) + 1
           /\ Opened' = Opened \cup {Len(opened) + 1}
           /\ opened'[Len(opened) + 1].nonce = n
           /\ \A s \in Opened : opened'[s] = opened[s]
           /\ \A m : Used(m)' <=> Used(m) \/ m = n
           /\ \A d : Signed(d) => Signed(d)'
           /\ SessionsRestOnSignatures'
<1> DEFINE last == Len(opened) + 1
           row == [user |-> c, signer |-> a, nonce |-> n, again |-> again]
<1>1. /\ opened \in Seq(OpenedRows)
      /\ Opened = 1 .. Len(opened) /\ Len(opened) \in Nat
  BY OpenedNumbers, SignInTyping DEF SignInInv
<1>2. row \in OpenedRows /\ opened' = Append(opened, row)
  BY DEF Open, OpenedRows
<1>3. /\ opened' \in Seq(OpenedRows) /\ Len(opened') = last
      /\ Opened' = 1 .. last /\ opened'[last] = row
      /\ \A s \in Opened : opened'[s] = opened[s]
  BY <1>1, <1>2 DEF Opened
<1>4. last \in Opened' /\ Opened' = Opened \cup {last} /\ last \notin Opened
  BY <1>1, <1>3
<1>5. row.user = c /\ row.signer = a /\ row.nonce = n /\ row.again = again
  OBVIOUS
<1> HIDE DEF last, row
<1>6. ASSUME NEW m PROVE Used(m)' <=> Used(m) \/ m = n
  BY <1>3, <1>4, <1>5 DEF Used
<1>7. ASSUME NEW d, Signed(d) PROVE Signed(d)'
  BY <1>3, <1>4, <1>7 DEF Signed
<1>8. ASSUME NEW r \in Opened, opened[r].nonce # 0, opened[r].nonce = n
      PROVE  again /\ opened[r].user = c
  <2>1. Used(n)
    BY <1>8 DEF Used
  <2>2. PICK q \in Opened : opened[q].nonce = n /\ opened[q].user = c /\ again
    BY <1>8, <2>1
  <2> QED
    BY <1>8, <2>2 DEF SignInInv, SessionsRestOnSignatures
<1>9. ASSUME NEW r \in Opened', NEW s \in Opened',
             opened'[r].nonce # 0, opened'[r].nonce = opened'[s].nonce
      PROVE  /\ opened'[r].user = opened'[s].user
             /\ r = s \/ opened'[r].again \/ opened'[s].again
  <2>1. CASE r \in Opened /\ s \in Opened
    BY <1>3, <1>9, <2>1 DEF SignInInv, SessionsRestOnSignatures
  <2>2. CASE r \in Opened /\ s = last
    BY <1>3, <1>5, <1>8, <1>9, <2>2
  <2>3. CASE r = last /\ s \in Opened
    BY <1>3, <1>5, <1>8, <1>9, <2>3
  <2> QED
    BY <1>4, <2>1, <2>2, <2>3
<1>10. ASSUME NEW s \in Opened'
       PROVE  \E r \in 1 .. s : opened'[r].nonce # 0 /\ opened'[r].signer = opened'[s].user
                                /\ opened'[r].user = opened'[s].user
  <2>1. ASSUME NEW q \in Opened, opened[q].user = opened'[s].user, q <= s
        PROVE  \E r \in 1 .. s : opened'[r].nonce # 0 /\ opened'[r].signer = opened'[s].user
                                 /\ opened'[r].user = opened'[s].user
    <3>1. PICK r \in 1 .. q : opened[r].nonce # 0 /\ opened[r].signer = opened[q].user
                              /\ opened[r].user = opened[q].user
      BY DEF SignInInv, SessionsRestOnSignatures
    <3>2. r \in Opened /\ r \in 1 .. s
      BY <1>1, <1>3, <2>1, <3>1 DEF last
    <3> QED
      BY <1>3, <2>1, <3>1, <3>2
  <2>2. CASE s \in Opened
    BY <1>1, <1>3, <2>1, <2>2
  <2>3. CASE s = last /\ n = 0
    <3>1. PICK r \in Opened : opened[r].nonce # 0 /\ opened[r].signer = c /\ opened[r].user = c
      BY <2>3 DEF Signed
    <3>2. r \in 1 .. s
      BY <1>1, <2>3 DEF last
    <3> QED
      BY <1>3, <1>5, <2>3, <3>1, <3>2
  <2>4. CASE s = last /\ n # 0 /\ a = c
    <3>1. s \in 1 .. s
      BY <1>1, <2>4 DEF last
    <3> QED
      BY <1>3, <1>5, <2>4, <3>1
  <2>5. CASE s = last /\ n # 0 /\ \E q \in Opened : opened[q].nonce = n /\ opened[q].user = c
    <3>1. PICK q \in Opened : opened[q].user = c
      BY <2>5
    <3>2. q <= s
      BY <1>1, <2>5, <3>1 DEF last
    <3> QED
      BY <1>3, <1>5, <2>1, <2>5, <3>1, <3>2
  <2> QED
    BY <1>4, <2>2, <2>3, <2>4, <2>5
<1>11. SessionsRestOnSignatures'
  BY <1>9, <1>10 DEF SessionsRestOnSignatures
<1> QED
  BY <1>3, <1>4, <1>5, <1>6, <1>7, <1>11 DEF last

(* A session is opened for the attempt of a window.                         *)
LEMMA SessionOpens ==
    ASSUME SignInInv, NEW w \in Windows, NEW c \in Accounts, NEW a \in Citizens,
           NEW n \in 0 .. MaxNonces, Len(opened) < MaxOpened, Open(c, a, n, FALSE),
           NEW x \in Attempts, attempt' = [attempt EXCEPT ![w] = x],
           x.nonce = attempt[w].nonce, x.address = attempt[w].address,
           x.at \in {"granted", "denied"}, x.at = "granted" => x.carried = Len(opened) + 1,
           \/ n = 0 /\ Signed(c)
           \/ n # 0 /\ a = c /\ n = attempt[w].nonce /\ ~Used(n),
           UNCHANGED <<issued, lapsed, ended, verified, checking, holder, account, nonceCookie,
                       jar, user>>
    PROVE  SignInInv'
<1> DEFINE last == Len(opened) + 1
<1>1. /\ SignInTypeOK /\ attempt \in [Windows -> Attempts]
      /\ Opened = 1 .. Len(opened) /\ Len(opened) \in Nat /\ issued \in Nat
      /\ nonceCookie \in 0 .. issued
  BY OpenedNumbers, SignInTyping, SignInAssumption DEF SignInInv
<1>2. /\ opened' \in Seq(OpenedRows) /\ Len(opened') = last
      /\ Opened' = Opened \cup {last} /\ opened'[last].nonce = n
      /\ \A s \in Opened : opened'[s] = opened[s]
      /\ \A m : Used(m)' <=> Used(m) \/ m = n
      /\ \A d : Signed(d) => Signed(d)'
      /\ SessionsRestOnSignatures'
  BY SessionRow
<1>3. /\ attempt' \in [Windows -> Attempts] /\ attempt'[w] = x
      /\ \A v \in Windows \ {w} : attempt'[v] = attempt[v]
  BY <1>1
<1> HIDE DEF last
<1>4. SignInTypeOK'
  <2>1. Len(opened') <= MaxOpened
    BY <1>1, <1>2, SignInAssumption DEF last
  <2>2. ended' \subseteq Opened' /\ jar' \in Opened' \cup {0}
    BY <1>1, <1>2, SignInTyping
  <2> QED
    BY <1>1, <1>2, <1>3, <2>1, <2>2, SignInTyping DEF SignInTypeOK, Attempts, OpenedRows
<1>5. NoncesApart'
  <2>1. n <= issued
    BY <1>1 DEF SignInInv, AttemptSound
  <2>2. \A s \in Opened' : opened'[s].nonce <= issued'
    BY <1>2, <2>1 DEF SignInInv, NoncesApart
  <2>3. \A v, u \in Windows :
          attempt'[u].nonce # 0 /\ attempt'[v].nonce = attempt'[u].nonce => v = u
    BY <1>3 DEF SignInInv, NoncesApart
  <2> QED
    BY <2>2, <2>3 DEF NoncesApart
<1>6. ASSUME NEW v \in Windows PROVE AttemptSound(v)'
  <2>1. AttemptSound(v)
    BY DEF SignInInv
  <2>2. CASE v = w
    <3>1. /\ attempt'[v].nonce = attempt[v].nonce /\ attempt'[v].address = attempt[v].address
          /\ attempt'[v].at \in {"granted", "denied"}
          /\ attempt'[v].at = "granted" => attempt'[v].carried \in Opened'
      BY <1>2, <1>3, <2>2 DEF last
    <3> QED
      BY <2>1, <3>1 DEF AttemptSound
  <2>3. CASE v # w
    <3>1. attempt'[v] = attempt[v] /\ nonceCookie' = nonceCookie /\ issued' = issued
      BY <1>3, <2>3
    <3>2. attempt[v].nonce # 0 => attempt[v].nonce # n
      BY <2>3 DEF SignInInv, NoncesApart
    <3>3. attempt[v].nonce # 0 /\ Used(attempt[v].nonce)' => Used(attempt[v].nonce)
      BY <1>2, <3>1, <3>2
    <3>4. attempt[v].carried \in Opened => attempt'[v].carried \in Opened'
      BY <1>2, <3>1
    <3> QED
      BY <2>1, <3>1, <3>3, <3>4 DEF AttemptSound, Used
  <2> QED
    BY <2>2, <2>3
<1>7. (\A d \in verified \cup checking : Signed(d))'
  BY <1>2 DEF SignInInv
<1> QED
  BY <1>2, <1>4, <1>5, <1>6, <1>7 DEF SignInInv

(* A request delivered again opens a session no attempt waits for.          *)
LEMMA AgainStep ==
    ASSUME SignInInv, NEW s \in Opened, LoginCitizenAgain(s)
    PROVE  SignInInv'
<1> DEFINE last == Len(opened) + 1
           n == opened[s].nonce
<1>1. /\ SignInTypeOK /\ attempt \in [Windows -> Attempts]
      /\ Len(opened) \in Nat /\ Len(opened) < MaxOpened
      /\ nonceCookie \in 0 .. issued /\ opened[s] \in OpenedRows /\ n # 0 /\ issued \in Nat
  BY OpenedNumbers, SignInTyping, SignInAssumption DEF SignInInv, LoginCitizenAgain, NonceHolds
<1>2. /\ opened[s].user \in Accounts /\ opened[s].signer \in Citizens /\ n \in 0 .. MaxNonces
      /\ Open(opened[s].user, opened[s].signer, n, TRUE)
  BY <1>1 DEF OpenedRows, LoginCitizenAgain
<1>3. /\ opened' \in Seq(OpenedRows) /\ Len(opened') = last
      /\ Opened' = Opened \cup {last} /\ opened'[last].nonce = n
      /\ \A q \in Opened : opened'[q] = opened[q]
      /\ \A m : Used(m)' <=> Used(m) \/ m = n
      /\ \A d : Signed(d) => Signed(d)'
      /\ SessionsRestOnSignatures'
  <2>1. \E q \in Opened : opened[q].nonce = n /\ opened[q].user = opened[s].user
    OBVIOUS
  <2> HIDE DEF n, last
  <2>2. /\ opened' \in Seq(OpenedRows) /\ Len(opened') = Len(opened) + 1
        /\ Opened' = Opened \cup {Len(opened) + 1} /\ opened'[Len(opened) + 1].nonce = n
        /\ \A q \in Opened : opened'[q] = opened[q]
        /\ \A m : Used(m)' <=> Used(m) \/ m = n
        /\ \A d : Signed(d) => Signed(d)'
        /\ SessionsRestOnSignatures'
    BY <1>1, <1>2, <2>1, SessionRow
  <2> QED
    BY <2>2 DEF last
<1>4. \A m : Used(m)' <=> Used(m)
  BY <1>3 DEF Used
<1>5. /\ UNCHANGED <<issued, lapsed, ended, verified, checking, holder, account, attempt, user>>
      /\ nonceCookie' \in {nonceCookie, 0} /\ jar' \in {jar, last}
  BY DEF LoginCitizenAgain
<1> HIDE DEF last, n
<1>6. SignInTypeOK'
  <2>1. Len(opened') <= MaxOpened
    BY <1>1, <1>3, SignInAssumption DEF last
  <2>2. ended' \subseteq Opened' /\ jar' \in Opened' \cup {0}
    BY <1>1, <1>3, <1>5, SignInTyping
  <2>3. nonceCookie' \in 0 .. issued'
    BY <1>1, <1>5
  <2> QED
    BY <1>1, <1>3, <1>5, <2>1, <2>2, <2>3, SignInTyping DEF SignInTypeOK, Attempts, OpenedRows
<1>7. NoncesApart'
  <2>1. \A q \in Opened' : opened'[q].nonce <= issued'
    BY <1>3, <1>5 DEF SignInInv, NoncesApart, n
  <2> QED
    BY <1>5, <2>1 DEF SignInInv, NoncesApart
<1>8. ASSUME NEW v \in Windows PROVE AttemptSound(v)'
  <2>1. AttemptSound(v) /\ attempt'[v] = attempt[v]
    BY <1>5 DEF SignInInv
  <2>2. attempt[v].nonce # 0 /\ nonceCookie # attempt[v].nonce => nonceCookie' # attempt[v].nonce
    BY <1>5
  <2>3. /\ Used(attempt[v].nonce)' <=> Used(attempt[v].nonce)
        /\ attempt[v].carried \in Opened => attempt'[v].carried \in Opened'
        /\ issued' = issued
    BY <1>3, <1>4, <1>5, <2>1
  <2> QED
    BY <2>1, <2>2, <2>3 DEF AttemptSound, Used
<1>9. (\A d \in verified \cup checking : Signed(d))'
  BY <1>3, <1>5 DEF SignInInv
<1> QED
  BY <1>3, <1>6, <1>7, <1>8, <1>9 DEF SignInInv

LEMMA SignInInitially == SignInInit => SignInInv
<1> SUFFICES ASSUME SignInInit PROVE SignInInv
  OBVIOUS
<1>1. SignInTypeOK
  BY SignInAssumption, IdleTyped DEF SignInInit, SignInTypeOK, Attempts, Citizens, Opened
<1>2. NoncesApart /\ \A w \in Windows : AttemptSound(w)
  BY DEF SignInInit, NoncesApart, AttemptSound, Idle, Opened
<1>3. \A c \in verified \cup checking : Signed(c)
  BY DEF SignInInit
<1>4. SessionsRestOnSignatures
  BY DEF SignInInit, SessionsRestOnSignatures, Opened
<1> QED
  BY <1>1, <1>2, <1>3, <1>4 DEF SignInInv

(* What the steps of a window read.                                         *)
LEMMA WindowParts ==
    ASSUME SignInInv, NEW w \in Windows
    PROVE  /\ attempt[w] \in Attempts /\ AttemptSound(w)
           /\ attempt[w].nonce \in 0 .. issued /\ attempt[w].nonce \in 0 .. MaxNonces
           /\ nonceCookie \in 0 .. issued /\ nonceCookie \in 0 .. MaxNonces /\ issued \in 0 .. MaxNonces
           /\ account \in Citizens /\ holder \in Citizens /\ user \in [Windows -> Citizens]
           /\ ended \subseteq Opened /\ jar \in Opened \cup {0}
           /\ Opened = 1 .. Len(opened) /\ Len(opened) \in 0 .. MaxOpened
BY SignInTyping, OpenedNumbers, SignInAssumption DEF SignInInv, AttemptSound, Attempts

(* Steps that only move the attempt on.                                     *)
LEMMA AttemptStep ==
    ASSUME SignInInv, NEW w \in Windows, NEW x \in Attempts, Goes(w, x),
           UNCHANGED <<serverVars, account, jar, user>>,
           nonceCookie' \in {nonceCookie, 0, attempt[w].nonce},
           x.nonce \in {0, attempt[w].nonce}, x.nonce # 0 => x.address = attempt[w].address,
           x.at = "asked" => x.address \in Accounts, x.at # "granted",
           x.at \in {"looking", "found"} => x.nonce = 0,
           x.nonce # 0 /\ Used(x.nonce) =>
             x.at = "denied" \/ (/\ x.at \in {"refused", "renewing", "sent"}
                                 /\ nonceCookie' # x.nonce
                                 /\ x.at = "sent" => x.carried # x.nonce)
    PROVE  SignInInv'
<1>1. /\ attempt[w] \in Attempts /\ AttemptSound(w) /\ attempt[w].nonce \in 0 .. issued
      /\ issued \in 0 .. MaxNonces
      /\ attempt' = [attempt EXCEPT ![w] = x] /\ attempt \in [Windows -> Attempts]
      /\ account \in Citizens /\ user \in [Windows -> Citizens]
      /\ ended \subseteq Opened /\ jar \in Opened \cup {0}
  BY WindowParts, SignInTyping DEF Goes, SignInInv
<1>2. Opened' = Opened /\ (Used(x.nonce)' <=> Used(x.nonce)) /\ attempt'[w] = x
  BY <1>1 DEF Opened, Used, serverVars
<1>3. AttemptSound(w)'
  <2>1. x.nonce <= issued'
    BY <1>1, SignInAssumption DEF serverVars
  <2>2. x.at = "asked" \/ x.nonce # 0 => x.address \in Accounts
    BY <1>1 DEF AttemptSound
  <2> QED
    BY <1>2, <2>1, <2>2 DEF AttemptSound, Used
<1> QED
  BY <1>1, <1>3, AttemptMoves DEF serverVars

LEMMA AskingStep ==
    ASSUME SignInInv, NEW w \in Windows,
           \/ HandleSignIn(w) \/ AskSignature(w) \/ SendLogin(w) \/ NonceRefused(w) \/ LoginDenied(w)
           \/ HandleSubmit(w) \/ FindOwnership(w) \/ NotVerified(w) \/ GiveUp(w) \/ ClearNonce(w)
    PROVE  SignInInv'
<1> DEFINE a == attempt[w]
<1>0. /\ a \in Attempts /\ AttemptSound(w) /\ Idle \in Attempts /\ Idle.nonce = 0
      /\ Idle.at = "idle" /\ account \in Citizens /\ holder \in Citizens
      /\ nonceCookie \in 0 .. MaxNonces /\ nonceCookie \in 0 .. MaxNonces + MaxOpened
  BY WindowParts, IdleTyped, SignInAssumption DEF Idle
<1>1. CASE HandleSignIn(w)
  <2>1. PICK x : x = [Idle EXCEPT !.at = "asked", !.address = account]
    OBVIOUS
  <2>2. x \in Attempts /\ x.nonce = 0 /\ x.at = "asked" /\ x.address = account
    BY <1>0, <2>1, SignInAssumption DEF Idle, Attempts, Steps, Citizens
  <2>3. account \in Accounts
    BY <1>0, <1>1 DEF HandleSignIn, SignInOffered, Citizens
  <2> QED
    BY <1>1, <2>1, <2>2, <2>3, AttemptStep DEF HandleSignIn, browserVars
<1>2. CASE AskSignature(w)
  <2>1. PICK x : x = IF account = Nobody THEN Idle ELSE [a EXCEPT !.at = "signing", !.signer = account]
    OBVIOUS
  <2>2. /\ x \in Attempts /\ x.nonce \in {0, a.nonce} /\ x.at \in {"idle", "signing"}
        /\ x.nonce # 0 => x.address = a.address
    BY <1>0, <2>1 DEF Attempts, Steps
  <2>3. a.nonce # 0 => ~Used(a.nonce)
    BY <1>0, <1>2 DEF AskSignature, AttemptSound
  <2> QED
    BY <1>2, <2>1, <2>2, <2>3, AttemptStep DEF AskSignature
<1>3. CASE SendLogin(w)
  <2>1. PICK x : x = [a EXCEPT !.at = "sent", !.carried = nonceCookie]
    OBVIOUS
  <2>2. x \in Attempts /\ x.nonce = a.nonce /\ x.at = "sent" /\ x.address = a.address
    BY <1>0, <2>1 DEF Attempts, Steps
  <2>3. a.nonce # 0 => ~Used(a.nonce)
    BY <1>0, <1>3 DEF SendLogin, AttemptSound
  <2> QED
    BY <1>3, <2>1, <2>2, <2>3, AttemptStep DEF SendLogin
<1>4. CASE NonceRefused(w) \/ NotVerified(w)
  <2>1. PICK x : x = [a EXCEPT !.at = "refused"]
    OBVIOUS
  <2>2. x \in Attempts /\ x.nonce = a.nonce /\ x.at = "refused" /\ x.address = a.address
    BY <1>0, <2>1 DEF Attempts, Steps
  <2>3. a.nonce # 0 /\ Used(a.nonce) => nonceCookie # a.nonce
    BY <1>0, <1>4 DEF NonceRefused, NotVerified, AttemptSound
  <2> QED
    BY <1>4, <2>1, <2>2, <2>3, AttemptStep DEF NonceRefused, NotVerified
<1>5. CASE LoginDenied(w)
  <2>1. PICK x : x = [a EXCEPT !.at = "denied"]
    OBVIOUS
  <2>2. x \in Attempts /\ x.nonce = a.nonce /\ x.at = "denied" /\ x.address = a.address
    BY <1>0, <2>1 DEF Attempts, Steps
  <2> QED
    BY <1>5, <2>1, <2>2, AttemptStep DEF LoginDenied
<1>6. CASE HandleSubmit(w)
  <2>1. PICK x : x = [Idle EXCEPT !.at = "looking"]
    OBVIOUS
  <2>2. x \in Attempts /\ x.nonce = 0 /\ x.at = "looking"
    BY <1>0, <2>1 DEF Attempts, Steps, Idle
  <2> QED
    BY <1>6, <2>1, <2>2, AttemptStep DEF HandleSubmit
<1>7. CASE FindOwnership(w)
  <2>1. PICK x : x = IF holder = Nobody THEN [a EXCEPT !.at = "refused"]
                     ELSE [a EXCEPT !.at = "found", !.address = holder]
    OBVIOUS
  <2>2. x \in Attempts /\ x.nonce = a.nonce /\ x.at \in {"refused", "found"}
    BY <1>0, <2>1 DEF Attempts, Steps
  <2>3. a.nonce = 0
    BY <1>0, <1>7 DEF FindOwnership, AttemptSound
  <2> QED
    BY <1>7, <2>1, <2>2, <2>3, AttemptStep DEF FindOwnership
<1>8. CASE GiveUp(w)
  BY <1>0, <1>8, AttemptStep DEF GiveUp
<1>9. CASE ClearNonce(w)
  <2>1. PICK x : x = IF a.retried THEN Idle ELSE [a EXCEPT !.at = "renewing"]
    OBVIOUS
  <2>2. /\ x \in Attempts /\ x.nonce \in {0, a.nonce} /\ x.at \in {"idle", "renewing"}
        /\ x.nonce # 0 => x.address = a.address /\ x.at = "renewing"
    BY <1>0, <2>1 DEF Attempts, Steps
  <2>3. a.nonce # 0 /\ Used(a.nonce) => nonceCookie' # a.nonce
    BY <1>0, <1>9 DEF ClearNonce, AttemptSound
  <2> QED
    BY <1>9, <2>1, <2>2, <2>3, AttemptStep DEF ClearNonce
<1> QED
  BY <1>1, <1>2, <1>3, <1>4, <1>5, <1>6, <1>7, <1>8, <1>9

LEMMA GetNonceStep ==
    ASSUME SignInInv, NEW w \in Windows, GetNonce(w)
    PROVE  SignInInv'
<1> DEFINE a == attempt[w]
<1>1. PICK x : x = [a EXCEPT !.at = "answered", !.nonce = issued + 1]
  OBVIOUS
<1>2. /\ a \in Attempts /\ AttemptSound(w) /\ issued \in Nat /\ nonceCookie \in 0 .. issued
      /\ issued' = issued + 1 /\ opened' = opened /\ nonceCookie' = nonceCookie
      /\ issued + 1 \in 0 .. MaxNonces /\ attempt \in [Windows -> Attempts]
      /\ attempt' = [attempt EXCEPT ![w] = x] /\ a.at = "asked" /\ SignInTypeOK
  BY <1>1, WindowParts, SignInTyping, SignInAssumption DEF GetNonce, Goes, SignInInv
<1>3. /\ x \in Attempts /\ x.nonce = issued + 1 /\ x.at = "answered" /\ x.address = a.address
  BY <1>1, <1>2 DEF Attempts, Steps
<1>4. /\ attempt' \in [Windows -> Attempts] /\ attempt'[w] = x
      /\ \A v \in Windows \ {w} : attempt'[v] = attempt[v]
      /\ Opened' = Opened /\ \A n : Used(n)' <=> Used(n)
  BY <1>2, <1>3 DEF Opened, Used
<1>5. SignInTypeOK'
  <2>1. lapsed' \subseteq 1 .. issued' /\ nonceCookie' \in 0 .. issued' /\ issued' \in 0 .. MaxNonces
    BY <1>2, SignInTyping DEF GetNonce
  <2> QED
    BY <1>2, <1>4, <2>1, SignInTyping DEF GetNonce, SignInTypeOK, Attempts
<1>6. \A s \in Opened : opened[s].nonce <= issued /\ opened[s].nonce \in Nat
  BY <1>2, OpenedNumbers, SignInAssumption DEF SignInInv, NoncesApart, OpenedRows
<1>7. \A v \in Windows : attempt[v].nonce <= issued /\ attempt[v].nonce \in Nat
  BY WindowParts, SignInAssumption DEF AttemptSound
<1>8. NoncesApart'
  <2>1. \A s \in Opened' : opened'[s].nonce <= issued'
    BY <1>2, <1>4, <1>6
  <2>2. \A v, u \in Windows :
          attempt'[u].nonce # 0 /\ attempt'[v].nonce = attempt'[u].nonce => v = u
    <3>1. \A v \in Windows : attempt[v].nonce # issued + 1
      BY <1>2, <1>7
    <3> QED
      BY <1>3, <1>4, <3>1 DEF SignInInv, NoncesApart
  <2> QED
    BY <2>1, <2>2 DEF NoncesApart
<1>9. ASSUME NEW v \in Windows PROVE AttemptSound(v)'
  <2>1. CASE v = w
    <3>1. ~Used(x.nonce)
      BY <1>2, <1>3, <1>6 DEF Used
    <3>2. ~Used(attempt[v].nonce)'
      BY <1>4, <2>1, <3>1
    <3>3. a.address \in Accounts
      BY <1>2 DEF AttemptSound
    <3> QED
      BY <1>2, <1>3, <1>4, <2>1, <3>2, <3>3 DEF AttemptSound, Used
  <2>2. CASE v # w
    <3>1. attempt'[v] = attempt[v] /\ attempt[v].nonce <= issued'
      BY <1>2, <1>4, <1>7, <2>2
    <3> QED
      BY <1>2, <1>4, <2>2, <3>1 DEF AttemptSound, SignInInv, Used
  <2> QED
    BY <2>1, <2>2
<1>10. (\A c \in verified \cup checking : Signed(c))' /\ SessionsRestOnSignatures'
  BY DEF GetNonce, SignInInv, Signed, Opened, SessionsRestOnSignatures
<1> QED
  BY <1>5, <1>8, <1>9, <1>10 DEF SignInInv

LEMMA OpeningStep ==
    ASSUME SignInInv, NEW w \in Windows, LoginCitizen(w) \/ LoginCitizenAadhaar(w) \/ LoginBreaks(w)
    PROVE  SignInInv'
<1> DEFINE a == attempt[w]
<1>0. /\ a \in Attempts /\ AttemptSound(w) /\ Len(opened) \in Nat
      /\ a.nonce \in 0 .. MaxNonces /\ 0 \in 0 .. MaxNonces /\ Nobody \in Citizens
      /\ Len(opened) < MaxOpened => Len(opened) + 1 \in 0 .. MaxNonces + MaxOpened
  BY WindowParts, SignInAssumption DEF Citizens
<1>1. ASSUME a.at = "sent", NonceHolds(a.carried), SignatureHolds(w)
      PROVE  /\ a.nonce # 0 /\ ~Used(a.nonce) /\ a.signer = a.address /\ a.address \in Accounts
             /\ a.address \in Citizens
  BY <1>0, <1>1 DEF NonceHolds, SignatureHolds, AttemptSound, Citizens
<1>2. CASE LoginCitizen(w)
  <2>1. PICK x : x = [a EXCEPT !.at = "granted", !.carried = Len(opened) + 1]
    OBVIOUS
  <2>2. /\ x \in Attempts /\ x.nonce = a.nonce /\ x.at = "granted" /\ x.address = a.address
        /\ x.carried = Len(opened) + 1
    BY <1>0, <1>2, <2>1 DEF Attempts, Steps, LoginCitizen
  <2>3. /\ a.nonce # 0 /\ ~Used(a.nonce) /\ a.signer = a.address /\ a.address \in Accounts
        /\ a.address \in Citizens /\ Len(opened) < MaxOpened
        /\ Open(a.address, a.address, a.nonce, FALSE) /\ attempt' = [attempt EXCEPT ![w] = x]
    BY <1>1, <1>2, <2>1 DEF LoginCitizen, Goes
  <2> QED
    BY <1>0, <1>2, <2>2, <2>3, SessionOpens DEF LoginCitizen
<1>3. CASE LoginCitizenAadhaar(w)
  <2>1. PICK x : x = [a EXCEPT !.at = "granted", !.carried = Len(opened) + 1]
    OBVIOUS
  <2>2. /\ x \in Attempts /\ x.nonce = a.nonce /\ x.at = "granted" /\ x.address = a.address
        /\ x.carried = Len(opened) + 1
    BY <1>0, <1>3, <2>1 DEF Attempts, Steps, LoginCitizenAadhaar
  <2>3. a.address \in Accounts /\ Signed(a.address)
    BY <1>3, SignInTyping DEF LoginCitizenAadhaar, SignInInv
  <2>4. /\ Len(opened) < MaxOpened /\ Open(a.address, Nobody, 0, FALSE)
        /\ attempt' = [attempt EXCEPT ![w] = x]
    BY <1>3, <2>1 DEF LoginCitizenAadhaar, Goes
  <2> QED
    BY <1>0, <1>3, <2>2, <2>3, <2>4, SessionOpens DEF LoginCitizenAadhaar
<1>4. CASE LoginBreaks(w)
  <2>1. PICK x : x = [a EXCEPT !.at = "denied"]
    OBVIOUS
  <2>2. x \in Attempts /\ x.nonce = a.nonce /\ x.at = "denied" /\ x.address = a.address
    BY <1>0, <2>1 DEF Attempts, Steps
  <2>3. attempt' = [attempt EXCEPT ![w] = x]
    BY <1>4, <2>1 DEF LoginBreaks, Goes
  <2>4. CASE opened' = opened
    BY <1>4, <2>1, <2>2, <2>4, AttemptStep DEF LoginBreaks, serverVars
  <2>5. CASE Len(opened) < MaxOpened /\ Open(a.address, a.signer, a.nonce, FALSE)
    <3>1. /\ a.nonce # 0 /\ ~Used(a.nonce) /\ a.signer = a.address /\ a.address \in Accounts
          /\ a.address \in Citizens
      BY <1>1, <1>4 DEF LoginBreaks
    <3> QED
      BY <1>0, <1>4, <2>2, <2>3, <2>5, <3>1, SessionOpens DEF LoginBreaks
  <2> QED
    BY <1>4, <2>4, <2>5 DEF LoginBreaks
<1> QED
  BY <1>2, <1>3, <1>4

(* Steps that change the cookies or the user shown.                         *)
LEMMA AnswerStep ==
    ASSUME SignInInv, NEW w \in Windows,
           SetCookies(w) \/ Renew(w) \/ RefetchUser(w) \/ HandleLogout(w) \/ LoggedOut(w)
    PROVE  SignInInv'
<1> DEFINE a == attempt[w]
<1>0. /\ a \in Attempts /\ AttemptSound(w) /\ Idle \in Attempts /\ Idle.nonce = 0
      /\ Idle.at = "idle" /\ account \in Citizens /\ Nobody \in Citizens
      /\ nonceCookie \in 0 .. MaxNonces + MaxOpened
      /\ user \in [Windows -> Citizens] /\ ended \subseteq Opened
      /\ jar \in Opened \cup {0} /\ jar \in 0 .. MaxNonces + MaxOpened
      /\ attempt \in [Windows -> Attempts] /\ \A s \in Opened : opened[s].user \in Citizens
  BY WindowParts, IdleTyped, OpenedNumbers, SignInTyping, SignInAssumption
  DEF Idle, SignInInv, Citizens, OpenedRows
<1>1. ASSUME NEW x \in Attempts, x.nonce = 0, x.at \notin {"asked", "granted"},
             attempt' = [attempt EXCEPT ![w] = x], issued' = issued
      PROVE  AttemptSound(w)'
  <2>1. attempt'[w] = x
    BY <1>0, <1>1
  <2> QED
    BY <1>1, <2>1, WindowParts DEF AttemptSound
<1>2. CASE SetCookies(w)
  <2>1. PICK x : x = [Idle EXCEPT !.at = "in"]
    OBVIOUS
  <2>2. x \in Attempts /\ x.nonce = 0 /\ x.at = "in"
    BY <1>0, <2>1 DEF Attempts, Steps
  <2>3. a.carried \in Opened
    BY <1>0, <1>2 DEF SetCookies, AttemptSound
  <2>4. attempt' = [attempt EXCEPT ![w] = x]
    BY <1>2, <2>1 DEF SetCookies, Goes
  <2>5. AttemptSound(w)'
    BY <1>1, <1>2, <2>2, <2>4 DEF SetCookies, serverVars
  <2> QED
    BY <1>0, <1>2, <2>2, <2>3, <2>4, <2>5, AttemptMoves DEF SetCookies, serverVars
<1>3. CASE Renew(w)
  <2>1. CASE jar # 0 /\ jar \notin ended
    <3>1. PICK x : x = [a EXCEPT !.at = IF a.nonce = 0 THEN "looking" ELSE "sent",
                                 !.carried = nonceCookie, !.retried = TRUE]
      OBVIOUS
    <3>2. /\ x \in Attempts /\ x.nonce = a.nonce /\ x.address = a.address
          /\ x.carried = nonceCookie
          /\ x.at = IF a.nonce = 0 THEN "looking" ELSE "sent"
      BY <1>0, <3>1 DEF Attempts, Steps
    <3>3. a.nonce # 0 /\ Used(a.nonce) => nonceCookie # a.nonce
      BY <1>0, <1>3 DEF Renew, AttemptSound
    <3>4. Goes(w, x) /\ UNCHANGED <<serverVars, account, nonceCookie, jar, user>>
      BY <1>3, <2>1, <3>1 DEF Renew
    <3> QED
      BY <3>2, <3>3, <3>4, AttemptStep
  <2>2. CASE ~(jar # 0 /\ jar \notin ended)
    <3>1. /\ attempt' = [attempt EXCEPT ![w] = Idle] /\ jar' = 0
          /\ UNCHANGED <<serverVars, account, nonceCookie, user>>
      BY <1>3, <2>2 DEF Renew, Goes
    <3>2. AttemptSound(w)'
      BY <1>0, <1>1, <3>1 DEF serverVars
    <3> QED
      BY <1>0, <3>1, <3>2, AttemptMoves DEF serverVars
  <2> QED
    BY <2>1, <2>2
<1>4. CASE RefetchUser(w)
  <2>1. /\ attempt' = [attempt EXCEPT ![w] = Idle] /\ jar' \in {jar, 0}
        /\ UNCHANGED <<serverVars, account, nonceCookie>>
    BY <1>4 DEF RefetchUser, Goes
  <2>2. user' \in [Windows -> Citizens]
    BY <1>0, <1>4 DEF RefetchUser
  <2>3. AttemptSound(w)'
    BY <1>0, <1>1, <2>1 DEF serverVars
  <2> QED
    BY <1>0, <2>1, <2>2, <2>3, AttemptMoves DEF serverVars
<1>5. CASE HandleLogout(w)
  <2>1. PICK x : x = [Idle EXCEPT !.at = "leaving", !.carried = jar]
    OBVIOUS
  <2>2. x \in Attempts /\ x.nonce = 0 /\ x.at = "leaving"
    BY <1>0, <2>1 DEF Attempts, Steps
  <2>3. attempt' = [attempt EXCEPT ![w] = x] /\ ended' \subseteq Opened
    BY <1>0, <1>5, <2>1 DEF HandleLogout, Goes
  <2>4. AttemptSound(w)'
    BY <1>1, <1>5, <2>2, <2>3 DEF HandleLogout
  <2> QED
    BY <1>0, <1>5, <2>2, <2>3, <2>4, AttemptMoves DEF HandleLogout
<1>6. CASE LoggedOut(w)
  <2>1. /\ attempt' = [attempt EXCEPT ![w] = Idle] /\ jar' \in {jar, 0} /\ account' = Nobody
        /\ UNCHANGED <<serverVars, nonceCookie>>
    BY <1>6 DEF LoggedOut, Goes
  <2>2. user' \in [Windows -> Citizens]
    BY <1>0, <1>6 DEF LoggedOut
  <2>3. AttemptSound(w)'
    BY <1>0, <1>1, <2>1 DEF serverVars
  <2> QED
    BY <1>0, <2>1, <2>2, <2>3, AttemptMoves DEF serverVars
<1> QED
  BY <1>2, <1>3, <1>4, <1>5, <1>6

LEMMA OutsideStep ==
    ASSUME SignInInv,
           \/ \E c \in Citizens : SwitchAccount(c) \/ VehicleChangesHands(c) \/ VerifyCitizenProfile(c)
           \/ \E n \in 1 .. issued : NonceLapses(n)
           \/ \E s \in Opened : SessionEnds(s)
           \/ \E w \in Windows : VerifyKyc(w)
    PROVE  SignInInv'
<1>0. /\ account \in Citizens /\ holder \in Citizens /\ ended \subseteq Opened
      /\ lapsed \subseteq 1 .. issued /\ jar \in Opened \cup {0}
      /\ verified \subseteq Accounts /\ checking \subseteq Accounts
      /\ \A s \in Opened : opened[s].user \in Accounts
      /\ \A c \in verified \cup checking : Signed(c)
  BY SignInTyping, OpenedNumbers DEF SignInInv, OpenedRows
<1>1. ASSUME NEW c \in Citizens, SwitchAccount(c) \/ VehicleChangesHands(c) \/ VerifyCitizenProfile(c)
      PROVE  SignInInv'
  <2>1. /\ account' \in Citizens /\ holder' \in Citizens /\ ended' = ended /\ lapsed' = lapsed
        /\ verified' \cup checking' \subseteq verified \cup checking
        /\ UNCHANGED <<attempt, opened, issued, nonceCookie, jar, user>>
    BY <1>0, <1>1 DEF SwitchAccount, VehicleChangesHands, VerifyCitizenProfile, serverVars, browserVars
  <2> QED
    BY <1>0, <2>1, AttemptsRest
<1>2. ASSUME NEW n \in 1 .. issued, NonceLapses(n) PROVE SignInInv'
  BY <1>0, <1>2, AttemptsRest DEF NonceLapses, browserVars
<1>3. ASSUME NEW s \in Opened, SessionEnds(s) PROVE SignInInv'
  BY <1>0, <1>3, AttemptsRest DEF SessionEnds, browserVars
<1>4. ASSUME NEW w \in Windows, VerifyKyc(w) PROVE SignInInv'
  <2>1. jar \in Opened /\ checking' = checking \cup {opened[jar].user} /\ verified' = verified
    BY <1>0, <1>4 DEF VerifyKyc
  <2>2. Signed(opened[jar].user)
    <3>1. PICK r \in 1 .. jar : /\ opened[r].nonce # 0 /\ opened[r].signer = opened[jar].user
                                /\ opened[r].user = opened[jar].user
      BY <2>1 DEF SignInInv, SessionsRestOnSignatures
    <3>2. r \in Opened
      BY <2>1, OpenedNumbers DEF SignInInv
    <3> QED
      BY <3>1, <3>2 DEF Signed
  <2>3. \A c \in verified' \cup checking' : Signed(c)
    BY <1>0, <2>1, <2>2
  <2>4. verified' \subseteq Accounts /\ checking' \subseteq Accounts
    BY <1>0, <2>1
  <2> QED
    BY <1>0, <1>4, <2>3, <2>4, AttemptsRest DEF VerifyKyc, browserVars
<1> QED
  BY <1>1, <1>2, <1>3, <1>4

LEMMA SignInInductive == SignInInv /\ [SignInNext]_signInVars => SignInInv'
<1> SUFFICES ASSUME SignInInv, [SignInNext]_signInVars PROVE SignInInv'
  OBVIOUS
<1>1. CASE UNCHANGED signInVars
  BY <1>1, AttemptsRest, SignInTyping DEF signInVars, serverVars, browserVars, SignInInv
<1> QED
  BY <1>1, AskingStep, GetNonceStep, OpeningStep, AnswerStep, OutsideStep, AgainStep DEF SignInNext

(* The sessions of one nonce are one citizen's, and all but one of them come *)
(* of a request delivered again; every session goes back to a signature of  *)
(* its citizen (auth.controller.ts:91, auth.service.ts:113).                *)
THEOREM SessionsRestOnSignaturesAlways == SignInSpec => []SessionsRestOnSignatures
<1>1. SignInInv => SessionsRestOnSignatures
  BY DEF SignInInv
<1> QED
  BY <1>1, SignInInitially, SignInInductive, PTL DEF SignInSpec

-----------------------------------------------------------------------------
(* WHAT THE HOOKS SAY                                                       *)

(* A mutation writes a table the query reads.                               *)
Touches(m, q) == \E t : <<m, t>> \in TablesWritten /\ <<q, t>> \in TablesRead

(* The hook of a mutation invalidates the query, or replaces what it shows.  *)
Told(m, q) ==
    \/ <<m, q>> \in Replaces
    \/ \E i \in Invalidates : i[1] = m /\ \E k \in Keys : k[1] = q /\ IsPrefix(i[2], k[2])

HookTells(m, q) == Touches(m, q) => Told(m, q) \/ <<m, q>> \in Unnoticed

(* An invalidated key tells every query whose key begins with it.           *)
LEMMA ToldByKey ==
    ASSUME NEW m, NEW q, NEW key, NEW whole,
           <<m, key>> \in Invalidates, <<q, whole>> \in Keys, IsPrefix(key, whole)
    PROVE  Told(m, q)
BY DEF Told

(* Keys of one and two parts begin with themselves, and with their first.   *)
LEMMA BeginsWith ==
    ASSUME NEW a, NEW b
    PROVE  IsPrefix(<<a>>, <<a>>) /\ IsPrefix(<<a>>, <<a, b>>) /\ IsPrefix(<<a, b>>, <<a, b>>)
BY DEF IsPrefix

(* The hook files' keys and invalidations are among all of them.            *)
LEMMA InvalidatesParts ==
    /\ B2BInvalidates \subseteq Invalidates /\ BankInvalidates \subseteq Invalidates
    /\ InsuranceInvalidates \subseteq Invalidates /\ MfgInvalidates \subseteq Invalidates
    /\ PaymentInvalidates \subseteq Invalidates /\ PoliceInvalidates \subseteq Invalidates
    /\ PucInvalidates \subseteq Invalidates /\ RtoInvalidates \subseteq Invalidates
    /\ ScrapInvalidates \subseteq Invalidates /\ AdminInvalidates \subseteq Invalidates
BY DEF Invalidates

LEMMA KeysParts ==
    /\ B2BKeys \subseteq Keys /\ BankKeys \subseteq Keys /\ InsuranceKeys \subseteq Keys
    /\ MfgKeys \subseteq Keys /\ PaymentKeys \subseteq Keys /\ PoliceKeys \subseteq Keys
    /\ PucKeys \subseteq Keys /\ RtoKeys \subseteq Keys /\ ScrapKeys \subseteq Keys
    /\ AdminKeys \subseteq Keys
BY DEF Keys

-----------------------------------------------------------------------------
(* DASHBOARD BY DASHBOARD                                                   *)

(* The manufacturer's history                                             *)
LEMMA MfgTells ==
    ASSUME NEW m \in {"manufacture", "assign"}
    PROVE  Told(m, "mfgVehicles")
<1>1. <<m, <<"mfg", "vehicles">>>> \in MfgInvalidates
  BY DEF MfgInvalidates
<1>2. <<"mfgVehicles", <<"mfg", "vehicles">>>> \in MfgKeys
  BY DEF MfgKeys
<1> QED
  BY <1>1, <1>2, ToldByKey, InvalidatesParts, KeysParts, BeginsWith

(* The insurer's policies                                                 *)
LEMMA InsuranceTells ==
    ASSUME NEW m \in {"issuePolicy", "fileClaim", "expirePolicy"}
    PROVE  Told(m, "policies")
<1>1. <<m, <<"insurance", "policies">>>> \in InsuranceInvalidates
  BY DEF InsuranceInvalidates
<1>2. <<"policies", <<"insurance", "policies">>>> \in InsuranceKeys
  BY DEF InsuranceKeys
<1> QED
  BY <1>1, <1>2, ToldByKey, InvalidatesParts, KeysParts, BeginsWith

(* The bank's loans                                                       *)
LEMMA BankTells ==
    ASSUME NEW m \in {"registerLoan", "issueNoc", "cancelPendingLoan", "refinanceLoan"}
    PROVE  Told(m, "loans")
<1>1. <<m, <<"bank", "loans">>>> \in BankInvalidates
  BY DEF BankInvalidates
<1>2. <<"loans", <<"bank", "loans">>>> \in BankKeys
  BY DEF BankKeys
<1> QED
  BY <1>1, <1>2, ToldByKey, InvalidatesParts, KeysParts, BeginsWith

(* The station's fines                                                    *)
LEMMA PoliceTells ==
    ASSUME NEW m \in {"issueChallan", "cancelChallan", "markPaid"}
    PROVE  Told(m, "policeChallans")
<1>1. <<m, <<"police", "challans">>>> \in PoliceInvalidates
  BY DEF PoliceInvalidates
<1>2. <<"policeChallans", <<"police", "challans">>>> \in PoliceKeys
  BY DEF PoliceKeys
<1> QED
  BY <1>1, <1>2, ToldByKey, InvalidatesParts, KeysParts, BeginsWith

(* The test centre's certificates                                         *)
LEMMA PucTells ==
    ASSUME NEW m \in {"issuePuc", "expirePuc"}
    PROVE  Told(m, "certificates")
<1>1. <<m, <<"puc", "certificates">>>> \in PucInvalidates
  BY DEF PucInvalidates
<1>2. <<"certificates", <<"puc", "certificates">>>> \in PucKeys
  BY DEF PucKeys
<1> QED
  BY <1>1, <1>2, ToldByKey, InvalidatesParts, KeysParts, BeginsWith

(* A scrapped vehicle invalidates the beginning of both keys of its hook file. *)
LEMMA ScrapTells ==
    ASSUME NEW q \in {"scrapped", "scrapEligibility"}
    PROVE  Told("scrapVehicle", q)
<1>1. <<"scrapVehicle", <<"scrap">>>> \in Invalidates
  BY InvalidatesParts DEF ScrapInvalidates
<1>2. /\ <<"scrapped", <<"scrap", "vehicles">>>> \in Keys
      /\ <<"scrapEligibility", <<"scrap", "eligibility">>>> \in Keys
  BY KeysParts DEF ScrapKeys
<1> QED
  BY <1>1, <1>2, ToldByKey, BeginsWith

(* The transport office: its lists share no table with what the others' mutations *)
(* write.                                                                   *)
LEMMA RtoTells ==
    ASSUME NEW m \in {"issueTradeCert", "revokeTradeCert", "registerVehicle", "approveTransfer"},
           NEW q \in {"rtoCerts", "registrations", "transfers"}
    PROVE  HookTells(m, q)
<1>1. ASSUME NEW t, <<m, t>> \in TablesWritten
      PROVE  t = "tx" \/ (t = "cert" /\ m = "issueTradeCert")
  BY <1>1 DEF TablesWritten, CitizenWrites, EntityWrites, MemberWrites, BankWrites, DealerWrites,
       InsuranceWrites, MfgWrites, PaymentWrites, GovWrites, PoliceWrites, PucWrites, RtoWrites,
       ScrapWrites, AdminWrites
<1>2. ASSUME NEW t, <<q, t>> \in TablesRead
      PROVE  t # "tx" /\ (t = "cert" => q = "rtoCerts")
  BY <1>2 DEF TablesRead, CitizenReads, TransferReads, GovReads, RtoReads, MfgReads, InsuranceReads,
       PucReads, DealerReads, BankReads, ScrapReads, PoliceReads, PaymentReads, EntityReads,
       MemberReads, AdminReads, TitleTables, ComplianceTables
<1>3. Told("issueTradeCert", "rtoCerts")
  <2>1. <<"issueTradeCert", <<"rto", "trade-certs">>>> \in RtoInvalidates
    BY DEF RtoInvalidates
  <2>2. <<"rtoCerts", <<"rto", "trade-certs">>>> \in RtoKeys
    BY DEF RtoKeys
  <2> QED
    BY <2>1, <2>2, ToldByKey, InvalidatesParts, KeysParts, BeginsWith
<1> QED
  BY <1>1, <1>2, <1>3 DEF HookTells, Touches

(* A citizen writes a fine's order, the KYC and a dealer's request; nobody of *)
(* the citizens lists the requests.                                         *)
LEMMA CitizenTells ==
    ASSUME NEW m \in {"initiatePayment", "submitKyc", "createSaleRequest"},
           NEW q \in {"vehicles", "profile", "detail", "timeline", "incoming", "eligibility",
                      "transferStatus", "scrapCenters", "ownScrap", "challans", "rtos",
                      "inventory", "tradeCerts"}
    PROVE  HookTells(m, q)
<1>1. ASSUME NEW t, <<m, t>> \in TablesWritten
      PROVE  \/ t = "challan" /\ m = "initiatePayment"
             \/ t = "user" /\ m = "submitKyc"
             \/ t = "request"
  BY <1>1 DEF TablesWritten, CitizenWrites, EntityWrites, MemberWrites, BankWrites, DealerWrites,
       InsuranceWrites, MfgWrites, PaymentWrites, GovWrites, PoliceWrites, PucWrites, RtoWrites,
       ScrapWrites, AdminWrites
<1>2. ASSUME NEW t, <<q, t>> \in TablesRead
      PROVE  /\ t # "request" /\ (t = "user" => q = "profile")
             /\ t = "challan" => q \in {"challans", "detail", "timeline", "eligibility", "ownScrap"}
  BY <1>2 DEF TablesRead, CitizenReads, TransferReads, GovReads, RtoReads, MfgReads, InsuranceReads,
       PucReads, DealerReads, BankReads, ScrapReads, PoliceReads, PaymentReads, EntityReads,
       MemberReads, AdminReads, TitleTables, ComplianceTables
<1>3. Told("initiatePayment", "challans")
  <2>1. <<"initiatePayment", <<"payment", "challans">>>> \in PaymentInvalidates
    BY DEF PaymentInvalidates
  <2>2. <<"challans", <<"payment", "challans">>>> \in PaymentKeys
    BY DEF PaymentKeys
  <2> QED
    BY <2>1, <2>2, ToldByKey, InvalidatesParts, KeysParts, BeginsWith
<1>4. Told("submitKyc", "profile")
  BY DEF Told, Replaces
<1>5. \A u \in {"detail", "timeline", "eligibility", "ownScrap"} :
          <<"initiatePayment", u>> \in Unnoticed
  BY DEF Unnoticed
<1> QED
  BY <1>1, <1>2, <1>3, <1>4, <1>5 DEF HookTells, Touches

(* The government: institutions, proposals, the staff every institution has. *)
LEMMA GovTells ==
    ASSUME NEW m \in {"createInstitution", "toggleInstitution", "retryRegistration",
                      "cancelProposal", "signProposal", "executeProposal", "adminCancelChallan",
                      "createStaff", "updateRole", "updateStatus"},
           NEW q \in {"analytics", "institutions", "safeInfo", "proposals", "proposal",
                      "globalChallans", "auditLogs", "staff"}
    PROVE  HookTells(m, q)
<1>1. ASSUME NEW t, <<m, t>> \in TablesWritten
      PROVE  \/ t = "entity" /\ m = "createInstitution"
             \/ /\ t = "proposal"
                /\ m \in {"createInstitution", "toggleInstitution", "retryRegistration",
                          "cancelProposal", "signProposal", "adminCancelChallan"}
             \/ t = "member" /\ m \in {"createStaff", "updateRole", "updateStatus"}
  BY <1>1 DEF TablesWritten, CitizenWrites, EntityWrites, MemberWrites, BankWrites, DealerWrites,
       InsuranceWrites, MfgWrites, PaymentWrites, GovWrites, PoliceWrites, PucWrites, RtoWrites,
       ScrapWrites, AdminWrites
<1>2. ASSUME NEW t, <<q, t>> \in TablesRead
      PROVE  /\ t = "entity" => q \in {"analytics", "institutions"}
             /\ t = "proposal" => q \in {"proposals", "proposal"}
             /\ t = "member" => q = "staff"
  BY <1>2 DEF TablesRead, CitizenReads, TransferReads, GovReads, RtoReads, MfgReads, InsuranceReads,
       PucReads, DealerReads, BankReads, ScrapReads, PoliceReads, PaymentReads, EntityReads,
       MemberReads, AdminReads, TitleTables, ComplianceTables
<1>3. Told("createInstitution", "institutions")
  <2>1. <<"createInstitution", <<"institutions">>>> \in B2BInvalidates
    BY DEF B2BInvalidates
  <2>2. <<"institutions", <<"institutions">>>> \in B2BKeys
    BY DEF B2BKeys
  <2> QED
    BY <2>1, <2>2, ToldByKey, InvalidatesParts, KeysParts, BeginsWith
<1>4. \A u \in {"createStaff", "updateRole", "updateStatus"} : Told(u, "staff")
  <2>1. \A u \in {"createStaff", "updateRole", "updateStatus"} :
            <<u, <<"staff">>>> \in B2BInvalidates
    BY DEF B2BInvalidates
  <2>2. <<"staff", <<"staff">>>> \in B2BKeys
    BY DEF B2BKeys
  <2> QED
    BY <2>1, <2>2, ToldByKey, InvalidatesParts, KeysParts, BeginsWith
<1>5. \A u \in {"cancelProposal", "signProposal"} : Told(u, "proposals")
  <2>1. \A u \in {"cancelProposal", "signProposal"} :
            <<u, <<"admin", "proposals">>>> \in AdminInvalidates
    BY DEF AdminInvalidates
  <2>2. <<"proposals", <<"admin", "proposals">>>> \in AdminKeys
    BY DEF AdminKeys
  <2> QED
    BY <2>1, <2>2, ToldByKey, InvalidatesParts, KeysParts, BeginsWith
<1>6. /\ <<"createInstitution", "analytics">> \in Unnoticed
      /\ \A u \in {"createInstitution", "toggleInstitution", "retryRegistration",
                   "adminCancelChallan"} :
             <<u, "proposals">> \in Unnoticed /\ <<u, "proposal">> \in Unnoticed
      /\ \A u \in {"cancelProposal", "signProposal"} : <<u, "proposal">> \in Unnoticed
  BY DEF Unnoticed
<1> QED
  <2>1. SUFFICES ASSUME NEW t, <<m, t>> \in TablesWritten, <<q, t>> \in TablesRead
                 PROVE  Told(m, q) \/ <<m, q>> \in Unnoticed
    BY DEF HookTells, Touches
  <2>2. CASE t = "entity"
    BY <1>1, <1>2, <1>3, <1>6, <2>1, <2>2
  <2>3. CASE t = "proposal"
    BY <1>1, <1>2, <1>5, <1>6, <2>1, <2>3
  <2>4. CASE t = "member"
    BY <1>1, <1>2, <1>4, <2>1, <2>4
  <2> QED
    BY <1>1, <2>1, <2>2, <2>3, <2>4

(* On the pages of one user every mutation tells every query of what it wrote  *)
(* for it, but for the pairs of Unnoticed.                                  *)
LEMMA HooksTell ==
    ASSUME NEW d \in Dashboards, NEW p \in d, NEW r \in d, NEW m \in p.does, NEW q \in r.shows
    PROVE  HookTells(m, q)
<1>1. CASE d = {VehiclesPage, VehiclePage, TransfersPage, AuthorizeScrapPage, ChallansPage,
                KycPage, DealerPage}
  <2>1. m \in {"initiatePayment", "submitKyc", "createSaleRequest"}
    BY <1>1
       DEF CitizenPage, Page, VehiclesPage, VehiclePage, TransfersPage, AuthorizeScrapPage,
           ChallansPage, KycPage, DealerPage
  <2>2. q \in {"vehicles", "profile", "detail", "timeline", "incoming", "eligibility",
                "transferStatus", "scrapCenters", "ownScrap", "challans", "rtos", "inventory",
                "tradeCerts"}
    BY <1>1
       DEF CitizenPage, Page, VehiclesPage, VehiclePage, TransfersPage, AuthorizeScrapPage,
           ChallansPage, KycPage, DealerPage
  <2> QED
    BY <2>1, <2>2, CitizenTells DEF HookTells
<1>2. CASE d = {OverviewPage, EntitiesPage, AdminPage, GovLogsPage, AuditPage, StaffPage}
  <2>1. m \in {"createInstitution", "toggleInstitution", "retryRegistration", "cancelProposal",
                "signProposal", "executeProposal", "adminCancelChallan", "createStaff",
                "updateRole", "updateStatus"}
    BY <1>2
       DEF Page, OverviewPage, EntitiesPage, AdminPage, GovLogsPage, AuditPage, StaffPage
  <2>2. q \in {"analytics", "institutions", "safeInfo", "proposals", "proposal",
                "globalChallans", "auditLogs", "staff"}
    BY <1>2
       DEF Page, OverviewPage, EntitiesPage, AdminPage, GovLogsPage, AuditPage, StaffPage
  <2> QED
    BY <2>1, <2>2, GovTells DEF HookTells
<1>3. CASE d = {MintPage, HistoryPage}
  <2>1. m \in {"manufacture", "assign"}
    BY <1>3
       DEF Page, MintPage, HistoryPage
  <2>2. q \in {"mfgVehicles"}
    BY <1>3
       DEF Page, MintPage, HistoryPage
  <2> QED
    BY <2>1, <2>2, MfgTells DEF HookTells
<1>4. CASE d = {PoliciesPage, ClaimsPage}
  <2>1. m \in {"issuePolicy", "fileClaim", "expirePolicy"}
    BY <1>4
       DEF Page, PoliciesPage, ClaimsPage
  <2>2. q \in {"policies"}
    BY <1>4
       DEF Page, PoliciesPage, ClaimsPage
  <2> QED
    BY <2>1, <2>2, InsuranceTells DEF HookTells
<1>5. CASE d = {LoansPage, NocPage}
  <2>1. m \in {"registerLoan", "issueNoc", "cancelPendingLoan", "refinanceLoan"}
    BY <1>5
       DEF Page, LoansPage, NocPage
  <2>2. q \in {"loans"}
    BY <1>5
       DEF Page, LoansPage, NocPage
  <2> QED
    BY <2>1, <2>2, BankTells DEF HookTells
<1>6. CASE d = {ScrapProcessPage, ScrapLogsPage}
  <2>1. m \in {"scrapVehicle"}
    BY <1>6
       DEF Page, ScrapProcessPage, ScrapLogsPage
  <2>2. q \in {"scrapEligibility", "scrapped"}
    BY <1>6
       DEF Page, ScrapProcessPage, ScrapLogsPage
  <2> QED
    BY <2>1, <2>2, ScrapTells DEF HookTells
<1>7. CASE d = {TradeCertsPage, RegistrationsPage, RtoTransfersPage}
  <2>1. m \in {"issueTradeCert", "revokeTradeCert", "registerVehicle", "approveTransfer"}
    BY <1>7
       DEF Page, TradeCertsPage, RegistrationsPage, RtoTransfersPage
  <2>2. q \in {"rtoCerts", "registrations", "transfers"}
    BY <1>7
       DEF Page, TradeCertsPage, RegistrationsPage, RtoTransfersPage
  <2> QED
    BY <2>1, <2>2, RtoTells DEF HookTells
<1>8. CASE d = {PoliceIssuePage, PoliceSearchPage}
  <2>1. m \in {"issueChallan", "cancelChallan", "markPaid"}
    BY <1>8
       DEF Page, PoliceIssuePage, PoliceSearchPage
  <2>2. q \in {"policeChallans"}
    BY <1>8
       DEF Page, PoliceIssuePage, PoliceSearchPage
  <2> QED
    BY <2>1, <2>2, PoliceTells DEF HookTells
<1>9. CASE d = {PucIssuePage, PucLogsPage}
  <2>1. m \in {"issuePuc", "expirePuc"}
    BY <1>9
       DEF Page, PucIssuePage, PucLogsPage
  <2>2. q \in {"certificates"}
    BY <1>9
       DEF Page, PucIssuePage, PucLogsPage
  <2> QED
    BY <2>1, <2>2, PucTells DEF HookTells
<1> QED
  BY <1>1, <1>2, <1>3, <1>4, <1>5, <1>6, <1>7, <1>8, <1>9 DEF Dashboards

-----------------------------------------------------------------------------
(* THE CACHE                                                                *)

(* Mutations of the user's pages.                                           *)
Mutations == UNION {p.does : p \in pages}

Cached ==
    [asOf : Nat, stale : BOOLEAN, failed : BOOLEAN, fetch : {"none", "asked", "read"}, read : Nat]

PortalTyped ==
    /\ pages \in Dashboards /\ page \in pages /\ watched \in UNION {p.shows : p \in pages}
    /\ shown \in Cached
    /\ clock \in Nat /\ due \in Nat
    /\ sent \in [does : {"none"} \union Mutations, wrote : Nat]
    /\ sent.does = "none" => sent.wrote = 0

(* A user's writes are counted before the cache is told of them.            *)
Counted == due <= clock /\ sent.wrote <= clock /\ (sent.wrote # 0 => due <= sent.wrote)

(* What is cached from before the user's last write, of which the cache was *)
(* told, is marked, and no fetch that read before that write will land.     *)
Marked ==
    /\ shown.asOf < due => shown.asOf = 0 \/ shown.stale
    /\ shown.fetch = "read" => shown.read >= due

PortalInv == PortalTyped /\ Counted /\ Marked /\ OwnChangesAppear

(* Rows of the table are pairs.                                             *)
LEMMA WrittenPairs == \A w \in TablesWritten : w = <<w[1], w[2]>>
BY DEF TablesWritten, CitizenWrites, EntityWrites, MemberWrites, BankWrites, DealerWrites,
       InsuranceWrites, MfgWrites, PaymentWrites, GovWrites, PoliceWrites, PucWrites, RtoWrites,
       ScrapWrites, AdminWrites

(* A mutation that is in hand tells of what it wrote, or is listed.         *)
LEMMA InHandTells ==
    ASSUME PortalTyped, sent.does # "none", WritesWatched(sent.does)
    PROVE  \/ InvalidatesWatched(sent.does) \/ ReplacesWatched(sent.does)
           \/ <<sent.does, watched>> \in Unnoticed
<1>1. PICK p \in pages : sent.does \in p.does
  BY DEF PortalTyped, Mutations
<1>2. PICK r \in pages : watched \in r.shows
  BY DEF PortalTyped
<1>3. HookTells(sent.does, watched)
  BY <1>1, <1>2, HooksTell DEF PortalTyped
<1>4. PICK w \in TablesWritten : w[1] = sent.does /\ <<watched, w[2]>> \in TablesRead
  BY DEF WritesWatched
<1>5. w = <<sent.does, w[2]>>
  BY <1>4, WrittenPairs
<1> QED
  BY <1>3, <1>4, <1>5 DEF HookTells, Touches, Told, InvalidatesWatched, IsOfWatched, ReplacesWatched

(* What a hook replaces it does not invalidate.                             *)
LEMMA ReplacedOnly ==
    ASSUME NEW m, ReplacesWatched(m)
    PROVE  ~InvalidatesWatched(m)
<1>1. m = "submitKyc"
  BY DEF ReplacesWatched, Replaces
<1>2. \A i \in Invalidates : i[1] # "submitKyc"
  BY DEF Invalidates, B2BInvalidates, BankInvalidates, DealerInvalidates, InsuranceInvalidates,
       MfgInvalidates, PaymentInvalidates, PoliceInvalidates, PucInvalidates, RtoInvalidates,
       ScrapInvalidates, AdminInvalidates
<1> QED
  BY <1>1, <1>2 DEF InvalidatesWatched

(* A query asked again is as stale as before, and nothing is read.          *)
LEMMA AskedFields ==
    ASSUME NEW c \in Cached
    PROVE  /\ Asked(c) \in Cached
           /\ Asked(c).asOf = c.asOf /\ Asked(c).stale = c.stale
           /\ Asked(c).fetch = "asked" /\ Asked(c).read = 0
BY DEF Cached, Asked

LEMMA PortalInitially == PortalInit => PortalInv
<1> SUFFICES ASSUME PortalInit PROVE PortalInv
  OBVIOUS
<1>1. /\ Nothing \in Cached
      /\ Nothing.asOf = 0 /\ Nothing.fetch = "none"
  BY DEF Cached, Nothing
<1>2. /\ shown \in Cached
      /\ shown.asOf = 0 /\ shown.fetch # "read"
  BY <1>1, AskedFields DEF PortalInit
<1>3. sent = [does |-> "none", wrote |-> 0] /\ clock = 1 /\ due = 0
  BY DEF PortalInit, NoMutation
<1> QED
  BY <1>2, <1>3 DEF Cached, PortalInit, PortalInv, PortalTyped, Counted, Marked, OwnChangesAppear

-----------------------------------------------------------------------------
(* Steps of the cache and the network leave the clock and what is due, so it *)
(* is enough what they make of the cached data.                             *)

CacheSound(c, p) ==
    /\ c \in Cached
    /\ c.asOf < due => c.asOf = 0 \/ c.stale
    /\ c.fetch = "read" => c.read >= due
    /\ IsShown(watched, p) /\ c.fetch = "none" /\ ~c.failed => c.asOf >= due

LEMMA CacheSteps ==
    ASSUME PortalInv, page' \in pages, CacheSound(shown', page'),
           UNCHANGED <<pages, watched, clock, sent, due>>
    PROVE  PortalInv'
BY DEF Cached, PortalInv, PortalTyped, Counted, Marked, OwnChangesAppear, CacheSound, IsShown, Mutations

LEMMA CacheIsSound == PortalInv => CacheSound(shown, page)
BY DEF Cached, PortalInv, PortalTyped, Marked, OwnChangesAppear, CacheSound

(* A query that appears, or is invalidated, is asked unless what is cached   *)
(* may be shown.                                                            *)
LEMMA AppearsSound ==
    ASSUME PortalInv, NEW p
    PROVE  CacheSound(Appears(shown), p)
<1>1. CASE Appears(shown) = Asked(shown)
  BY <1>1, AskedFields DEF Cached, PortalInv, PortalTyped, Marked, CacheSound
<1>2. CASE Appears(shown) = shown /\ (shown.fetch = "none" => shown.asOf # 0 /\ ~shown.stale)
  BY <1>2 DEF Cached, PortalInv, PortalTyped, Marked, CacheSound
<1> QED
  BY <1>1, <1>2 DEF Appears

LEMMA InvalidatedSound == PortalInv => CacheSound(Invalidated(shown), page)
BY DEF Cached, PortalInv, PortalTyped, Marked, OwnChangesAppear, CacheSound, Invalidated, Asked

LEMMA NavigateStep ==
    ASSUME PortalInv, NEW p \in pages, Navigate(p)
    PROVE  PortalInv'
<1>1. CacheSound(shown', page')
  BY AppearsSound DEF Cached, Navigate, PortalInv, PortalTyped, Marked, OwnChangesAppear, CacheSound
<1> QED
  BY <1>1, CacheSteps DEF Navigate

LEMMA FetchStep ==
    ASSUME PortalInv, ServerReads \/ FetchLands \/ FetchFails \/ StaleTimePasses
    PROVE  PortalInv'
<1>1. page' \in pages /\ UNCHANGED <<pages, page, watched, clock, sent, due>>
  BY DEF Cached, PortalInv, PortalTyped, ServerReads, FetchLands, FetchFails, StaleTimePasses
<1>2. CacheSound(shown', page)
  <2>1. CASE ServerReads
    BY <2>1 DEF Cached, ServerReads, CacheSound, PortalInv, PortalTyped, Counted, Marked
  <2>2. CASE FetchLands
    <3>1. /\ shown' = [asOf |-> shown.read, stale |-> FALSE, failed |-> FALSE,
                        fetch |-> "none", read |-> 0]
          /\ shown.read \in Nat /\ shown.read >= due /\ due \in Nat
      BY <2>2 DEF Cached, FetchLands, Nothing, PortalInv, PortalTyped, Marked
    <3> QED
      BY <3>1 DEF CacheSound, Cached
  <2>3. CASE FetchFails
    <3>1. CASE shown' = Asked(shown)
      BY <3>1, AskedFields DEF Cached, PortalInv, PortalTyped, Marked, CacheSound
    <3>2. CASE shown' = [shown EXCEPT !.fetch = "none", !.read = 0, !.failed = TRUE]
      <4>1. /\ shown' \in Cached
            /\ shown'.asOf = shown.asOf /\ shown'.stale = shown.stale
            /\ shown'.fetch = "none" /\ shown'.failed = TRUE
        BY <3>2 DEF Cached, PortalInv, PortalTyped
      <4> QED
        BY <4>1 DEF PortalInv, Marked, CacheSound
    <3> QED
      BY <2>3, <3>1, <3>2 DEF FetchFails
  <2>4. CASE StaleTimePasses
    BY <2>4 DEF Cached, StaleTimePasses, CacheSound, PortalInv, PortalTyped, Marked, OwnChangesAppear
  <2> QED
    BY <2>1, <2>2, <2>3, <2>4
<1> QED
  BY <1>1, <1>2, CacheSteps

LEMMA ReconnectsStep == PortalInv /\ Reconnects => PortalInv'
BY AppearsSound, CacheSteps DEF Cached, Reconnects, PortalInv, PortalTyped

LEMMA NoticeStep == ASSUME PortalInv, NEW key, Notice(key) PROVE PortalInv'
BY InvalidatedSound, CacheSteps DEF Cached, Notice, PortalInv, PortalTyped

-----------------------------------------------------------------------------
(* Steps of mutations                                                       *)

LEMMA OthersWriteStep == PortalInv /\ OthersWrite => PortalInv'
BY DEF Cached, OthersWrite, PortalInv, PortalTyped, Counted, Marked, OwnChangesAppear, IsShown, Mutations

LEMMA MutateStep ==
    ASSUME PortalInv, NEW m \in page.does, Mutate(m)
    PROVE  PortalInv'
<1>1. m \in Mutations
  BY DEF Cached, PortalInv, PortalTyped, Mutations
<1>2. UNCHANGED <<pages, page, watched, shown, clock, due>> /\ sent' = [does |-> m, wrote |-> 0]
  BY DEF Mutate
<1> QED
  BY <1>1, <1>2 DEF Cached, PortalInv, PortalTyped, Counted, Marked, OwnChangesAppear, IsShown, Mutations

LEMMA ServerWritesStep ==
    ASSUME PortalInv, ServerWrites
    PROVE  PortalInv'
<1>1. UNCHANGED <<pages, page, watched, shown, due>> /\ clock' \in {clock, clock + 1}
      /\ sent' = [sent EXCEPT !.wrote = clock'] /\ sent # NoMutation
  BY DEF ServerWrites
<1>2. sent.does # "none"
  BY <1>1 DEF Cached, PortalInv, PortalTyped, NoMutation
<1> QED
  BY <1>1, <1>2 DEF Cached, PortalInv, PortalTyped, Counted, Marked, OwnChangesAppear, IsShown, Mutations

(* The cache is told before the change is due: what it has then is either   *)
(* the change, or marked and asked for where it is shown.                   *)
LEMMA MutationSucceedsStep ==
    ASSUME PortalInv, MutationSucceeds
    PROVE  PortalInv'
<1>1. UNCHANGED <<pages, page, watched, clock>> /\ sent' = NoMutation /\ sent.wrote # 0
  BY DEF MutationSucceeds
<1>2. \/ due' = due
      \/ /\ due' = sent.wrote /\ WritesWatched(sent.does) /\ InTime(sent.does)
         /\ <<sent.does, watched>> \notin Unnoticed
  BY DEF MutationSucceeds
<1>3. /\ sent.does # "none" /\ sent.wrote \in Nat /\ due \in Nat /\ clock \in Nat
      /\ due <= sent.wrote /\ sent.wrote <= clock
  BY <1>1 DEF Cached, PortalInv, PortalTyped, Counted
<1>4. due' \in Nat /\ due <= due' /\ due' <= sent.wrote
  BY <1>2, <1>3
<1>5. SUFFICES /\ shown' \in Cached
               /\ Marked' /\ OwnChangesAppear'
  <2>1. sent' = [does |-> "none", wrote |-> 0]
    BY <1>1 DEF NoMutation
  <2> QED
    BY <1>1, <1>3, <1>4, <1>5, <2>1 DEF Cached, PortalInv, PortalTyped, Counted, Mutations
<1>6. CASE ReplacesWatched(sent.does)
  <2>1. shown' = [shown EXCEPT !.asOf = sent.wrote, !.stale = FALSE, !.failed = FALSE]
    BY <1>6, ReplacedOnly DEF MutationSucceeds
  <2>2. /\ shown' \in Cached
        /\ shown'.asOf = sent.wrote /\ shown'.fetch = shown.fetch /\ shown'.read = shown.read
    BY <1>3, <2>1 DEF Cached, PortalInv, PortalTyped
  <2>3. due' = due \/ shown.fetch = "none"
    BY <1>2, <1>6, ReplacedOnly DEF InTime
  <2> QED
    BY <1>3, <1>4, <2>2, <2>3 DEF PortalInv, Marked, OwnChangesAppear
<1>7. CASE InvalidatesWatched(sent.does)
  <2>1. shown' = Invalidated(shown)
    BY <1>7, ReplacedOnly DEF MutationSucceeds
  <2> DEFINE marked == [shown EXCEPT !.stale = TRUE]
  <2>2. /\ marked \in Cached
        /\ marked.asOf = shown.asOf /\ marked.stale = TRUE /\ marked.failed = shown.failed
        /\ marked.fetch = shown.fetch /\ marked.read = shown.read
    BY DEF Cached, PortalInv, PortalTyped
  <2>3. CASE shown' = Asked(marked)
    <3>1. /\ shown' \in Cached
          /\ shown'.stale = TRUE /\ shown'.fetch = "asked"
      BY <2>2, <2>3, AskedFields
    <3> HIDE DEF marked
    <3> QED
      BY <3>1 DEF Marked, OwnChangesAppear
  <2>4. CASE /\ shown' = marked
             /\ ~(IsShown(watched, page) /\ (shown.fetch = "none" \/ shown.asOf # 0))
    <3>1. due' = due \/ (shown.fetch = "none" /\ ~IsShown(watched, page))
      BY <1>2, <2>4 DEF InTime
    <3>2. shown'.fetch = "read" => shown'.read >= due'
      BY <2>2, <2>4, <3>1 DEF PortalInv, Marked
    <3>3. Marked'
      BY <2>2, <2>4, <3>2 DEF Marked
    <3>4. OwnChangesAppear'
      BY <1>1, <2>2, <2>4 DEF OwnChangesAppear, IsShown
    <3> QED
      BY <2>2, <2>4, <3>3, <3>4
  <2> QED
    BY <2>1, <2>3, <2>4 DEF Invalidated
<1>8. CASE ~ReplacesWatched(sent.does) /\ ~InvalidatesWatched(sent.does)
  <2>1. shown' = shown
    BY <1>8 DEF MutationSucceeds
  <2>2. due' = due
    BY <1>2, <1>3, <1>8, InHandTells DEF PortalInv
  <2> QED
    BY <1>1, <2>1, <2>2 DEF Cached, PortalInv, PortalTyped, Marked, OwnChangesAppear, IsShown
<1> QED
  BY <1>6, <1>7, <1>8

LEMMA MutationFailsStep == PortalInv /\ MutationFails => PortalInv'
BY DEF Cached, MutationFails, PortalInv, PortalTyped, Counted, Marked, OwnChangesAppear, IsShown,
       Mutations, NoMutation

LEMMA PortalStep == PortalInv /\ [PortalNext]_portalVars => PortalInv'
<1>1. CASE PortalNext
  BY <1>1, NavigateStep, FetchStep, ReconnectsStep, NoticeStep, OthersWriteStep, MutateStep,
     ServerWritesStep, MutationSucceedsStep, MutationFailsStep DEF PortalNext
<1>2. CASE UNCHANGED portalVars
  BY <1>2 DEF Cached, portalVars, PortalInv, PortalTyped, Counted, Marked, OwnChangesAppear, IsShown,
              Mutations
<1> QED
  BY <1>1, <1>2

LEMMA PortalInductive == PortalSpec => []PortalInv
BY PortalInitially, PortalStep, PTL DEF PortalSpec

(* The hooks' onSuccess, for any number of writes of the user and of others, *)
(* with fetches that are under way, fail or land late on any page.          *)
THEOREM OwnChangesAppearAlways == PortalSpec => []OwnChangesAppear
<1>1. PortalInv => OwnChangesAppear
  BY DEF PortalInv
<1> QED
  BY <1>1, PortalInductive, PTL

-----------------------------------------------------------------------------
(* TYPES OF THE CACHE                                                       *)

(* What is cached, or on its way to the cache, was read at a time that has   *)
(* been.                                                                    *)
ReadSoFar == shown.asOf <= clock /\ shown.read <= clock /\ clock \in 1 .. MaxWrites + 1

LEMMA ReadInitially == PortalInit => ReadSoFar
<1> SUFFICES ASSUME PortalInit PROVE ReadSoFar
  OBVIOUS
<1>1. /\ Nothing.asOf = 0 /\ Nothing.read = 0
      /\ Asked(Nothing).asOf = 0 /\ Asked(Nothing).read = 0
  BY DEF Nothing, Asked
<1>2. shown.asOf = 0 /\ shown.read = 0 /\ clock = 1
  BY <1>1 DEF PortalInit
<1> QED
  BY <1>2, PortalAssumption DEF ReadSoFar

(* Asking again, or marking, reads nothing newer.                           *)
LEMMA NothingNewer ==
    ASSUME PortalInv, NEW c \in {Asked(shown), [shown EXCEPT !.stale = TRUE],
                                 Asked([shown EXCEPT !.stale = TRUE]), shown,
                                 [shown EXCEPT !.fetch = "none", !.read = 0, !.failed = TRUE],
                                 [Nothing EXCEPT !.asOf = shown.read]}
    PROVE  /\ c.asOf \in {shown.asOf, shown.read}
           /\ c.read \in {0, shown.read}
<1>1. /\ DOMAIN shown = {"asOf", "stale", "failed", "fetch", "read"}
      /\ shown = [shown EXCEPT !.asOf = shown.asOf]
  BY DEF PortalInv, PortalTyped, Cached
<1> QED
  BY <1>1 DEF Asked, Nothing

LEMMA ReadStep == PortalInv /\ ReadSoFar /\ [PortalNext]_portalVars => ReadSoFar'
<1> SUFFICES ASSUME PortalInv, ReadSoFar, [PortalNext]_portalVars PROVE ReadSoFar'
  OBVIOUS
<1>0. /\ shown.asOf \in Nat /\ shown.read \in Nat /\ clock \in Nat /\ MaxWrites \in Nat
      /\ sent.wrote \in Nat /\ sent.wrote <= clock
  BY PortalAssumption DEF PortalInv, PortalTyped, Cached, Counted
<1>1. CASE clock' = clock /\ shown' \in {Asked(shown), [shown EXCEPT !.stale = TRUE],
                                 Asked([shown EXCEPT !.stale = TRUE]), shown,
                                 [shown EXCEPT !.fetch = "none", !.read = 0, !.failed = TRUE],
                                 [Nothing EXCEPT !.asOf = shown.read]}
  <2>1. shown'.asOf \in {shown.asOf, shown.read} /\ shown'.read \in {0, shown.read}
    BY <1>1, NothingNewer
  <2> QED
    BY <1>0, <1>1, <2>1 DEF ReadSoFar
<1>2. ASSUME NEW p \in pages, Navigate(p) PROVE ReadSoFar'
  BY <1>1, <1>2 DEF Navigate, Appears
<1>3. CASE ServerReads
  <2>1. shown'.asOf = shown.asOf /\ shown'.read = clock /\ clock' = clock
    BY <1>3 DEF ServerReads, PortalInv, PortalTyped, Cached
  <2> QED
    BY <1>0, <2>1 DEF ReadSoFar
<1>4. CASE FetchLands \/ FetchFails \/ StaleTimePasses
  BY <1>1, <1>4 DEF FetchLands, FetchFails, StaleTimePasses
<1>5. CASE Reconnects
  BY <1>1, <1>5 DEF Reconnects, Appears
<1>6. ASSUME NEW key \in Notices, Notice(key) PROVE ReadSoFar'
  BY <1>1, <1>6 DEF Notice, Invalidated
<1>7. CASE OthersWrite
  BY <1>0, <1>7 DEF OthersWrite, ReadSoFar
<1>8. ASSUME NEW m \in page.does, Mutate(m) PROVE ReadSoFar'
  BY <1>8 DEF Mutate, ReadSoFar
<1>9. CASE ServerWrites
  BY <1>0, <1>9 DEF ServerWrites, ReadSoFar
<1>10. CASE MutationSucceeds
  <2>1. CASE ReplacesWatched(sent.does)
    <3>1. shown' = [shown EXCEPT !.asOf = sent.wrote, !.stale = FALSE, !.failed = FALSE]
      BY <1>10, <2>1, ReplacedOnly DEF MutationSucceeds
    <3>2. shown'.asOf = sent.wrote /\ shown'.read = shown.read /\ clock' = clock
      BY <1>10, <3>1 DEF MutationSucceeds, PortalInv, PortalTyped, Cached
    <3> QED
      BY <1>0, <3>2 DEF ReadSoFar
  <2>2. CASE ~ReplacesWatched(sent.does)
    BY <1>1, <1>10, <2>2 DEF MutationSucceeds, Invalidated
  <2> QED
    BY <2>1, <2>2
<1>11. CASE MutationFails
  BY <1>11 DEF MutationFails, ReadSoFar
<1>12. CASE UNCHANGED portalVars
  BY <1>12 DEF portalVars, ReadSoFar
<1> QED
  BY <1>2, <1>3, <1>4, <1>5, <1>6, <1>7, <1>8, <1>9, <1>10, <1>11, <1>12 DEF PortalNext

LEMMA PortalHasType == PortalInv /\ ReadSoFar => PortalTypeOK
<1> SUFFICES ASSUME PortalInv, ReadSoFar PROVE PortalTypeOK
  OBVIOUS
<1>1. /\ shown.asOf \in Nat /\ shown.read \in Nat /\ clock \in Nat /\ due \in Nat
      /\ sent.wrote \in Nat /\ sent.wrote <= clock /\ due <= clock
      /\ sent.does \in {"none"} \union UNION {p.does : p \in pages}
      /\ shown.fetch \in {"none", "asked", "read"} /\ {shown.stale, shown.failed} \subseteq BOOLEAN
  BY DEF PortalInv, PortalTyped, Cached, Counted, Mutations
<1>2. page \in pages /\ watched \in UNION {p.shows : p \in pages}
  BY DEF PortalInv, PortalTyped
<1> QED
  BY <1>1, <1>2 DEF PortalTypeOK, ReadSoFar
=============================================================================
