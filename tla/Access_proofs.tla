---------------------------- MODULE Access_proofs ----------------------------
(***************************************************************************)
(* Proofs about who may do what: Sessions, for every set of tokens,        *)
(* devices and requests, and Accounts, for every set of persons, numbers   *)
(* and secrets.                                                            *)
(***************************************************************************)
EXTENDS Sessions, Accounts, FiniteSetTheorems, TLAPS

-----------------------------------------------------------------------------
(* Sessions *)

(* An open refresh holds a row of its family; if it is going to rotate it, *)
(* the row is still the live end of the family and the user may sign in.   *)
RefreshHolds ==
  \A q \in Req : refresh[q] # Idle =>
    /\ refresh[q].token \in Row
    /\ refresh[q].then = "rotate" => active /\ refresh[q].token \in Live \ rotated

(* Locks on a family exclude each other. *)
OneRefreshPerFamily ==
  \A q, p \in Req :
    q # p /\ refresh[q] # Idle /\ refresh[p] # Idle
      => family[refresh[q].token] # family[refresh[p].token]

(* No row is born behind the back of an operation that holds the user's    *)
(* row, so it revokes everything there is.                                 *)
SeenIsAll ==
  /\ ending.seen \subseteq Row
  /\ ending.op \in Strong => Live \subseteq ending.seen

(* A stored copy belongs to a valid token, is of its family, and is never  *)
(* revoked without it.                                                     *)
CopyFollows ==
  \A t \in copy :
    /\ t \in Live /\ next[t] \in Token /\ family[next[t]] = family[t]
    /\ next[t] \in ending.seen => t \in ending.seen

SessionInv ==
  /\ SessionTypeOK
  /\ RefreshHolds /\ OneRefreshPerFamily /\ SeenIsAll /\ CopyFollows
  /\ OneLiveLeaf /\ ReplayIsLive /\ LockedOutHasNoSession

LEMMA SessionInitInv == SessionInit => SessionInv
BY SessionAssumption
   DEF SessionInit, SessionInv, SessionTypeOK, RefreshHolds, OneRefreshPerFamily, SeenIsAll,
       CopyFollows, OneLiveLeaf, ReplayIsLive, LockedOutHasNoSession, Row, Live, Refresh, Idle,
       NoEnding, Ending, Strong, Weak

(* Steps that leave the rows, the copies and the user alone. *)
LEMMA RowsKept ==
  ASSUME SessionInv,
         UNCHANGED <<family, next, rotated, copy, revoked, active>>
  PROVE  /\ Row' = Row /\ Live' = Live
         /\ OneLiveLeaf' /\ ReplayIsLive' /\ LockedOutHasNoSession'
BY DEF SessionInv, OneLiveLeaf, ReplayIsLive, LockedOutHasNoSession, Row, Live

LEMMA SignInInv ==
  ASSUME SessionInv, NEW f \in Family, NEW t \in Token, SignIn(f, t)
  PROVE  SessionInv'
<1> USE DEF SessionInv, Row, Live
<1>1. f # Nobody
  BY SessionAssumption
<1>2. Row' = Row \cup {t} /\ Live' = Live \cup {t} /\ t \notin Row
  BY <1>1 DEF SignIn, SessionTypeOK
<1>3. \A u \in Row : family'[u] = family[u] /\ family[u] # f
  BY DEF SignIn, SessionTypeOK
<1>4. SessionTypeOK'
  BY <1>2 DEF SessionTypeOK, SignIn
<1>5. RefreshHolds'
  BY <1>2 DEF RefreshHolds, SignIn, SessionTypeOK
<1>6. OneRefreshPerFamily'
  BY <1>3 DEF OneRefreshPerFamily, RefreshHolds, SignIn
<1>7. SeenIsAll'
  BY <1>2 DEF SeenIsAll, SignIn, Strong
<1>8. CopyFollows'
  <2> SUFFICES ASSUME NEW u \in copy PROVE
        /\ u \in Live' /\ next[u] \in Token /\ family'[next[u]] = family'[u]
        /\ next[u] \in ending.seen => u \in ending.seen
    BY DEF CopyFollows, SignIn
  <2>1. next[u] \in Row
    BY DEF ReplayIsLive
  <2> QED BY <2>1, <1>2, <1>3 DEF CopyFollows
<1>9. OneLiveLeaf'
  <2> SUFFICES ASSUME NEW u \in (Live \ rotated)', NEW v \in (Live \ rotated)',
                      family'[u] = family'[v]
               PROVE  u = v
    BY DEF OneLiveLeaf
  <2>1. u \in Row \cup {t} /\ v \in Row \cup {t} /\ family'[t] = f
    BY <1>2 DEF SignIn, SessionTypeOK
  <2>2. CASE u = t \/ v = t
    BY <2>1, <2>2, <1>3
  <2>3. CASE u # t /\ v # t
    BY <2>1, <2>3, <1>2, <1>3 DEF OneLiveLeaf, SignIn
  <2> QED BY <2>2, <2>3
<1>10. ReplayIsLive'
  BY <1>2 DEF ReplayIsLive, SignIn
<1>11. LockedOutHasNoSession'
  BY DEF LockedOutHasNoSession, SignIn
<1> QED BY <1>4, <1>5, <1>6, <1>7, <1>8, <1>9, <1>10, <1>11

LEMMA OpenInv ==
  ASSUME SessionInv, NEW q \in Req, NEW t \in Token, Open(q, t)
  PROVE  SessionInv'
<1> USE DEF SessionInv
<1>1. Row' = Row /\ Live' = Live /\ copy' \subseteq copy
  BY DEF Open, Row, Live, Wiped
<1>2. Answer(t) = "rotate" => t \in Live \ rotated /\ active
  BY DEF Answer, Live, Open
<1>3. \/ refresh'[q] = Idle
      \/ /\ refresh'[q] = [token |-> t, then |-> Answer(t)]
         /\ Answer(t) \in {"rotate", "reuse"}
  BY DEF Open, SessionTypeOK
<1>4. \A p \in Req \ {q} : refresh'[p] = refresh[p]
  BY DEF Open, SessionTypeOK
<1>5. refresh' \in [Req -> Refresh]
  BY DEF Open, SessionTypeOK, Refresh
<1>6. SessionTypeOK'
  BY <1>1, <1>5 DEF SessionTypeOK, Open
<1>7. RefreshHolds'
  BY <1>1, <1>2, <1>3, <1>4 DEF RefreshHolds, Open
<1>8. OneRefreshPerFamily'
  <2>1. \A p \in Req \ {q} : refresh[p] # Idle => family[refresh[p].token] # family[t]
    BY DEF Open, FamilyLocked
  <2> QED BY <2>1, <1>3, <1>4 DEF OneRefreshPerFamily, Open
<1>9. SeenIsAll' /\ CopyFollows' /\ OneLiveLeaf' /\ ReplayIsLive' /\ LockedOutHasNoSession'
  BY <1>1 DEF SeenIsAll, CopyFollows, OneLiveLeaf, ReplayIsLive, LockedOutHasNoSession, Open
<1> QED BY <1>6, <1>7, <1>8, <1>9

LEMMA RotateInv ==
  ASSUME SessionInv, NEW q \in Req, NEW n \in Token, Rotate(q, n)
  PROVE  SessionInv'
<1> USE DEF SessionInv
<1> DEFINE t == refresh[q].token
<1>1. refresh[q] # Idle /\ t \in Live \ rotated /\ t \in Row /\ active
  BY DEF Rotate, RefreshHolds, Idle
<1>2. t \in Token /\ family[t] \in Family /\ n # t /\ n \notin Row
  BY <1>1 DEF Row, Rotate, SessionTypeOK
<1>3. /\ family' = [family EXCEPT ![n] = family[t]]
      /\ next' = [next EXCEPT ![t] = n]
      /\ rotated' = rotated \cup {t}
      /\ copy' = (copy \cup {t}) \ {u \in Token : next[u] = t}
      /\ refresh' = [refresh EXCEPT ![q] = Idle]
      /\ UNCHANGED <<revoked, active, ending>>
  BY DEF Rotate
<1>4. Row' = Row \cup {n} /\ Live' = Live \cup {n} /\ n \notin rotated'
  BY <1>2, <1>3, SessionAssumption DEF Row, Live, SessionTypeOK
<1>5. \A u \in Row : family'[u] = family[u]
  BY <1>2, <1>3 DEF SessionTypeOK, Row
<1>6. family'[n] = family[t] /\ next'[t] = n /\ \A u \in Token \ {t} : next'[u] = next[u]
  BY <1>2, <1>3 DEF SessionTypeOK
<1>7. SessionTypeOK'
  <2>1. refresh' \in [Req -> Refresh]
    BY <1>3 DEF SessionTypeOK, Refresh
  <2>2. grace' \subseteq Row'
    BY <1>1, <1>4 DEF Rotate, SessionTypeOK
  <2> QED BY <2>1, <2>2, <1>1, <1>2, <1>3, <1>4 DEF SessionTypeOK
<1>8. RefreshHolds'
  <2> SUFFICES ASSUME NEW p \in Req, refresh'[p] # Idle
               PROVE  /\ refresh'[p].token \in Row'
                      /\ refresh'[p].then = "rotate" => active' /\ refresh'[p].token \in (Live \ rotated)'
    BY DEF RefreshHolds
  <2>1. p # q /\ refresh'[p] = refresh[p]
    BY <1>3 DEF SessionTypeOK
  <2>2. refresh[p].token # t
    BY <2>1, <1>1 DEF OneRefreshPerFamily
  <2> QED BY <2>1, <2>2, <1>3, <1>4 DEF RefreshHolds
<1>9. OneRefreshPerFamily'
  BY <1>3, <1>5 DEF OneRefreshPerFamily, RefreshHolds, SessionTypeOK
<1>10. SeenIsAll'
  BY <1>3, <1>4 DEF SeenIsAll, Rotate, UserLocked
<1>11. OneLiveLeaf'
  <2> SUFFICES ASSUME NEW u \in (Live \ rotated)', NEW v \in (Live \ rotated)',
                      family'[u] = family'[v]
               PROVE  u = v
    BY DEF OneLiveLeaf
  <2>1. \A w \in (Live \ rotated)' : w = n \/ (w \in Live \ rotated /\ w # t /\ w \in Row)
    BY <1>3, <1>4 DEF Live
  <2>2. \A w \in Live \ rotated : w # t => family[w] # family[t]
    BY <1>1 DEF OneLiveLeaf
  <2>3. CASE u = n \/ v = n
    BY <2>1, <2>2, <2>3, <1>5, <1>6
  <2>4. CASE u # n /\ v # n
    BY <2>1, <2>4, <1>5 DEF OneLiveLeaf
  <2> QED BY <2>3, <2>4
<1>12. \A u \in copy' : u = t \/ (u \in copy /\ u # t /\ u \in Token /\ next[u] # t)
  BY <1>3, <1>1 DEF SessionTypeOK, Row
<1>13. ReplayIsLive'
  BY <1>12, <1>6, <1>4, <1>3 DEF ReplayIsLive
<1>14. CopyFollows'
  <2> SUFFICES ASSUME NEW u \in copy'
               PROVE  /\ u \in Live' /\ next'[u] \in Token /\ family'[next'[u]] = family'[u]
                      /\ next'[u] \in ending'.seen => u \in ending'.seen
    BY DEF CopyFollows
  <2>1. CASE u = t
    BY <2>1, <1>1, <1>2, <1>3, <1>4, <1>5, <1>6 DEF SeenIsAll
  <2>2. CASE u # t
    <3>1. u \in copy /\ next'[u] = next[u] /\ u \in Row /\ next[u] \in Row
      BY <2>2, <1>12, <1>6 DEF ReplayIsLive, Live, SessionTypeOK
    <3> QED BY <3>1, <1>3, <1>4, <1>5 DEF CopyFollows
  <2> QED BY <2>1, <2>2
<1>15. LockedOutHasNoSession'
  BY <1>1, <1>3 DEF LockedOutHasNoSession
<1> QED BY <1>7, <1>8, <1>9, <1>10, <1>11, <1>13, <1>14, <1>15

LEMMA RevokeReusedInv ==
  ASSUME SessionInv, NEW q \in Req, RevokeReused(q)
  PROVE  SessionInv'
<1> USE DEF SessionInv
<1> DEFINE t == refresh[q].token
           gone == {u \in Row : family[u] = family[t]}
<1>1. refresh[q] # Idle
  BY DEF RevokeReused, Idle
<1>2. /\ revoked' = revoked \cup gone
      /\ copy' = copy \ gone
      /\ refresh' = [refresh EXCEPT ![q] = Idle]
      /\ UNCHANGED <<family, next, rotated, grace, active, ending>>
  BY DEF RevokeReused
<1> HIDE DEF t
<1>3. Row' = Row /\ Live' = Live \ gone
  BY <1>2 DEF Row, Live
<1>4. SessionTypeOK'
  <2>1. refresh' \in [Req -> Refresh]
    BY <1>2 DEF SessionTypeOK, Refresh
  <2> QED BY <2>1, <1>2, <1>3 DEF SessionTypeOK
<1>5. \A p \in Req : refresh'[p] # Idle => p # q /\ refresh'[p] = refresh[p]
  BY <1>2 DEF SessionTypeOK
<1>6. RefreshHolds'
  BY <1>1, <1>2, <1>3, <1>5 DEF RefreshHolds, OneRefreshPerFamily, t
<1>7. OneRefreshPerFamily'
  BY <1>2, <1>5 DEF OneRefreshPerFamily
<1>8. SeenIsAll'
  BY <1>2, <1>3 DEF SeenIsAll
<1>9. \A u \in copy' : u \in copy /\ u \in Live' /\ next[u] \in (Live \ rotated)'
  BY <1>2, <1>3 DEF CopyFollows, ReplayIsLive, Live
<1>10. CopyFollows' /\ ReplayIsLive'
  BY <1>2, <1>9 DEF CopyFollows, ReplayIsLive
<1>11. OneLiveLeaf' /\ LockedOutHasNoSession'
  BY <1>2, <1>3 DEF OneLiveLeaf, LockedOutHasNoSession
<1> QED BY <1>4, <1>6, <1>7, <1>8, <1>10, <1>11

LEMMA StartInv ==
  ASSUME SessionInv,
         \/ \E op \in Strong \cup Weak : StartEnding(op)
         \/ \E f \in Family : StartLogout(f)
  PROVE  SessionInv'
<1> USE DEF SessionInv
<1>1. UNCHANGED <<tokenRows, active, refresh>>
  BY DEF StartEnding, StartLogout
<1>2. UNCHANGED <<family, next, rotated, copy, grace, revoked, active>>
  BY <1>1 DEF tokenRows
<1>3. Row' = Row /\ Live' = Live /\ OneLiveLeaf' /\ ReplayIsLive' /\ LockedOutHasNoSession'
  BY <1>2, RowsKept
<1>4. \/ ending'.seen = Live /\ ending' \in Ending
      \/ /\ ending' \in Ending /\ ending'.op = "logout"
         /\ \E f \in Family : ending'.seen = {u \in Live : family[u] = f}
  BY DEF StartEnding, StartLogout, Ending, Live, Row
<1>5. SessionTypeOK'
  BY <1>1, <1>2, <1>3, <1>4 DEF SessionTypeOK
<1>6. RefreshHolds' /\ OneRefreshPerFamily'
  BY <1>1, <1>2, <1>3 DEF RefreshHolds, OneRefreshPerFamily
<1>7. SeenIsAll'
  BY <1>3, <1>4 DEF SeenIsAll, Strong, Live
<1>8. CopyFollows'
  BY <1>2, <1>3, <1>4 DEF CopyFollows
<1> QED BY <1>3, <1>5, <1>6, <1>7, <1>8

LEMMA EndInv ==
  ASSUME SessionInv, End
  PROVE  SessionInv'
<1> USE DEF SessionInv
<1>1. /\ revoked' = revoked \cup ending.seen
      /\ copy' = copy \ ending.seen
      /\ ending' = NoEnding
      /\ UNCHANGED <<family, next, rotated, grace, refresh>>
  BY DEF End
<1>2. Row' = Row /\ Live' = Live \ ending.seen
  BY <1>1 DEF Row, Live
<1>3. \A q \in Req : refresh[q] # Idle => refresh[q].token \notin ending.seen
  BY DEF End, FamilyLocked
<1>4. ~active' => Live' = {}
  <2>1. CASE active /\ ~active'
    <3>1. ending.op \in Strong
      BY <2>1 DEF End, StatusAfter, Strong
    <3> QED BY <3>1, <1>2 DEF SeenIsAll
  <2>2. CASE ~active
    BY <2>2, <1>2 DEF LockedOutHasNoSession
  <2> QED BY <2>1, <2>2
<1>5. SessionTypeOK'
  <2>1. active' \in BOOLEAN
    BY DEF End, StatusAfter, SessionTypeOK
  <2>2. ending' \in Ending
    BY <1>1 DEF NoEnding, Ending
  <2>3. revoked' \subseteq Row' /\ copy' \subseteq Row'
    BY <1>1, <1>2 DEF SessionTypeOK, SeenIsAll
  <2> QED BY <2>1, <2>2, <2>3, <1>1, <1>2 DEF SessionTypeOK
<1>6. RefreshHolds'
  BY <1>1, <1>2, <1>3, <1>4 DEF RefreshHolds, SessionTypeOK
<1>7. OneRefreshPerFamily'
  BY <1>1 DEF OneRefreshPerFamily
<1>8. SeenIsAll'
  BY <1>1 DEF SeenIsAll, NoEnding, Strong
<1>9. CopyFollows' /\ ReplayIsLive'
  BY <1>1, <1>2 DEF CopyFollows, ReplayIsLive, NoEnding
<1>10. OneLiveLeaf' /\ LockedOutHasNoSession'
  BY <1>1, <1>2, <1>4 DEF OneLiveLeaf, LockedOutHasNoSession
<1> QED BY <1>5, <1>6, <1>7, <1>8, <1>9, <1>10

LEMMA RemainingStepsInv ==
  ASSUME SessionInv,
         \/ Reactivate
         \/ \E t \in Token : GraceEnds(t)
         \/ \E q \in Req : RefreshAborted(q) \/ EndingAborted(q)
         \/ UNCHANGED sessionVars
  PROVE  SessionInv'
<1> USE DEF SessionInv
<1>1. CASE Reactivate
  BY <1>1 DEF Reactivate, tokenRows, SessionTypeOK, RefreshHolds, OneRefreshPerFamily, SeenIsAll,
              CopyFollows, OneLiveLeaf, ReplayIsLive, LockedOutHasNoSession, Row, Live
<1>2. CASE \E t \in Token : GraceEnds(t)
  <2>1. UNCHANGED <<family, next, rotated, copy, revoked, active, refresh, ending>>
    BY <1>2 DEF GraceEnds
  <2>2. grace' \subseteq Row
    BY <1>2 DEF GraceEnds, SessionTypeOK
  <2> QED BY <2>1, <2>2, RowsKept
          DEF SessionTypeOK, RefreshHolds, OneRefreshPerFamily, SeenIsAll, CopyFollows
<1>3. CASE \E q \in Req : RefreshAborted(q)
  <2>1. PICK q \in Req : RefreshAborted(q)
    BY <1>3
  <2>2. refresh' = [refresh EXCEPT ![q] = Idle] /\ UNCHANGED <<tokenRows, active, ending>>
    BY <2>1 DEF RefreshAborted
  <2>3. refresh' \in [Req -> Refresh]
    BY <2>2 DEF SessionTypeOK, Refresh
  <2>4. \A p \in Req : refresh'[p] # Idle => refresh'[p] = refresh[p]
    BY <2>2 DEF SessionTypeOK
  <2> QED BY <2>2, <2>3, <2>4, RowsKept
          DEF tokenRows, SessionTypeOK, RefreshHolds, OneRefreshPerFamily, SeenIsAll, CopyFollows
<1>4. CASE \E q \in Req : EndingAborted(q)
  <2>1. ending' = NoEnding /\ UNCHANGED <<tokenRows, active, refresh>>
    BY <1>4 DEF EndingAborted
  <2> QED BY <2>1, RowsKept
          DEF tokenRows, SessionTypeOK, RefreshHolds, OneRefreshPerFamily, SeenIsAll, CopyFollows,
              NoEnding, Ending, Strong
<1>5. CASE UNCHANGED sessionVars
  BY <1>5, RowsKept
     DEF sessionVars, SessionTypeOK, RefreshHolds, OneRefreshPerFamily, SeenIsAll, CopyFollows
<1> QED BY <1>1, <1>2, <1>3, <1>4, <1>5

(* The inductive invariant: locks, what an operation in progress saw, and  *)
(* where the stored copies are, together with the properties themselves.   *)
THEOREM SessionsSafe == SessionSpec => []SessionInv
<1>1. SessionInv /\ [SessionNext]_sessionVars => SessionInv'
  BY SignInInv, OpenInv, RotateInv, RevokeReusedInv, StartInv, EndInv, RemainingStepsInv
     DEF SessionNext
<1> QED BY <1>1, SessionInitInv, PTL DEF SessionSpec

(* Every row, lock and transaction of the sessions has its type. *)
THEOREM SessionTypeCorrect == SessionSpec => []SessionTypeOK
<1>1. SessionInv => SessionTypeOK
  BY DEF SessionInv
<1> QED BY <1>1, SessionsSafe, PTL

(* rotateSession: whatever is presented, and however often, a family never *)
(* has two tokens that could be rotated.                                   *)
THEOREM FamilyHasOneEnd == SessionSpec => []OneLiveLeaf
<1>1. SessionInv => OneLiveLeaf
  BY DEF SessionInv
<1> QED BY <1>1, SessionsSafe, PTL

(* replaySuccessor: a copy that is still stored is the family's live end.  *)
THEOREM ReplayGivesLiveToken == SessionSpec => []ReplayIsLive
<1>1. SessionInv => ReplayIsLive
  BY DEF SessionInv
<1> QED BY <1>1, SessionsSafe, PTL

(* freezeUser, resetPin: a user who may not sign in has no live session,   *)
(* although refreshes were under way while his sessions were revoked.      *)
THEOREM LockedOutIsOut == SessionSpec => []LockedOutHasNoSession
<1>1. SessionInv => LockedOutHasNoSession
  BY DEF SessionInv
<1> QED BY <1>1, SessionsSafe, PTL

-----------------------------------------------------------------------------
(* Accounts *)

(* While a transaction is behind the check, the administrator it found     *)
(* besides its own one stays: only such a transaction removes any, and     *)
(* there is one of them at a time.                                         *)
AdminRemains ==
  /\ AnAdminIsLeft
  /\ \A g \in gate : \E q \in ActiveAdmins : q # g.who
  /\ \A g, h \in gate : g = h

(* CodeOrPin, also for those who are frozen or do not exist yet. *)
SecretsFit ==
  /\ CodeOrPin
  /\ \A p \in Person :
       /\ pin[p] # NoSecret => code[p] = NoSecret
       /\ standing[p] = "absent" => pin[p] = NoSecret

AccountInv == AccountTypeOK /\ AdminRemains /\ SecretsFit /\ SessionIsCurrent

-----------------------------------------------------------------------------
(* assertLastActiveAdminInvariant finds an administrator besides p. *)
LEMMA AnotherAdmin ==
  ASSUME NEW p \in Person, AnAdminIsLeft, AnotherAdminThan(p)
  PROVE  \E q \in ActiveAdmins : q # p
<1>1. CASE p \notin ActiveAdmins
  BY <1>1 DEF AnAdminIsLeft
<1>2. CASE p \in ActiveAdmins
  <2>1. SUFFICES ASSUME \A q \in ActiveAdmins : q = p PROVE FALSE
    OBVIOUS
  <2>2. ActiveAdmins = {p}
    BY <1>2, <2>1
  <2>3. Cardinality(ActiveAdmins) = 1
    BY <2>2, FS_Singleton
  <2> QED BY <1>2, <2>3 DEF AnotherAdminThan
<1> QED BY <1>1, <1>2

LEMMA SecretIsSome ==
  /\ NoSecret \notin Secret
  /\ \A c \in New : c \in Secret
BY AccountAssumption DEF NoSecret, Secret, New

LEMMA AccountsBegin == AccountInit => AccountInv
<1> SUFFICES ASSUME AccountInit PROVE AccountInv
  OBVIOUS
<1>1. 1 \in Secret /\ NoSecret # 1 /\ Boss \in Person
  BY AccountAssumption DEF Secret, NoSecret
<1>2. AccountTypeOK
  BY <1>1 DEF AccountInit, AccountTypeOK
<1>3. ActiveAdmins = {Boss}
  BY <1>1 DEF AccountInit, ActiveAdmins
<1>4. AdminRemains
  BY <1>3 DEF AccountInit, AdminRemains, AnAdminIsLeft
<1>5. SecretsFit
  BY <1>1 DEF AccountInit, SecretsFit, CodeOrPin
<1>6. SessionIsCurrent
  BY DEF AccountInit, SessionIsCurrent
<1> QED BY <1>2, <1>4, <1>5, <1>6 DEF AccountInv

LEMMA AccountTypeStep ==
  ASSUME AccountTypeOK, [AccountNext]_accountVars PROVE AccountTypeOK'
<1> USE SecretIsSome DEF AccountTypeOK, pending
<1>1. ASSUME NEW p \in Person, NEW asAdmin \in BOOLEAN, NEW c \in Secret, CreateUser(p, asAdmin, c) PROVE AccountTypeOK'
  BY <1>1 DEF CreateUser
<1>2. ASSUME NEW p \in Person, CompareCode(p) PROVE AccountTypeOK'
  BY <1>2 DEF CompareCode
<1>3. ASSUME NEW p \in Person, ComparePin(p) PROVE AccountTypeOK'
  <2>1. [pin |-> pin[p], phone |-> phoneNo[p]] \in Known
    BY <1>3 DEF ComparePin, Known
  <2> QED BY <1>3, <2>1 DEF ComparePin
<1>4. ASSUME NEW p \in Person, Login(p) PROVE AccountTypeOK'
  BY <1>4 DEF Login
<1>5. ASSUME NEW p \in Person, Logout(p) PROVE AccountTypeOK'
  BY <1>5 DEF Logout
<1>6. ASSUME NEW p \in Person, NEW n \in Secret, Activate(p, n) PROVE AccountTypeOK'
  <2>1. [pin |-> n, phone |-> phoneNo[p]] \in Known
    BY <1>6 DEF Known
  <2> QED BY <1>6, <2>1 DEF Activate
<1>7. ASSUME NEW p \in Person, NEW n \in Secret, ReissueCode(p, n) PROVE AccountTypeOK'
  BY <1>7 DEF ReissueCode
<1>8. ASSUME NEW p \in Person, NEW n \in Secret, SetPin(p, n) PROVE AccountTypeOK'
  BY <1>8 DEF SetPin
<1>9. ASSUME NEW p \in Person, NEW n \in Secret, ResetPin(p, n) PROVE AccountTypeOK'
  BY <1>9 DEF ResetPin, Leaves
<1>10. ASSUME NEW p \in Person, OpenForm(p) PROVE AccountTypeOK'
  BY <1>10 DEF OpenForm
<1>11. ASSUME NEW p \in Person, NEW op \in {"freeze", "resetPin", "demote"}, Pass(op, p) PROVE AccountTypeOK'
  <2>1. [op |-> op, who |-> p] \in Gate
    BY <1>11 DEF Gate
  <2> QED BY <1>11, <2>1 DEF Pass
<1>12. ASSUME NEW p \in Person, FreezeUser(p) PROVE AccountTypeOK'
  BY <1>12 DEF FreezeUser, Leaves
<1>13. ASSUME NEW p \in Person, Demote(p) PROVE AccountTypeOK'
  BY <1>13 DEF Demote, Leaves
<1>14. ASSUME NEW p \in Person, Promote(p) PROVE AccountTypeOK'
  BY <1>14 DEF Promote
<1>15. ASSUME NEW p \in Person, ChangePhone(p) PROVE AccountTypeOK'
  BY <1>15 DEF ChangePhone
<1>16. ASSUME NEW p \in Person, UnfreezeUser(p) PROVE AccountTypeOK'
  BY <1>16 DEF UnfreezeUser
<1>17. ASSUME NEW p \in Person, CodeExpires(p) PROVE AccountTypeOK'
  BY <1>17 DEF CodeExpires
<1>18. CASE UNCHANGED accountVars
  BY <1>18 DEF accountVars, pending
<1> QED BY <1>1, <1>2, <1>3, <1>4, <1>5, <1>6, <1>7, <1>8, <1>9, <1>10, <1>11, <1>12, <1>13, <1>14, <1>15, <1>16, <1>17, <1>18 DEF AccountNext

LEMMA AdminRemainsStep ==
  ASSUME AccountTypeOK, AdminRemains, [AccountNext]_accountVars PROVE AdminRemains'
<1> DEFINE Kept == ActiveAdmins \subseteq ActiveAdmins' /\ gate' \subseteq gate
<1> USE DEF pending
<1>0. ASSUME Kept PROVE AdminRemains'
  BY <1>0 DEF AdminRemains, AnAdminIsLeft
<1>1. ASSUME NEW p \in Person, NEW asAdmin \in BOOLEAN, NEW c \in Secret, CreateUser(p, asAdmin, c) PROVE AdminRemains'
  <2>1. Kept
    BY <1>1 DEF CreateUser, ActiveAdmins, AccountTypeOK
  <2> QED BY <2>1, <1>0
<1>2. ASSUME NEW p \in Person, CompareCode(p) PROVE AdminRemains'
  <2>1. Kept
    BY <1>2 DEF CompareCode, ActiveAdmins, AccountTypeOK
  <2> QED BY <2>1, <1>0
<1>3. ASSUME NEW p \in Person, ComparePin(p) PROVE AdminRemains'
  <2>1. Kept
    BY <1>3 DEF ComparePin, ActiveAdmins, AccountTypeOK
  <2> QED BY <2>1, <1>0
<1>4. ASSUME NEW p \in Person, Login(p) PROVE AdminRemains'
  <2>1. Kept
    BY <1>4 DEF Login, ActiveAdmins, AccountTypeOK
  <2> QED BY <2>1, <1>0
<1>5. ASSUME NEW p \in Person, Logout(p) PROVE AdminRemains'
  <2>1. Kept
    BY <1>5 DEF Logout, ActiveAdmins, AccountTypeOK
  <2> QED BY <2>1, <1>0
<1>6. ASSUME NEW p \in Person, NEW n \in Secret, Activate(p, n) PROVE AdminRemains'
  <2>1. Kept
    BY <1>6 DEF Activate, ActiveAdmins, AccountTypeOK
  <2> QED BY <2>1, <1>0
<1>7. ASSUME NEW p \in Person, NEW n \in Secret, ReissueCode(p, n) PROVE AdminRemains'
  <2>1. Kept
    BY <1>7 DEF ReissueCode, ActiveAdmins, AccountTypeOK
  <2> QED BY <2>1, <1>0
<1>8. ASSUME NEW p \in Person, NEW n \in Secret, SetPin(p, n) PROVE AdminRemains'
  <2>1. Kept
    BY <1>8 DEF SetPin, ActiveAdmins, AccountTypeOK
  <2> QED BY <2>1, <1>0
<1>9. ASSUME NEW p \in Person, NEW n \in Secret, ResetPin(p, n) PROVE AdminRemains'
  <2> DEFINE g == [op |-> "resetPin", who |-> p]
  <2>1. g \in gate /\ gate' = gate \ {g}
    BY <1>9 DEF ResetPin, Leaves
  <2>2. PICK q \in ActiveAdmins : q # p
    BY <2>1 DEF AdminRemains
  <2>3. q \in ActiveAdmins'
    BY <1>9, <2>2 DEF ResetPin, ActiveAdmins, AccountTypeOK
  <2>4. gate' = {}
    BY <2>1 DEF AdminRemains
  <2> QED BY <2>3, <2>4 DEF AdminRemains, AnAdminIsLeft
<1>10. ASSUME NEW p \in Person, OpenForm(p) PROVE AdminRemains'
  <2>1. Kept
    BY <1>10 DEF OpenForm, ActiveAdmins, AccountTypeOK
  <2> QED BY <2>1, <1>0
<1>11. ASSUME NEW p \in Person, NEW op \in {"freeze", "resetPin", "demote"}, Pass(op, p) PROVE AdminRemains'
  <2>1. gate' = {[op |-> op, who |-> p]} /\ ActiveAdmins' = ActiveAdmins
    BY <1>11 DEF Pass, ActiveAdmins
  <2>2. \E q \in ActiveAdmins : q # p
    BY <1>11, AnotherAdmin DEF Pass, AdminRemains
  <2> QED BY <2>1, <2>2 DEF AdminRemains, AnAdminIsLeft
<1>12. ASSUME NEW p \in Person, FreezeUser(p) PROVE AdminRemains'
  <2> DEFINE g == [op |-> "freeze", who |-> p]
  <2>1. g \in gate /\ gate' = gate \ {g}
    BY <1>12 DEF FreezeUser, Leaves
  <2>2. PICK q \in ActiveAdmins : q # p
    BY <2>1 DEF AdminRemains
  <2>3. q \in ActiveAdmins'
    BY <1>12, <2>2 DEF FreezeUser, ActiveAdmins, AccountTypeOK
  <2>4. gate' = {}
    BY <2>1 DEF AdminRemains
  <2> QED BY <2>3, <2>4 DEF AdminRemains, AnAdminIsLeft
<1>13. ASSUME NEW p \in Person, Demote(p) PROVE AdminRemains'
  <2> DEFINE g == [op |-> "demote", who |-> p]
  <2>1. g \in gate /\ gate' = gate \ {g}
    BY <1>13 DEF Demote, Leaves
  <2>2. PICK q \in ActiveAdmins : q # p
    BY <2>1 DEF AdminRemains
  <2>3. q \in ActiveAdmins'
    BY <1>13, <2>2 DEF Demote, ActiveAdmins, AccountTypeOK
  <2>4. gate' = {}
    BY <2>1 DEF AdminRemains
  <2> QED BY <2>3, <2>4 DEF AdminRemains, AnAdminIsLeft
<1>14. ASSUME NEW p \in Person, Promote(p) PROVE AdminRemains'
  <2>1. Kept
    BY <1>14 DEF Promote, ActiveAdmins, AccountTypeOK
  <2> QED BY <2>1, <1>0
<1>15. ASSUME NEW p \in Person, ChangePhone(p) PROVE AdminRemains'
  <2>1. Kept
    BY <1>15 DEF ChangePhone, ActiveAdmins, AccountTypeOK
  <2> QED BY <2>1, <1>0
<1>16. ASSUME NEW p \in Person, UnfreezeUser(p) PROVE AdminRemains'
  <2>1. Kept
    BY <1>16 DEF UnfreezeUser, ActiveAdmins, AccountTypeOK
  <2> QED BY <2>1, <1>0
<1>17. ASSUME NEW p \in Person, CodeExpires(p) PROVE AdminRemains'
  <2>1. Kept
    BY <1>17 DEF CodeExpires, ActiveAdmins, AccountTypeOK
  <2> QED BY <2>1, <1>0
<1>18. CASE UNCHANGED accountVars
  BY <1>18, <1>0 DEF accountVars, ActiveAdmins
<1> QED BY <1>1, <1>2, <1>3, <1>4, <1>5, <1>6, <1>7, <1>8, <1>9, <1>10, <1>11, <1>12, <1>13, <1>14, <1>15, <1>16, <1>17, <1>18 DEF AccountNext

LEMMA SecretsFitStep ==
  ASSUME AccountTypeOK, SecretsFit, [AccountNext]_accountVars PROVE SecretsFit'
<1> USE SecretIsSome DEF AccountTypeOK, SecretsFit, CodeOrPin, pending
<1>1. ASSUME NEW p \in Person, NEW asAdmin \in BOOLEAN, NEW c \in Secret, CreateUser(p, asAdmin, c) PROVE SecretsFit'
  BY <1>1 DEF CreateUser
<1>2. ASSUME NEW p \in Person, CompareCode(p) PROVE SecretsFit'
  BY <1>2 DEF CompareCode
<1>3. ASSUME NEW p \in Person, ComparePin(p) PROVE SecretsFit'
  BY <1>3 DEF ComparePin
<1>4. ASSUME NEW p \in Person, Login(p) PROVE SecretsFit'
  BY <1>4 DEF Login
<1>5. ASSUME NEW p \in Person, Logout(p) PROVE SecretsFit'
  BY <1>5 DEF Logout
<1>6. ASSUME NEW p \in Person, NEW n \in Secret, Activate(p, n) PROVE SecretsFit'
  BY <1>6 DEF Activate
<1>7. ASSUME NEW p \in Person, NEW n \in Secret, ReissueCode(p, n) PROVE SecretsFit'
  BY <1>7 DEF ReissueCode
<1>8. ASSUME NEW p \in Person, NEW n \in Secret, SetPin(p, n) PROVE SecretsFit'
  BY <1>8 DEF SetPin
<1>9. ASSUME NEW p \in Person, NEW n \in Secret, ResetPin(p, n) PROVE SecretsFit'
  BY <1>9 DEF ResetPin, Leaves
<1>10. ASSUME NEW p \in Person, OpenForm(p) PROVE SecretsFit'
  BY <1>10 DEF OpenForm
<1>11. ASSUME NEW p \in Person, NEW op \in {"freeze", "resetPin", "demote"}, Pass(op, p) PROVE SecretsFit'
  BY <1>11 DEF Pass
<1>12. ASSUME NEW p \in Person, FreezeUser(p) PROVE SecretsFit'
  BY <1>12 DEF FreezeUser, Leaves
<1>13. ASSUME NEW p \in Person, Demote(p) PROVE SecretsFit'
  BY <1>13 DEF Demote, Leaves
<1>14. ASSUME NEW p \in Person, Promote(p) PROVE SecretsFit'
  BY <1>14 DEF Promote
<1>15. ASSUME NEW p \in Person, ChangePhone(p) PROVE SecretsFit'
  BY <1>15 DEF ChangePhone
<1>16. ASSUME NEW p \in Person, UnfreezeUser(p) PROVE SecretsFit'
  BY <1>16 DEF UnfreezeUser
<1>17. ASSUME NEW p \in Person, CodeExpires(p) PROVE SecretsFit'
  BY <1>17 DEF CodeExpires
<1>18. CASE UNCHANGED accountVars
  BY <1>18 DEF accountVars, pending
<1> QED BY <1>1, <1>2, <1>3, <1>4, <1>5, <1>6, <1>7, <1>8, <1>9, <1>10, <1>11, <1>12, <1>13, <1>14, <1>15, <1>16, <1>17, <1>18 DEF AccountNext

LEMMA SessionIsCurrentStep ==
  ASSUME AccountTypeOK, SecretsFit, SessionIsCurrent, [AccountNext]_accountVars
  PROVE  SessionIsCurrent'
<1> USE SecretIsSome DEF AccountTypeOK, SecretsFit, SessionIsCurrent, pending
<1>1. ASSUME NEW p \in Person, NEW asAdmin \in BOOLEAN, NEW c \in Secret, CreateUser(p, asAdmin, c) PROVE SessionIsCurrent'
  BY <1>1 DEF CreateUser
<1>2. ASSUME NEW p \in Person, CompareCode(p) PROVE SessionIsCurrent'
  BY <1>2 DEF CompareCode
<1>3. ASSUME NEW p \in Person, ComparePin(p) PROVE SessionIsCurrent'
  BY <1>3 DEF ComparePin
<1>4. ASSUME NEW p \in Person, Login(p) PROVE SessionIsCurrent'
  BY <1>4 DEF Login
<1>5. ASSUME NEW p \in Person, Logout(p) PROVE SessionIsCurrent'
  BY <1>5 DEF Logout
<1>6. ASSUME NEW p \in Person, NEW n \in Secret, Activate(p, n) PROVE SessionIsCurrent'
  BY <1>6 DEF Activate
<1>7. ASSUME NEW p \in Person, NEW n \in Secret, ReissueCode(p, n) PROVE SessionIsCurrent'
  BY <1>7 DEF ReissueCode
<1>8. ASSUME NEW p \in Person, NEW n \in Secret, SetPin(p, n) PROVE SessionIsCurrent'
  BY <1>8 DEF SetPin
<1>9. ASSUME NEW p \in Person, NEW n \in Secret, ResetPin(p, n) PROVE SessionIsCurrent'
  BY <1>9 DEF ResetPin, Leaves
<1>10. ASSUME NEW p \in Person, OpenForm(p) PROVE SessionIsCurrent'
  BY <1>10 DEF OpenForm
<1>11. ASSUME NEW p \in Person, NEW op \in {"freeze", "resetPin", "demote"}, Pass(op, p) PROVE SessionIsCurrent'
  BY <1>11 DEF Pass
<1>12. ASSUME NEW p \in Person, FreezeUser(p) PROVE SessionIsCurrent'
  BY <1>12 DEF FreezeUser, Leaves
<1>13. ASSUME NEW p \in Person, Demote(p) PROVE SessionIsCurrent'
  BY <1>13 DEF Demote, Leaves
<1>14. ASSUME NEW p \in Person, Promote(p) PROVE SessionIsCurrent'
  BY <1>14 DEF Promote
<1>15. ASSUME NEW p \in Person, ChangePhone(p) PROVE SessionIsCurrent'
  BY <1>15 DEF ChangePhone
<1>16. ASSUME NEW p \in Person, UnfreezeUser(p) PROVE SessionIsCurrent'
  BY <1>16 DEF UnfreezeUser
<1>17. ASSUME NEW p \in Person, CodeExpires(p) PROVE SessionIsCurrent'
  BY <1>17 DEF CodeExpires
<1>18. CASE UNCHANGED accountVars
  BY <1>18 DEF accountVars, pending
<1> QED BY <1>1, <1>2, <1>3, <1>4, <1>5, <1>6, <1>7, <1>8, <1>9, <1>10, <1>11, <1>12, <1>13, <1>14, <1>15, <1>16, <1>17, <1>18 DEF AccountNext

(* The inductive invariant: types, the administrators an open check has    *)
(* found, the secrets, and the sessions.                                   *)
THEOREM AccountsSafe == AccountSpec => []AccountInv
<1>1. AccountInv /\ [AccountNext]_accountVars => AccountInv'
  BY AccountTypeStep, AdminRemainsStep, SecretsFitStep, SessionIsCurrentStep DEF AccountInv
<1> QED BY <1>1, AccountsBegin, PTL DEF AccountSpec

(* Every row and every open transaction of the accounts has its type. *)
THEOREM AccountTypeCorrect == AccountSpec => []AccountTypeOK
<1>1. AccountInv => AccountTypeOK
  BY DEF AccountInv
<1> QED BY <1>1, AccountsSafe, PTL

(* freezeUser, resetPin, updateUser: administrators who act on one another *)
(* at the same time never remove the last of them.                         *)
THEOREM AdminStays == AccountSpec => []AnAdminIsLeft
<1>1. AccountInv => AnAdminIsLeft
  BY DEF AccountInv, AdminRemains
<1> QED BY <1>1, AccountsSafe, PTL

(* login, activate: a session opened late goes on only under the PIN and   *)
(* the phone that are in force.                                            *)
THEOREM SessionStaysCurrent == AccountSpec => []SessionIsCurrent
<1>1. AccountInv => SessionIsCurrent
  BY DEF AccountInv
<1> QED BY <1>1, AccountsSafe, PTL

(* activate, resetPin, setEmployeePin: nobody has a PIN and an open code.  *)
THEOREM CodeOrPinStays == AccountSpec => []CodeOrPin
<1>1. AccountInv => CodeOrPin
  BY DEF AccountInv, SecretsFit
<1> QED BY <1>1, AccountsSafe, PTL
==============================================================================
