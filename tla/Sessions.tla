------------------------------ MODULE Sessions ------------------------------
(***************************************************************************)
(* Refresh sessions of one user (modules/auth/sessions.ts, service.ts).    *)
(* Every device is a family of tokens; a refresh replaces the family's     *)
(* last token by a successor and keeps the successor for a short grace     *)
(* window, so that a repeated request gets the same answer.  Refreshes of  *)
(* one family are serialised by locking its rows.                          *)
(*                                                                         *)
(* Transactions run at READ COMMITTED.  A refresh is a transaction with a  *)
(* lock and a commit; an ending operation (freeze, PIN, phone, roles,      *)
(* logout, logout everywhere) has one statement that revokes rows: the     *)
(* rows it sees are fixed when it starts, and it then waits for their      *)
(* locks.  A new row references the user, so its insertion waits for a     *)
(* transaction that holds the user's row FOR UPDATE.                       *)
(***************************************************************************)
EXTENDS Naturals, FiniteSets

CONSTANTS
  Token,       \* refresh tokens that may ever be drawn
  Family,      \* devices that sign in, one family each
  Req,         \* refresh requests the server works on at a time
  Nobody       \* no token, no family, no transaction

ASSUME SessionAssumption == Nobody \notin Token \cup Family \cup Req

VARIABLES
  family,    \* RefreshSession.familyId, Nobody before the row exists
  next,      \* replacedById
  rotated,   \* rotatedAt is set
  copy,      \* successorTokenEnc is set
  grace,     \* graceUntil lies ahead
  revoked,   \* revokedAt is set
  active,    \* User.status = ACTIVE
  refresh,   \* open refresh transactions: token presented and what will follow
  ending     \* open transaction of an ending operation, or NoEnding

tokenRows == <<family, next, rotated, copy, grace, revoked>>
sessionVars == <<family, next, rotated, copy, grace, revoked, active, refresh, ending>>

(* Ending operations by the lock they take on the user's row: FOR UPDATE   *)
(* (a new phone changes a unique key, which locks as strongly), FOR NO KEY *)
(* UPDATE, none.                                                           *)
Strong == {"freeze", "resetPin", "setPin", "phone"}
Weak   == {"logoutAll", "roles"}
Ending == [op : Strong \cup Weak \cup {"logout", "none"}, seen : SUBSET Token]
NoEnding == [op |-> "none", seen |-> {}]

Idle == [token |-> Nobody, then |-> "none"]
Refresh == [token : Token, then : {"rotate", "reuse"}] \cup {Idle}

Row  == {t \in Token : family[t] # Nobody}
Live == Row \ revoked

SessionTypeOK ==
  /\ family \in [Token -> Family \cup {Nobody}]
  /\ next \in [Token -> Token \cup {Nobody}]
  /\ rotated \subseteq Row /\ copy \subseteq Row
  /\ grace \subseteq Row /\ revoked \subseteq Row
  /\ active \in BOOLEAN
  /\ refresh \in [Req -> Refresh]
  /\ ending \in Ending

SessionInit ==
  /\ family = [t \in Token |-> Nobody]
  /\ next = [t \in Token |-> Nobody]
  /\ rotated = {} /\ copy = {} /\ grace = {} /\ revoked = {}
  /\ active = TRUE
  /\ refresh = [q \in Req |-> Idle]
  /\ ending = NoEnding

-----------------------------------------------------------------------------
(* Locks *)

FamilyLocked(f) == \E q \in Req : refresh[q] # Idle /\ family[refresh[q].token] = f

UserNeverLocked == FALSE   \* mutant: the row is updated without FOR UPDATE

(* The user's row is held FOR UPDATE: no row that references it goes in.   *)
UserLocked == ending.op \in Strong

(* The rows an ending operation waits for. *)
AwaitsFamily(f) == \E t \in ending.seen : family[t] = f

-----------------------------------------------------------------------------
(* Signing in *)

(* createSession, at the end of login and activate: a family of its own.   *)
(* Both hold the user's row FOR UPDATE.                                    *)
SignIn(f, t) ==
  /\ active
  /\ ending.op \in {"none", "logout"}
  /\ f \notin {family[u] : u \in Token}
  /\ family[t] = Nobody
  /\ family' = [family EXCEPT ![t] = f]
  /\ UNCHANGED <<next, rotated, copy, grace, revoked, active, refresh, ending>>

(* unfreezeUser, and activate after a reset of the PIN. *)
Reactivate ==
  /\ ~active
  /\ ending.op \in {"none", "logout"}
  /\ active' = TRUE
  /\ UNCHANGED <<tokenRows, refresh, ending>>

GraceEnds(t) ==
  /\ t \in grace
  /\ grace' = grace \ {t}
  /\ UNCHANGED <<family, next, rotated, copy, revoked, active, refresh, ending>>

-----------------------------------------------------------------------------
(* Refreshing.  Any token ever given out may be presented: by a second     *)
(* tab, after a lost answer, late.                                         *)

(* What the open transaction will answer to t, all rows of the family      *)
(* locked and their expired copies wiped.                                  *)
Answer(t) ==
  CASE t \in revoked \/ ~active                       -> "invalid"
    [] t \notin revoked /\ active /\ t \notin rotated   -> "rotate"
    [] t \notin revoked /\ active /\ t \in rotated
         /\ next[t] \notin rotated \cup revoked
         /\ t \in copy \cap grace                      -> "replay"
    [] OTHER                                           -> "reuse"

(* wipeExpiredSuccessors *)
Wiped(f) == copy \ {t \in Row : family[t] = f /\ t \notin grace}

OpenUnlocked(q, t) ==   \* mutant: the family is not locked
  /\ refresh[q] = Idle
  /\ t \in Row
  /\ copy' = Wiped(family[t])
  /\ refresh' = [refresh EXCEPT ![q] =
       IF Answer(t) \in {"rotate", "reuse"} THEN [token |-> t, then |-> Answer(t)] ELSE Idle]
  /\ UNCHANGED <<family, next, rotated, grace, revoked, active, ending>>

(* rotateSession up to its decision.  An invalid token and a replay write  *)
(* nothing more and commit; the other answers keep the locks.              *)
Open(q, t) ==
  /\ refresh[q] = Idle
  /\ t \in Row
  /\ ~FamilyLocked(family[t])
  /\ copy' = Wiped(family[t])
  /\ refresh' = [refresh EXCEPT ![q] =
       IF Answer(t) \in {"rotate", "reuse"} THEN [token |-> t, then |-> Answer(t)] ELSE Idle]
  /\ UNCHANGED <<family, next, rotated, grace, revoked, active, ending>>

RotateKeepingCopy(q, n) ==   \* mutant: the ancestor keeps its copy
  LET t == refresh[q].token IN
  /\ refresh[q].then = "rotate"
  /\ ~UserLocked
  /\ family[n] = Nobody
  /\ family' = [family EXCEPT ![n] = family[t]]
  /\ next' = [next EXCEPT ![t] = n]
  /\ rotated' = rotated \cup {t}
  /\ grace' = grace \cup {t}
  /\ copy' = copy \cup {t}
  /\ refresh' = [refresh EXCEPT ![q] = Idle]
  /\ UNCHANGED <<revoked, active, ending>>

(* The ordinary rotation.  The copy held by t's own ancestor is cleared.   *)
Rotate(q, n) ==
  LET t == refresh[q].token IN
  /\ refresh[q].then = "rotate"
  /\ ~UserLocked
  /\ family[n] = Nobody
  /\ family' = [family EXCEPT ![n] = family[t]]
  /\ next' = [next EXCEPT ![t] = n]
  /\ rotated' = rotated \cup {t}
  /\ grace' = grace \cup {t}
  /\ copy' = (copy \cup {t}) \ {u \in Token : next[u] = t}
  /\ refresh' = [refresh EXCEPT ![q] = Idle]
  /\ UNCHANGED <<revoked, active, ending>>

(* A token used twice: the whole family is revoked; the attempt and the    *)
(* audit record reference the user.                                        *)
RevokeReused(q) ==
  LET gone == {t \in Row : family[t] = family[refresh[q].token]} IN
  /\ refresh[q].then = "reuse"
  /\ ~UserLocked
  /\ revoked' = revoked \cup gone
  /\ copy' = copy \ gone
  /\ refresh' = [refresh EXCEPT ![q] = Idle]
  /\ UNCHANGED <<family, next, rotated, grace, active, ending>>

-----------------------------------------------------------------------------
(* Ending sessions *)

(* The revoking statement starts: it sees the rows committed so far.       *)
(* Whoever signs out is signed in (guards.ts).                             *)
StartEnding(op) ==
  /\ ending = NoEnding
  /\ op = "logoutAll" => active /\ Live # {}
  /\ ending' = [op |-> op, seen |-> Live]
  /\ UNCHANGED <<tokenRows, active, refresh>>

StartLogout(f) ==
  /\ ending = NoEnding
  /\ active
  /\ \E t \in Live : family[t] = f
  /\ ending' = [op |-> "logout", seen |-> {t \in Live : family[t] = f}]
  /\ UNCHANGED <<tokenRows, active, refresh>>

StatusAfter(op) ==
  CASE op \in {"freeze", "resetPin"} -> {FALSE}
    [] op = "setPin"                 -> {active, TRUE}
    [] OTHER                         -> {active}

(* Every lock is granted: the rows it saw are revoked, and it commits.     *)
End ==
  /\ ending # NoEnding
  /\ \A t \in ending.seen : ~FamilyLocked(family[t])
  /\ revoked' = revoked \cup ending.seen
  /\ copy' = copy \ ending.seen
  /\ active' \in StatusAfter(ending.op)
  /\ ending' = NoEnding
  /\ UNCHANGED <<family, next, rotated, grace, refresh>>

-----------------------------------------------------------------------------
(* A refresh that holds a family and waits for the user's row, and an      *)
(* operation that holds the user's row and waits for the family: the       *)
(* database aborts one of the two.                                         *)

Entangled(q) ==
  refresh[q] # Idle /\ UserLocked /\ AwaitsFamily(family[refresh[q].token])

RefreshAborted(q) ==
  /\ Entangled(q)
  /\ refresh' = [refresh EXCEPT ![q] = Idle]
  /\ UNCHANGED <<tokenRows, active, ending>>

EndingAborted(q) ==
  /\ Entangled(q)
  /\ ending' = NoEnding
  /\ UNCHANGED <<tokenRows, active, refresh>>

-----------------------------------------------------------------------------
SessionNext ==
  \/ \E f \in Family, t \in Token : SignIn(f, t)
  \/ \E q \in Req, t \in Token : Open(q, t) \/ Rotate(q, t)
  \/ \E q \in Req : RevokeReused(q) \/ RefreshAborted(q) \/ EndingAborted(q)
  \/ \E op \in Strong \cup Weak : StartEnding(op)
  \/ \E f \in Family : StartLogout(f)
  \/ End
  \/ Reactivate
  \/ \E t \in Token : GraceEnds(t)

SessionSpec == SessionInit /\ [][SessionNext]_sessionVars

-----------------------------------------------------------------------------
(* Properties *)

(* One usable end per device: concurrent and repeated refreshes never      *)
(* leave a family with two tokens that can be rotated.                     *)
OneLiveLeaf ==
  \A t, u \in Live \ rotated : family[t] = family[u] => t = u

(* A stored copy is the token the device has to go on with: it is the end  *)
(* of its family and still valid, whatever was presented meanwhile.        *)
ReplayIsLive ==
  \A t \in copy : next[t] \in Live \ rotated

(* Nobody who is frozen or has no PIN keeps a session, although a refresh  *)
(* may have been inserting a row while the sessions were being revoked.    *)
LockedOutHasNoSession == ~active => Live = {}

(* revokeAllSessions leaves no session of the user on any device.          *)
EndsAllSessions ==
  [][End /\ ending.op \in Strong \cup Weak => Live' = {}]_sessionVars
=============================================================================
