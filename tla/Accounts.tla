------------------------------ MODULE Accounts ------------------------------
(***************************************************************************)
(* Employees and their way in (modules/users, auth/service.ts).  A person  *)
(* is created with a one-time code, turns the code into a PIN, signs in    *)
(* with the PIN and is frozen, unfrozen, given a new code or a new PIN,    *)
(* another phone or other roles by an administrator.                       *)
(*                                                                         *)
(* The slow comparison of a PIN or a code runs before the transaction that *)
(* uses its result.  Freezing, resetting and taking the administrator role *)
(* away first take an advisory lock and look for another administrator.    *)
(***************************************************************************)
EXTENDS Naturals, FiniteSets

CONSTANTS
  Person,
  Boss,       \* the administrator set up by bootstrapAdmin
  Number,     \* the phone numbers a person may be given
  MaxSecret   \* bound: PIN hashes and codes in use at a time

ASSUME AccountAssumption ==
  Boss \in Person /\ Number # {} /\ MaxSecret \in Nat \ {0}

Secret == 1..MaxSecret   \* PIN hashes and codes, known by their identity alone
NoSecret == 0            \* no PIN, no code

VARIABLES
  standing,   \* User.status, "absent" before the row exists
  admins,     \* persons with the role ADMIN
  pin,        \* User.pinHash (pinSetAt is set with it)
  phoneNo,    \* User.phone; that no two persons share a number is not modelled
  code,       \* the activation code with an activeKey
  expired,    \* persons whose code is past its time
  session,    \* the PIN and phone behind the person's live sessions, if any
  login,      \* a login whose PIN was compared: what was read before
  activation, \* an activation whose code was compared
  form,       \* persons whose edit form still carries User.version
  gate        \* open transactions that passed the last-administrator check

accountVars == <<standing, admins, pin, phoneNo, code, expired, session, login,
                 activation, form, gate>>
pending == <<login, activation>>

Nothing == [pin |-> NoSecret, phone |-> 0]
Known == [pin : Secret, phone : Number]
Gate == [op : {"freeze", "resetPin", "demote"}, who : Person]

AccountTypeOK ==
  /\ standing \in [Person -> {"absent", "PENDING", "ACTIVE", "FROZEN"}]
  /\ admins \subseteq Person
  /\ pin \in [Person -> Secret \cup {NoSecret}]
  /\ phoneNo \in [Person -> Number]
  /\ code \in [Person -> Secret \cup {NoSecret}]
  /\ expired \subseteq Person
  /\ session \in [Person -> Known \cup {Nothing}]
  /\ login \in [Person -> Known \cup {Nothing}]
  /\ activation \in [Person -> Secret \cup {NoSecret}]
  /\ form \subseteq Person
  /\ gate \subseteq Gate

(* The first administrator has turned the bootstrap code into a PIN.      *)
AccountInit ==
  /\ standing = [p \in Person |-> IF p = Boss THEN "ACTIVE" ELSE "absent"]
  /\ admins = {Boss}
  /\ pin = [p \in Person |-> IF p = Boss THEN 1 ELSE NoSecret]
  /\ phoneNo \in [Person -> Number]
  /\ code = [p \in Person |-> NoSecret]
  /\ expired = {}
  /\ session = [p \in Person |-> Nothing]
  /\ login = [p \in Person |-> Nothing]
  /\ activation = [p \in Person |-> NoSecret]
  /\ form = {}
  /\ gate = {}

-----------------------------------------------------------------------------
(* Secrets held anywhere. *)
Used ==
  {pin[p] : p \in Person} \cup {code[p] : p \in Person}
    \cup {login[p].pin : p \in Person} \cup {activation[p] : p \in Person}

(* A secret nobody holds; the least one, as secrets are interchangeable.   *)
New == {n \in Secret \ Used : \A m \in Secret \ Used : n <= m}

(* The person's row is held FOR UPDATE by a transaction still open. *)
RowLocked(p) == \E g \in gate : g.who = p /\ g.op # "demote"

ActiveAdmins == {p \in admins : standing[p] = "ACTIVE"}

(* assertLastActiveAdminInvariant *)
AnotherAdminThan(p) == p \in ActiveAdmins => Cardinality(ActiveAdmins) > 1

-----------------------------------------------------------------------------
(* Signing in *)

(* createUser, with the roles of the request. *)
CreateUser(p, asAdmin, c) ==
  /\ standing[p] = "absent"
  /\ c \in New
  /\ standing' = [standing EXCEPT ![p] = "PENDING"]
  /\ admins' = IF asAdmin THEN admins \cup {p} ELSE admins
  /\ code' = [code EXCEPT ![p] = c]
  /\ UNCHANGED <<pin, phoneNo, expired, session, pending, form, gate>>

CodeExpires(p) ==
  /\ code[p] # NoSecret
  /\ p \notin expired
  /\ expired' = expired \cup {p}
  /\ UNCHANGED <<standing, admins, pin, phoneNo, code, session, pending, form, gate>>

(* activate: the code is read and compared, before the transaction. *)
CompareCode(p) ==
  /\ standing[p] = "PENDING"
  /\ code[p] # NoSecret /\ p \notin expired
  /\ activation' = [activation EXCEPT ![p] = code[p]]
  /\ UNCHANGED <<standing, admins, pin, phoneNo, code, expired, session, login, form, gate>>

(* activate: the transaction.  Status and code are read again under the    *)
(* lock; a code no longer active refuses.                                  *)
Activate(p, n) ==
  /\ activation[p] # NoSecret
  /\ ~RowLocked(p)
  /\ n \in New
  /\ IF standing[p] = "PENDING" /\ code[p] = activation[p] /\ p \notin expired
       THEN /\ standing' = [standing EXCEPT ![p] = "ACTIVE"]
            /\ pin' = [pin EXCEPT ![p] = n]
            /\ code' = [code EXCEPT ![p] = NoSecret]
            /\ session' = [session EXCEPT ![p] = [pin |-> n, phone |-> phoneNo[p]]]
            /\ form' = form \ {p}
       ELSE UNCHANGED <<standing, pin, code, session, form>>
  /\ activation' = [activation EXCEPT ![p] = NoSecret]
  /\ UNCHANGED <<admins, phoneNo, expired, login, gate>>

(* login: the PIN is compared with the hash read before the transaction. *)
ComparePin(p) ==
  /\ standing[p] = "ACTIVE"
  /\ pin[p] # NoSecret
  /\ login' = [login EXCEPT ![p] = [pin |-> pin[p], phone |-> phoneNo[p]]]
  /\ UNCHANGED <<standing, admins, pin, phoneNo, code, expired, session, activation, form, gate>>

LoginUnchecked(p) ==   \* mutant: what was compared is not read again
  /\ login[p] # Nothing
  /\ ~RowLocked(p)
  /\ session' = [session EXCEPT ![p] = login[p]]
  /\ login' = [login EXCEPT ![p] = Nothing]
  /\ UNCHANGED <<standing, admins, pin, phoneNo, code, expired, activation, form, gate>>

(* login: the transaction.  Status, phone and hash must not have changed.  *)
Login(p) ==
  /\ login[p] # Nothing
  /\ ~RowLocked(p)
  /\ session' = IF standing[p] = "ACTIVE" /\ login[p] = [pin |-> pin[p], phone |-> phoneNo[p]]
                  THEN [session EXCEPT ![p] = login[p]]
                  ELSE session
  /\ login' = [login EXCEPT ![p] = Nothing]
  /\ UNCHANGED <<standing, admins, pin, phoneNo, code, expired, activation, form, gate>>

(* logout and logoutAll; the last device of the person. *)
Logout(p) ==
  /\ session[p] # Nothing
  /\ ~RowLocked(p)
  /\ session' = [session EXCEPT ![p] = Nothing]
  /\ UNCHANGED <<standing, admins, pin, phoneNo, code, expired, pending, form, gate>>

-----------------------------------------------------------------------------
(* Administration.  Every operation raises User.version, so the forms      *)
(* opened before are refused.                                              *)

OpenForm(p) ==
  /\ standing[p] # "absent"
  /\ form' = form \cup {p}
  /\ UNCHANGED <<standing, admins, pin, phoneNo, code, expired, session, pending, gate>>

PassUngated(op, p) ==   \* mutant: the advisory lock is not taken
  /\ standing[p] # "absent" /\ ~RowLocked(p)
  /\ op = "freeze" => standing[p] # "FROZEN"
  /\ op = "resetPin" => standing[p] # "FROZEN"
  /\ op = "demote" => p \in form \cap admins
  /\ AnotherAdminThan(p)
  /\ gate' = gate \cup {[op |-> op, who |-> p]}
  /\ UNCHANGED <<standing, admins, pin, phoneNo, code, expired, session, pending, form>>

(* acquireLastAdminLock, lockAndAuthorize and the check, up to the first   *)
(* write.  A change of roles does not lock the person's row yet.           *)
Pass(op, p) ==
  /\ gate = {}
  /\ standing[p] # "absent"
  /\ op = "freeze" => standing[p] # "FROZEN"
  /\ op = "resetPin" => standing[p] # "FROZEN"
  /\ op = "demote" => p \in form \cap admins
  /\ AnotherAdminThan(p)
  /\ gate' = gate \cup {[op |-> op, who |-> p]}
  /\ UNCHANGED <<standing, admins, pin, phoneNo, code, expired, session, pending, form>>

Leaves(op, p) ==
  /\ [op |-> op, who |-> p] \in gate
  /\ gate' = gate \ {[op |-> op, who |-> p]}
  /\ form' = form \ {p}

FreezeUser(p) ==
  /\ Leaves("freeze", p)
  /\ standing' = [standing EXCEPT ![p] = "FROZEN"]
  /\ session' = [session EXCEPT ![p] = Nothing]
  /\ UNCHANGED <<admins, pin, phoneNo, code, expired, pending>>

ResetPin(p, c) ==
  /\ Leaves("resetPin", p)
  /\ c \in New
  /\ standing' = [standing EXCEPT ![p] = "PENDING"]
  /\ pin' = [pin EXCEPT ![p] = NoSecret]
  /\ code' = [code EXCEPT ![p] = c]
  /\ expired' = expired \ {p}
  /\ session' = [session EXCEPT ![p] = Nothing]
  /\ UNCHANGED <<admins, phoneNo, pending>>

(* updateUser that takes the role ADMIN away: the form's version must      *)
(* still be current, or the transaction is rolled back.                    *)
Demote(p) ==
  /\ Leaves("demote", p)
  /\ IF p \in form
       THEN /\ admins' = admins \ {p}
            /\ session' = [session EXCEPT ![p] = Nothing]
       ELSE UNCHANGED <<admins, session>>
  /\ UNCHANGED <<standing, pin, phoneNo, code, expired, pending>>

(* updateUser that gives the role ADMIN. *)
Promote(p) ==
  /\ p \in form \ admins /\ ~RowLocked(p)
  /\ admins' = admins \cup {p}
  /\ session' = [session EXCEPT ![p] = Nothing]
  /\ form' = form \ {p}
  /\ UNCHANGED <<standing, pin, phoneNo, code, expired, pending, gate>>

(* updateUser with another phone. *)
ChangePhone(p) ==
  /\ p \in form /\ ~RowLocked(p)
  /\ \E n \in Number \ {phoneNo[p]} : phoneNo' = [phoneNo EXCEPT ![p] = n]
  /\ session' = [session EXCEPT ![p] = Nothing]
  /\ form' = form \ {p}
  /\ UNCHANGED <<standing, admins, pin, code, expired, pending, gate>>

UnfreezeUser(p) ==
  /\ standing[p] = "FROZEN" /\ ~RowLocked(p)
  /\ standing' = [standing EXCEPT ![p] = IF pin[p] = NoSecret THEN "PENDING" ELSE "ACTIVE"]
  /\ form' = form \ {p}
  /\ UNCHANGED <<admins, pin, phoneNo, code, expired, session, pending, gate>>

ReissueCode(p, c) ==
  /\ standing[p] = "PENDING" /\ ~RowLocked(p)
  /\ c \in New
  /\ code' = [code EXCEPT ![p] = c]
  /\ expired' = expired \ {p}
  /\ UNCHANGED <<standing, admins, pin, phoneNo, session, pending, form, gate>>

(* setEmployeePin: never for an administrator. *)
SetPin(p, n) ==
  /\ standing[p] # "absent" /\ p \notin admins /\ ~RowLocked(p)
  /\ n \in New
  /\ pin' = [pin EXCEPT ![p] = n]
  /\ standing' = [standing EXCEPT ![p] = IF @ = "FROZEN" THEN "FROZEN" ELSE "ACTIVE"]
  /\ code' = [code EXCEPT ![p] = NoSecret]
  /\ expired' = expired \ {p}
  /\ session' = [session EXCEPT ![p] = Nothing]
  /\ form' = form \ {p}
  /\ UNCHANGED <<admins, phoneNo, pending, gate>>

-----------------------------------------------------------------------------
AccountNext == \E p \in Person :
  \/ \E asAdmin \in BOOLEAN, c \in Secret : CreateUser(p, asAdmin, c)
  \/ CompareCode(p) \/ ComparePin(p) \/ Login(p) \/ Logout(p)
  \/ \E n \in Secret : Activate(p, n) \/ ReissueCode(p, n) \/ SetPin(p, n) \/ ResetPin(p, n)
  \/ OpenForm(p)
  \/ \E op \in {"freeze", "resetPin", "demote"} : Pass(op, p)
  \/ FreezeUser(p) \/ Demote(p) \/ Promote(p) \/ ChangePhone(p) \/ UnfreezeUser(p)
  \/ CodeExpires(p)

AccountSpec == AccountInit /\ [][AccountNext]_accountVars

-----------------------------------------------------------------------------
(* Properties *)

(* The system is never left without an administrator who can sign in.      *)
AnAdminIsLeft == ActiveAdmins # {}

(* A session goes on only under the PIN and the phone it was opened with,  *)
(* and only while its owner works, although logins finish late.            *)
SessionIsCurrent ==
  \A p \in Person :
    session[p] # Nothing =>
      standing[p] = "ACTIVE" /\ session[p] = [pin |-> pin[p], phone |-> phoneNo[p]]

(* Whoever works has a PIN and no open code: a code never replaces the PIN *)
(* of somebody who works; whoever waits for activation has no PIN.         *)
CodeOrPin ==
  \A p \in Person :
    /\ standing[p] = "ACTIVE" => pin[p] # NoSecret /\ code[p] = NoSecret
    /\ standing[p] = "PENDING" => pin[p] = NoSecret
=============================================================================
