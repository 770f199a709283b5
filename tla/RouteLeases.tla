----------------------------- MODULE RouteLeases -----------------------------
(***************************************************************************)
(* The edit lease of a route (modules/routing/lease.ts) and the operations *)
(* that need, grant or end it.  A lease runs out by itself unless its      *)
(* holder, a user on one device, prolongs it; another editor may take it   *)
(* over.  A request reads the clock before it waits for its locks, so it   *)
(* may judge and grant by a time already past: by at most MaxLag, while    *)
(* the lease lives for Ttl.                                                *)
(***************************************************************************)
EXTENDS Integers, FiniteSets

CONSTANTS
  Editor,     \* a logist on a device: user and session family
  Ttl,        \* LEASE_TTL_MS
  MaxLag      \* bound: how long a request waits for its locks

ASSUME LeaseAssumption ==
  Ttl \in Nat /\ MaxLag \in Nat /\ MaxLag < Ttl

VARIABLES
  state,      \* DeliveryRoute.state: "DRAFT", "CONFIRMED", or "over"
  editor,     \* holderUserId and holderFamilyId; nobody before the first grant
  left,       \* time until expiresAt, negative when it has passed
  released,   \* releasedAt is set
  seen,       \* editors whose card shows the lease's present version
  fresh,      \* editors whose card shows the route's present version
  by          \* who made the last request

leaseVars == <<state, editor, left, released, seen, fresh, by>>

Lag == 0..MaxLag

LeaseTypeOK ==
  /\ state \in {"DRAFT", "CONFIRMED", "over"}
  /\ editor \in SUBSET Editor /\ Cardinality(editor) <= 1
  /\ left \in -MaxLag..Ttl
  /\ released \in BOOLEAN
  /\ seen \subseteq Editor /\ fresh \subseteq Editor
  /\ by \in SUBSET Editor

(* applyPlan leaves a draft nobody holds; createEmptyDraft and             *)
(* createDraftFromSelection give the draft to its creator.                 *)
LeaseInit ==
  /\ state = "DRAFT"
  /\ editor \in {{}} \cup {{e} : e \in Editor}
  /\ left = IF editor = {} THEN -MaxLag ELSE Ttl
  /\ released = FALSE
  /\ seen = {} /\ fresh = editor /\ by = editor

-----------------------------------------------------------------------------
(* isActive, heldBy: as judged by a request that read the clock lag ago.   *)
LeaseActive(lag) == editor # {} /\ ~released /\ left + lag > 0

HeldByName(e, lag) == editor = {e}   \* mutant: whether the lease still runs is not asked
HeldBy(e, lag) == LeaseActive(lag) /\ editor = {e}

Granted(e, lag) ==
  /\ editor' = {e}
  /\ left' = Ttl - lag
  /\ released' = FALSE
  /\ seen' = {}

(* releaseLeaseRow *)
ReleasedRow ==
  /\ released' = TRUE
  /\ seen' = IF released THEN seen ELSE {}
  /\ UNCHANGED <<editor, left>>

-----------------------------------------------------------------------------
(* The card of the route, with the lease while it is active. *)
Look(e) ==
  /\ fresh' = fresh \cup {e}
  /\ seen' = IF LeaseActive(0) THEN seen \cup {e} ELSE seen
  /\ UNCHANGED <<state, editor, left, released, by>>

(* acquireLease: a lease nobody else holds, also to prolong one's own.     *)
AcquireLease(e, lag) ==
  /\ state = "DRAFT"
  /\ LeaseActive(lag) => HeldBy(e, lag)
  /\ Granted(e, lag)
  /\ by' = {e}
  /\ UNCHANGED <<state, fresh>>

(* heartbeatLease locks the lease alone, not the route. *)
HeartbeatLease(e, lag) ==
  /\ HeldBy(e, lag)
  /\ left' = Ttl - lag
  /\ by' = {e}
  /\ UNCHANGED <<state, editor, released, seen, fresh>>

ReleaseLease(e, lag) ==
  /\ HeldBy(e, lag)
  /\ ReleasedRow
  /\ by' = {e}
  /\ UNCHANGED <<state, fresh>>

(* takeoverLease: an active lease of somebody else, at the version seen.   *)
TakeoverLease(e, lag) ==
  /\ state = "DRAFT"
  /\ LeaseActive(lag) /\ ~HeldBy(e, lag)
  /\ e \in seen
  /\ Granted(e, lag)
  /\ by' = {e}
  /\ UNCHANGED <<state, fresh>>

(* addOrders, returnOrders, moveOrders, reorder, setCourier: the holder,   *)
(* at the route's present version, which they raise.                       *)
Edit(e, lag) ==
  /\ state = "DRAFT" /\ e \in fresh /\ HeldBy(e, lag)
  /\ fresh' = {e}
  /\ by' = {e}
  /\ UNCHANGED <<state, editor, left, released, seen>>

(* setCourier on a confirmed sheet needs no lease. *)
ChangeCourier(e) ==
  /\ state = "CONFIRMED" /\ e \in fresh
  /\ fresh' = {e}
  /\ by' = {e}
  /\ UNCHANGED <<state, editor, left, released, seen>>

Confirm(e, lag) ==
  /\ state = "DRAFT" /\ e \in fresh /\ HeldBy(e, lag)
  /\ state' = "CONFIRMED"
  /\ ReleasedRow
  /\ fresh' = {e}
  /\ by' = {e}

(* returnToDraft opens the route to whoever asked for it. *)
ReturnToDraft(e, lag) ==
  /\ state = "CONFIRMED" /\ e \in fresh
  /\ state' = "DRAFT"
  /\ Granted(e, lag)
  /\ fresh' = {e}
  /\ by' = {e}

(* cancelRoute: a draft by its holder, a confirmed sheet by anybody. *)
CancelRoute(e, lag) ==
  /\ state \in {"DRAFT", "CONFIRMED"} /\ e \in fresh
  /\ state = "DRAFT" => HeldBy(e, lag)
  /\ state' = "over"
  /\ ReleasedRow
  /\ fresh' = {e}
  /\ by' = {e}

(* A unit of time passes. *)
Tick ==
  /\ left > -MaxLag
  /\ left' = left - 1
  /\ UNCHANGED <<state, editor, released, seen, fresh, by>>

-----------------------------------------------------------------------------
LeaseNext ==
  \/ \E e \in Editor :
       \/ Look(e) \/ ChangeCourier(e)
       \/ \E lag \in Lag :
            \/ AcquireLease(e, lag) \/ HeartbeatLease(e, lag) \/ ReleaseLease(e, lag)
            \/ TakeoverLease(e, lag)
            \/ Edit(e, lag) \/ Confirm(e, lag) \/ ReturnToDraft(e, lag) \/ CancelRoute(e, lag)
  \/ Tick

LeaseSpec == LeaseInit /\ [][LeaseNext]_leaseVars

-----------------------------------------------------------------------------
(* Properties *)

(* An editor whose lease has not run out loses it only by a step of his    *)
(* own, by the clock, or to somebody who had this very lease before his    *)
(* eyes.                                                                   *)
TakenOnSight(e) ==
  editor = {e} /\ LeaseActive(0) /\ ~(editor' = {e} /\ LeaseActive(0)')
    => \/ by' = {e}
       \/ editor' = {e} /\ left' = left - 1 /\ UNCHANGED released
       \/ editor' \subseteq seen

(* What changes a draft that others have on their cards, or ends it, comes *)
(* from the editor it was granted to last, who did not give it back, and   *)
(* who has seen all that was saved before; he may be late by the time      *)
(* requests wait for their locks, and no more.                             *)
SavedByHolder ==
  state = "DRAFT" /\ (state' # "DRAFT" \/ ~(fresh \subseteq fresh'))
    => by' = editor /\ by' \subseteq fresh /\ ~released /\ left + MaxLag > 0

(* No request that waited for its locks takes a route away from somebody   *)
(* who works on it, or saves what somebody else has taken over.            *)
LeaseIsExclusive ==
  [][SavedByHolder /\ \A e \in Editor : TakenOnSight(e)]_leaseVars

(* Only a draft is under work. *)
LeaseOfDraft == LeaseActive(MaxLag) => state = "DRAFT"
=============================================================================
