------------------------------ MODULE Realtime ------------------------------
(***************************************************************************)
(* The event channel of one browser tab (modules/realtime and the hook     *)
(* useRealtime).  Transactions write events into a journal, each under the *)
(* next id of a sequence, and commit in another order.  A stream looks at  *)
(* its session and at the journal in one snapshot and hands over what is   *)
(* older than a window.  The connection breaks anywhere; the tab comes     *)
(* back with the last id it saw, or without one; events are deleted when   *)
(* they have reached their age.                                            *)
(*                                                                         *)
(* What is written and what of it arrives is one step, in which the        *)
(* connection may break after any event.  NOTIFY and the poll only choose  *)
(* the moment of a drain, which is free here.  A transaction writes one    *)
(* event; whom it is for is the fact whether this viewer sees it.          *)
(***************************************************************************)
EXTENDS Naturals, FiniteSets

CONSTANTS
  MaxId,     \* bound: events that are ever written
  MaxTime,   \* bound on the clock
  Window,    \* VISIBILITY_LAG_MS
  EventTtl,  \* REALTIME_EVENT_TTL_MS
  Batch,     \* EVENT_BATCH_SIZE
  MaxTx,     \* how long a transaction goes on at most after it drew an id
  MaxGap,    \* how long after its snapshot a drain reads the clock at most
  Skew       \* how long before its id an event is stamped at most

ASSUME RealtimeAssumption ==
  /\ {MaxId, MaxTime, Window, EventTtl, Batch, MaxTx, MaxGap, Skew} \subseteq Nat
  /\ MaxTx + Skew <= EventTtl

VARIABLES
  time,
  events,    \* the rows of RealtimeEvent, by id
  nextId,    \* the sequence of ids
  alive,     \* the session's family lives and its sessionVersion is the present one
  stream,    \* startEventStream for the tab's connection
  drain,     \* the drain in flight and what its snapshot has seen
  tab,       \* useRealtime: the session and lastEventIdRef
  got,       \* events the tab has handled
  base,      \* up to here the tab relies on requests of its own
  postEnd    \* events committed after the session had ended

realtimeVars == <<time, events, nextId, alive, stream, drain, tab, got, base, postEnd>>

Id == 1..MaxId
Unborn == [state |-> "unborn", stamped |-> 0, due |-> 0, expires |-> 0, mine |-> FALSE]
EventRow == [state : {"unborn", "open", "committed", "undone", "deleted"},
             stamped : Nat, due : Nat, expires : Nat, mine : BOOLEAN]

NoDrain == [reading |-> FALSE, since |-> 0, valid |-> FALSE, seen |-> {}]
Offline == [at |-> "closed", cursor |-> 0]

(* No id is 0: it stands for the absent Last-Event-ID of a tab.            *)
RealtimeTypeOK ==
  /\ time \in Nat
  /\ events \in [Id -> EventRow]
  /\ nextId \in 1..(MaxId + 1)
  /\ alive \in BOOLEAN
  /\ stream \in [at : {"closed", "opening", "open"}, cursor : 0..MaxId]
  /\ drain \in [reading : BOOLEAN, since : Nat, valid : BOOLEAN, seen : SUBSET Id]
  /\ tab \in [signedIn : BOOLEAN, last : 0..MaxId]
  /\ got \subseteq Id
  /\ base \in 0..MaxId
  /\ postEnd \subseteq Id

RealtimeInit ==
  /\ time = 0
  /\ events = [i \in Id |-> Unborn]
  /\ nextId = 1
  /\ alive = TRUE
  /\ stream = Offline
  /\ drain = NoDrain
  /\ tab = [signedIn |-> TRUE, last |-> 0]
  /\ got = {} /\ base = 0 /\ postEnd = {}

-----------------------------------------------------------------------------
In(st) == {i \in Id : events[i].state = st}

(* What a reader can see of the journal now or could see before. *)
EverCommitted == In("committed") \cup In("deleted")

(* publishRealtimeEvent: the row gets its stamp and its age limit before   *)
(* it is sent and its id when it arrives, so stamps need not follow the    *)
(* ids; its transaction goes on until due at the latest.                   *)
Publish ==
  /\ nextId <= MaxId
  /\ \E stamp \in 0..time, mine \in BOOLEAN :
       /\ time <= stamp + Skew
       /\ events' = [events EXCEPT ![nextId] =
            [state |-> "open", stamped |-> stamp, due |-> time + MaxTx,
             expires |-> stamp + EventTtl, mine |-> mine]]
  /\ nextId' = nextId + 1
  /\ UNCHANGED <<time, alive, stream, drain, tab, got, base, postEnd>>

Commit(i) ==
  /\ events[i].state = "open"
  /\ events' = [events EXCEPT ![i].state = "committed"]
  /\ postEnd' = IF alive THEN postEnd ELSE postEnd \cup {i}
  /\ UNCHANGED <<time, nextId, alive, stream, drain, tab, got, base>>

Rollback(i) ==
  /\ events[i].state = "open"
  /\ events' = [events EXCEPT ![i].state = "undone"]
  /\ UNCHANGED <<time, nextId, alive, stream, drain, tab, got, base, postEnd>>

(* cleanupExpiredRealtimeEvents.  A stream that has no position yet is     *)
(* polled every few seconds, so nothing it waits for reaches its age.      *)
Expired == {i \in In("committed") : events[i].expires < time}
Cleanup ==
  /\ Expired # {}
  /\ (stream.at = "open" /\ stream.cursor = 0) =>
       \A i \in Expired : events[i].mine => i <= base
  /\ events' = [i \in Id |->
       IF i \in Expired THEN [events[i] EXCEPT !.state = "deleted"] ELSE events[i]]
  /\ UNCHANGED <<time, nextId, alive, stream, drain, tab, got, base, postEnd>>

(* Freezing, a reset, a change of roles or of the phone, a logout: all of  *)
(* them end the family, most of them raise sessionVersion too.             *)
Revoke ==
  /\ alive /\ alive' = FALSE
  /\ UNCHANGED <<time, events, nextId, stream, drain, tab, got, base, postEnd>>

-----------------------------------------------------------------------------
(* The tab asks for the stream and is authenticated.                       *)
Connect ==
  /\ tab.signedIn /\ stream.at = "closed" /\ alive
  /\ stream' = [stream EXCEPT !.at = "opening"]
  /\ UNCHANGED <<time, events, nextId, alive, drain, tab, got, base, postEnd>>

(* A 401 that refreshing does not help against: loseSession.               *)
Refused ==
  /\ tab.signedIn /\ stream.at = "closed" /\ ~alive
  /\ tab' = [signedIn |-> FALSE, last |-> 0]
  /\ UNCHANGED <<time, events, nextId, alive, stream, drain, got, base, postEnd>>

(* A valid Last-Event-ID: the stream goes on behind it.                    *)
Resume ==
  /\ stream.at = "opening" /\ tab.last # 0
  /\ stream' = [at |-> "open", cursor |-> tab.last]
  /\ UNCHANGED <<time, events, nextId, alive, drain, tab, got, base, postEnd>>

Newest(m, S) == m \in S \cup {0} /\ \A i \in S : i <= m

(* None: it starts at the newest committed event (currentHeadEventId),     *)
(* whatever its age.  What is older the tab's screens have asked for.      *)
StartAtHead ==
  /\ stream.at = "opening" /\ tab.last = 0
  /\ \E head \in 0..MaxId, known \in 0..MaxId :
       /\ Newest(head, In("committed"))
       /\ Newest(known, EverCommitted)
       /\ stream' = [at |-> "open", cursor |-> head]
       /\ base' = known
  /\ UNCHANGED <<time, events, nextId, alive, drain, tab, got, postEnd>>

(* The connection breaks or the server restarts, and nobody waits for the  *)
(* drain any more.                                                         *)
Drop ==
  /\ stream.at # "closed"
  /\ stream' = Offline /\ drain' = NoDrain
  /\ UNCHANGED <<time, events, nextId, alive, tab, got, base, postEnd>>

-----------------------------------------------------------------------------
BeginDrainUnchecked ==   \* mutant: the session is checked on connecting only
  /\ stream.at = "open" /\ ~drain.reading
  /\ drain' = [reading |-> TRUE, since |-> time, valid |-> TRUE, seen |-> In("committed")]
  /\ UNCHANGED <<time, events, nextId, alive, stream, tab, got, base, postEnd>>

(* drain, first statement: the snapshot of the transaction.                *)
BeginDrain ==
  /\ stream.at = "open" /\ ~drain.reading
  /\ drain' = [reading |-> TRUE, since |-> time, valid |-> alive, seen |-> In("committed")]
  /\ UNCHANGED <<time, events, nextId, alive, stream, tab, got, base, postEnd>>

(* isCursorStale                                                           *)
CursorStale ==
  /\ stream.cursor # 0
  /\ drain.seen # {}
  /\ \A i \in drain.seen : stream.cursor + 1 < i

ReadableAtOnce ==   \* mutant: no visibility window
  {i \in drain.seen : stream.cursor < i /\ events[i].mine}

(* The query of readEventsForViewer: the rows of the snapshot, the clock   *)
(* of now.                                                                 *)
Readable ==
  {i \in drain.seen : /\ stream.cursor < i /\ events[i].mine
                      /\ events[i].stamped + Window <= time}
Page == {i \in Readable : Cardinality({j \in Readable : j < i}) < Batch}

(* The transaction fails, or there is nothing new.                         *)
Fruitless ==
  /\ drain.reading
  /\ drain' = NoDrain
  /\ UNCHANGED <<time, events, nextId, alive, stream, tab, got, base, postEnd>>

(* session-closed: the server ends the stream and the tab its session.     *)
CloseAsInvalid ==
  /\ drain.reading /\ ~drain.valid
  /\ stream' = Offline /\ drain' = NoDrain
  /\ tab' = [signedIn |-> FALSE, last |-> 0]
  /\ UNCHANGED <<time, events, nextId, alive, got, base, postEnd>>

(* resync-required: the tab forgets its position and asks for everything   *)
(* again; the stream goes on from the oldest event there is.               *)
Resync ==
  /\ drain.reading /\ drain.valid /\ CursorStale
  /\ stream' = [stream EXCEPT !.cursor = 0]
  /\ tab' = [tab EXCEPT !.last = 0]
  /\ \E gone \in 0..MaxId : Newest(gone, In("deleted")) /\ base' = gone
  /\ drain' = NoDrain
  /\ UNCHANGED <<time, events, nextId, alive, got, postEnd>>

(* The page is written in order; the tab receives it up to k, and if that  *)
(* is not the end, the connection is gone.                                 *)
HandOver(k) ==
  /\ drain.reading /\ drain.valid /\ ~CursorStale
  /\ k \in Page
  /\ got' = got \cup {i \in Page : i <= k}
  /\ tab' = [tab EXCEPT !.last = k]
  /\ stream' = IF \A i \in Page : i <= k THEN [stream EXCEPT !.cursor = k] ELSE Offline
  /\ drain' = NoDrain
  /\ UNCHANGED <<time, events, nextId, alive, base, postEnd>>

(* Time passes as far as open transactions and the drain allow.            *)
TimePasses ==
  /\ time < MaxTime
  /\ \A i \in In("open") : time < events[i].due
  /\ drain.reading => time < drain.since + MaxGap
  /\ time' = time + 1
  /\ UNCHANGED <<events, nextId, alive, stream, drain, tab, got, base, postEnd>>

RealtimeNext ==
  \/ Publish \/ Cleanup \/ Revoke \/ TimePasses
  \/ Connect \/ Refused \/ Resume \/ StartAtHead \/ Drop
  \/ BeginDrain \/ Fruitless \/ CloseAsInvalid \/ Resync
  \/ \E i \in Id : Commit(i) \/ Rollback(i) \/ HandOver(i)

RealtimeSpec == RealtimeInit /\ [][RealtimeNext]_realtimeVars

-----------------------------------------------------------------------------
(* What reader.ts says of the window: every event for the viewer between   *)
(* the position the tab started from and the last one it has seen has      *)
(* reached it.  It fails with Skew > 0: a higher id with an older stamp    *)
(* leaves the window first and takes the position past the lower one.      *)
NothingPassedOver ==
  \A i \in EverCommitted : (events[i].mine /\ base < i /\ i <= tab.last) => i \in got

(* The stamp of i stands where its id does among all that was committed.   *)
InStep(i) ==
  \A j \in EverCommitted :
    /\ i < j => events[i].stamped <= events[j].stamped
    /\ j < i => events[j].stamped <= events[i].stamped

(* What the window does give, with whatever Skew: the tab's position never *)
(* runs past an event that commits late, that another page holds or that   *)
(* was deleted unread, unless that event's own stamp is out of step with   *)
(* its id.  It takes a window longer than stamping, transaction and drain  *)
(* together.                                                               *)
LateCommitsArrive ==
  \A i \in EverCommitted :
    (events[i].mine /\ base < i /\ i <= tab.last /\ InStep(i)) => i \in got

(* What was committed after the session had ended never reaches the tab:   *)
(* the session and the events are read in one snapshot.                    *)
NothingAfterTheEnd == postEnd \cap got = {}
=============================================================================
