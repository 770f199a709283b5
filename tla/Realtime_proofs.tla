--------------------------- MODULE Realtime_proofs ---------------------------
(***************************************************************************)
(* Proofs about Realtime, for journals, windows and batches of any size.   *)
(***************************************************************************)
EXTENDS Realtime, FiniteSetTheorems, TLAPS

LEMMA RealtimeTypeStep ==
  ASSUME RealtimeTypeOK, [RealtimeNext]_realtimeVars PROVE RealtimeTypeOK'
<1> USE RealtimeAssumption DEF RealtimeTypeOK, Id, EventRow, In
<1>1. CASE Publish
  <2>1. PICK stamp \in 0..time, mine \in BOOLEAN : events' = [events EXCEPT ![nextId] =
          [state |-> "open", stamped |-> stamp, due |-> time + MaxTx,
           expires |-> stamp + EventTtl, mine |-> mine]]
    BY <1>1 DEF Publish
  <2>2. time + MaxTx \in Nat /\ stamp + EventTtl \in Nat /\ nextId \in Id /\ nextId + 1 \in 1..(MaxId + 1)
    <3>1. /\ time \in Nat /\ MaxTx \in Nat /\ EventTtl \in Nat /\ MaxId \in Nat
          /\ nextId \in 1..(MaxId + 1)
      OBVIOUS
    <3>2. nextId <= MaxId
      BY <1>1 DEF Publish
    <3> HIDE DEF RealtimeTypeOK, EventRow, In
    <3> HIDE RealtimeAssumption
    <3> QED BY <3>1, <3>2
  <2>3. events' \in [Id -> EventRow]
    <3>1. time + MaxTx \in Nat /\ stamp + EventTtl \in Nat /\ stamp \in Nat
      BY <2>2
    <3>2. [state |-> "open", stamped |-> stamp, due |-> time + MaxTx,
           expires |-> stamp + EventTtl, mine |-> mine] \in EventRow
      BY <3>1
    <3>3. events \in [Id -> EventRow]
      OBVIOUS
    <3> HIDE DEF RealtimeTypeOK, EventRow, In, Id
    <3> QED BY <2>1, <3>2, <3>3
  <2> QED BY <1>1, <2>2, <2>3 DEF Publish
<1>2. CASE Cleanup
  <2>1. \A i \in Id : [events[i] EXCEPT !.state = "deleted"] \in EventRow
    OBVIOUS
  <2> QED BY <1>2, <2>1 DEF Cleanup
<1>3. CASE Revoke
  BY <1>3 DEF Revoke
<1>4. CASE TimePasses
  BY <1>4 DEF TimePasses
<1>5. CASE Connect
  BY <1>5 DEF Connect
<1>6. CASE Refused
  BY <1>6 DEF Refused
<1>7. CASE Resume
  BY <1>7 DEF Resume
<1>8. CASE StartAtHead
  BY <1>8 DEF StartAtHead
<1>9. CASE Drop
  BY <1>9 DEF Drop, Offline, NoDrain
<1>10. CASE BeginDrain
  BY <1>10 DEF BeginDrain
<1>11. CASE Fruitless
  BY <1>11 DEF Fruitless, NoDrain
<1>12. CASE CloseAsInvalid
  BY <1>12 DEF CloseAsInvalid, Offline, NoDrain
<1>13. CASE Resync
  <2>0. 0 \in 0..MaxId
    OBVIOUS
  <2>1. stream' \in [at : {"closed", "opening", "open"}, cursor : 0..MaxId]
    <3>1. stream' = [stream EXCEPT !.cursor = 0]
      BY <1>13 DEF Resync
    <3>2. stream \in [at : {"closed", "opening", "open"}, cursor : 0..MaxId]
      OBVIOUS
    <3> HIDE DEF RealtimeTypeOK, Id, EventRow, In
    <3> QED BY <2>0, <3>1, <3>2
  <2>2. tab' \in [signedIn : BOOLEAN, last : 0..MaxId]
    <3>1. tab' = [tab EXCEPT !.last = 0]
      BY <1>13 DEF Resync
    <3>2. tab \in [signedIn : BOOLEAN, last : 0..MaxId]
      OBVIOUS
    <3> HIDE DEF RealtimeTypeOK, Id, EventRow, In
    <3> QED BY <2>0, <3>1, <3>2
  <2>3. drain' = NoDrain /\ base' \in 0..MaxId
    BY <1>13 DEF Resync
  <2> QED BY <1>13, <2>1, <2>2, <2>3 DEF Resync, NoDrain
<1>14. ASSUME NEW i \in Id, Commit(i) PROVE RealtimeTypeOK'
  BY <1>14 DEF Commit
<1>15. ASSUME NEW i \in Id, Rollback(i) PROVE RealtimeTypeOK'
  BY <1>15 DEF Rollback
<1>16. ASSUME NEW i \in Id, HandOver(i) PROVE RealtimeTypeOK'
  <2>1. i \in 0..MaxId
    OBVIOUS
  <2>2. stream' \in [at : {"closed", "opening", "open"}, cursor : 0..MaxId]
    <3>1. stream' = [stream EXCEPT !.cursor = i] \/ stream' = Offline
      BY <1>16 DEF HandOver
    <3>2. stream \in [at : {"closed", "opening", "open"}, cursor : 0..MaxId]
      OBVIOUS
    <3>3. Offline \in [at : {"closed", "opening", "open"}, cursor : 0..MaxId]
      BY DEF Offline
    <3> HIDE DEF RealtimeTypeOK, Id, EventRow, In
    <3> QED BY <2>1, <3>1, <3>2, <3>3
  <2>3. tab' \in [signedIn : BOOLEAN, last : 0..MaxId]
    <3>1. tab' = [tab EXCEPT !.last = i]
      BY <1>16 DEF HandOver
    <3>2. tab \in [signedIn : BOOLEAN, last : 0..MaxId]
      OBVIOUS
    <3> HIDE DEF RealtimeTypeOK, Id, EventRow, In
    <3> QED BY <2>1, <3>1, <3>2
  <2>4. got' \subseteq Id
    BY <1>16 DEF HandOver, Page, Readable
  <2> QED BY <1>16, <2>2, <2>3, <2>4 DEF HandOver, NoDrain
<1>17. CASE UNCHANGED realtimeVars
  BY <1>17 DEF realtimeVars
<1> QED BY <1>1, <1>2, <1>3, <1>4, <1>5, <1>6, <1>7, <1>8, <1>9, <1>10, <1>11,
          <1>12, <1>13, <1>14, <1>15, <1>16, <1>17 DEF RealtimeNext

(* Every variable of the channel keeps its type. *)
THEOREM RealtimeTypeCorrect == RealtimeSpec => []RealtimeTypeOK
<1>1. RealtimeInit => RealtimeTypeOK
  BY RealtimeAssumption DEF RealtimeInit, RealtimeTypeOK, Id, EventRow, Unborn, Offline, NoDrain
<1> QED BY <1>1, RealtimeTypeStep, PTL DEF RealtimeSpec

-----------------------------------------------------------------------------
(* Giving one row another state leaves the rest of the journal as it is.   *)
SameRow(f, g, i) ==
  /\ g[i].stamped = f[i].stamped /\ g[i].due = f[i].due
  /\ g[i].expires = f[i].expires /\ g[i].mine = f[i].mine

LEMMA StateChanges ==
  ASSUME NEW f \in [Id -> EventRow], NEW i \in Id, NEW st, NEW g, g = [f EXCEPT ![i].state = st]
  PROVE  /\ g[i].state = st
         /\ \A j \in Id : j # i => g[j] = f[j]
         /\ \A j \in Id : SameRow(f, g, j)
<1>1. f[i] \in EventRow
  OBVIOUS
<1>2. g[i] = [f[i] EXCEPT !.state = st]
  OBVIOUS
<1>3. g[i].state = st /\ SameRow(f, g, i)
  BY <1>1, <1>2 DEF EventRow, SameRow
<1>4. ASSUME NEW j \in Id, j # i PROVE g[j] = f[j] /\ SameRow(f, g, j)
  BY <1>4 DEF SameRow
<1> QED BY <1>3, <1>4

LEMMA CleanupDeletes ==
  ASSUME RealtimeTypeOK, Cleanup
  PROVE  /\ \A i \in Expired : events'[i].state = "deleted"
         /\ \A i \in Id \ Expired : events'[i] = events[i]
         /\ \A i \in Id : SameRow(events, events', i)
<1>1. ASSUME NEW i \in Expired PROVE events'[i].state = "deleted" /\ SameRow(events, events', i)
  <2>1. i \in Id /\ events[i] \in EventRow
    BY DEF Expired, In, RealtimeTypeOK
  <2>2. events'[i] = [events[i] EXCEPT !.state = "deleted"]
    BY <2>1 DEF Cleanup
  <2> QED BY <2>1, <2>2 DEF EventRow, SameRow
<1>2. ASSUME NEW i \in Id \ Expired PROVE events'[i] = events[i] /\ SameRow(events, events', i)
  BY DEF Cleanup, SameRow
<1> QED BY <1>1, <1>2

(* How a step can change the journal.                                      *)
LEMMA JournalSteps ==
  ASSUME [RealtimeNext]_realtimeVars
  PROVE  \/ Publish \/ Cleanup \/ UNCHANGED <<events, nextId>>
         \/ \E i \in Id : Commit(i) \/ Rollback(i)
BY DEF RealtimeNext, Revoke, TimePasses, Connect, Refused, Resume, StartAtHead, Drop, BeginDrain,
       Fruitless, CloseAsInvalid, Resync, HandOver, realtimeVars

LEMMA PublishAdds ==
  ASSUME RealtimeTypeOK, Publish
  PROVE  \E stamp \in Nat :
           /\ nextId \in Id /\ nextId' = nextId + 1
           /\ stamp <= time /\ time <= stamp + Skew
           /\ events'[nextId].state = "open" /\ events'[nextId].stamped = stamp
           /\ events'[nextId].due = time + MaxTx /\ events'[nextId].expires = stamp + EventTtl
           /\ \A j \in Id : j # nextId => events'[j] = events[j]
<1>1. PICK stamp \in 0..time, mine \in BOOLEAN :
        /\ time <= stamp + Skew
        /\ events' = [events EXCEPT ![nextId] =
             [state |-> "open", stamped |-> stamp, due |-> time + MaxTx,
              expires |-> stamp + EventTtl, mine |-> mine]]
  BY DEF Publish
<1>2. nextId \in Id /\ nextId' = nextId + 1 /\ stamp \in Nat /\ stamp <= time
  BY DEF Publish, RealtimeTypeOK, Id
<1>3. events \in [Id -> EventRow]
  BY DEF RealtimeTypeOK
<1>4. events'[nextId] = [state |-> "open", stamped |-> stamp, due |-> time + MaxTx,
                         expires |-> stamp + EventTtl, mine |-> mine]
  BY <1>1, <1>2, <1>3
<1>5. \A j \in Id : j # nextId => events'[j] = events[j]
  BY <1>1, <1>2, <1>3
<1> QED BY <1>1, <1>2, <1>4, <1>5

(* Rows are born in the order of their ids.                                *)
BornInOrder == \A i \in Id : events[i].state = "unborn" <=> nextId <= i

(* What a drain has seen was committed, and if it found the session alive, *)
(* before its end; the tab has events only that were committed.            *)
SeenBeforeTheEnd ==
  /\ BornInOrder
  /\ NothingAfterTheEnd
  /\ got \subseteq EverCommitted /\ postEnd \subseteq EverCommitted
  /\ drain.seen \subseteq EverCommitted
  /\ drain.valid => drain.seen \cap postEnd = {}
  /\ alive => postEnd = {}

LEMMA BornInOrderStep ==
  ASSUME RealtimeTypeOK, BornInOrder, [RealtimeNext]_realtimeVars PROVE BornInOrder'
<1>1. CASE Publish
  BY <1>1, PublishAdds DEF BornInOrder, RealtimeTypeOK, Id
<1>2. CASE Cleanup
  <2>1. nextId' = nextId /\ \A i \in Expired : events[i].state = "committed"
    BY <1>2 DEF Cleanup, Expired, In
  <2> QED BY <1>2, <2>1, CleanupDeletes DEF BornInOrder
<1>3. ASSUME NEW i \in Id, Commit(i) \/ Rollback(i) PROVE BornInOrder'
  <2>1. PICK st \in {"committed", "undone"} : events' = [events EXCEPT ![i].state = st]
    BY <1>3 DEF Commit, Rollback
  <2>2. nextId' = nextId /\ events[i].state = "open"
    BY <1>3 DEF Commit, Rollback
  <2>3. events \in [Id -> EventRow]
    BY DEF RealtimeTypeOK
  <2>4. events'[i].state = st /\ \A j \in Id : j # i => events'[j] = events[j]
    BY <2>1, <2>3, StateChanges
  <2> QED BY <2>2, <2>4 DEF BornInOrder
<1>4. CASE UNCHANGED <<events, nextId>>
  BY <1>4 DEF BornInOrder
<1> QED BY <1>1, <1>2, <1>3, <1>4, JournalSteps

(* Nothing that was settled is unsettled again.                            *)
LEMMA EverCommittedStays ==
  ASSUME RealtimeTypeOK, BornInOrder, [RealtimeNext]_realtimeVars
  PROVE  EverCommitted \subseteq EverCommitted'
<1>1. CASE Publish
  BY <1>1, PublishAdds DEF BornInOrder, RealtimeTypeOK, Id, EverCommitted, In
<1>2. CASE Cleanup
  BY <1>2, CleanupDeletes DEF EverCommitted, In
<1>3. ASSUME NEW i \in Id, Commit(i) \/ Rollback(i) PROVE EverCommitted \subseteq EverCommitted'
  <2>1. PICK st \in {"committed", "undone"} : events' = [events EXCEPT ![i].state = st]
    BY <1>3 DEF Commit, Rollback
  <2>2. events[i].state = "open" /\ events \in [Id -> EventRow]
    BY <1>3 DEF Commit, Rollback, RealtimeTypeOK
  <2>3. \A j \in Id : j # i => events'[j] = events[j]
    BY <2>1, <2>2, StateChanges
  <2> QED BY <2>2, <2>3 DEF EverCommitted, In
<1>4. CASE UNCHANGED <<events, nextId>>
  BY <1>4 DEF EverCommitted, In
<1> QED BY <1>1, <1>2, <1>3, <1>4, JournalSteps

LEMMA PageIsSeen == Page \subseteq drain.seen
BY DEF Page, Readable

LEMMA SeenBeforeTheEndStep ==
  ASSUME RealtimeTypeOK, SeenBeforeTheEnd, [RealtimeNext]_realtimeVars
  PROVE  SeenBeforeTheEnd'
<1>1. BornInOrder' /\ EverCommitted \subseteq EverCommitted'
  BY BornInOrderStep, EverCommittedStays DEF SeenBeforeTheEnd
<1> SUFFICES /\ NothingAfterTheEnd'
             /\ (got \subseteq EverCommitted)' /\ (postEnd \subseteq EverCommitted)'
             /\ (drain.seen \subseteq EverCommitted)'
             /\ (drain.valid => drain.seen \cap postEnd = {})'
             /\ (alive => postEnd = {})'
  BY <1>1 DEF SeenBeforeTheEnd
<1> USE <1>1 DEF SeenBeforeTheEnd, NothingAfterTheEnd
<1>2. ASSUME NEW i \in Id, Commit(i) PROVE SeenBeforeTheEnd'
  <2>0. i \notin EverCommitted
    BY <1>2 DEF Commit, EverCommitted, In
  <2>1. i \in EverCommitted'
    <3>1. events'[i].state = "committed"
      BY <1>2, StateChanges DEF Commit, RealtimeTypeOK
    <3> QED BY <3>1 DEF EverCommitted, In
  <2> HIDE DEF EverCommitted
  <2> QED BY <1>2, <2>0, <2>1 DEF Commit
<1>3. ASSUME NEW k \in Id, HandOver(k) PROVE SeenBeforeTheEnd'
  <2>1. got' \subseteq got \cup drain.seen /\ drain.valid /\ drain'.seen = {} /\ ~drain'.valid
    BY <1>3, PageIsSeen DEF HandOver, NoDrain
  <2> QED BY <1>3, <2>1 DEF HandOver
<1>4. CASE BeginDrain
  <2>1. drain'.seen = In("committed") /\ drain'.valid = alive
    BY <1>4 DEF BeginDrain
  <2>2. In("committed") \subseteq EverCommitted
    BY DEF EverCommitted
  <2> QED BY <1>4, <2>1, <2>2 DEF BeginDrain
<1>5. CASE Revoke
  BY <1>5 DEF Revoke
<1>6. CASE drain' = NoDrain /\ UNCHANGED <<got, postEnd, alive>>
  BY <1>6 DEF NoDrain
<1>7. CASE UNCHANGED <<got, postEnd, alive, drain>>
  BY <1>7
<1> QED BY <1>2, <1>3, <1>4, <1>5, <1>6, <1>7 DEF RealtimeNext, Publish, Cleanup, Rollback,
          TimePasses, Connect, Refused, Resume, StartAtHead, Drop, Fruitless, CloseAsInvalid,
          Resync, realtimeVars

(* What commits after a session has ended is never shown under it. *)
THEOREM NothingAfterTheEndHolds == RealtimeSpec => []NothingAfterTheEnd
<1>1. RealtimeInit => RealtimeTypeOK /\ SeenBeforeTheEnd
  BY RealtimeAssumption DEF RealtimeInit, RealtimeTypeOK, SeenBeforeTheEnd, BornInOrder,
     NothingAfterTheEnd, Id, EventRow, Unborn, Offline, NoDrain
<1>2. RealtimeTypeOK /\ SeenBeforeTheEnd /\ [RealtimeNext]_realtimeVars
        => (RealtimeTypeOK /\ SeenBeforeTheEnd)'
  BY RealtimeTypeStep, SeenBeforeTheEndStep
<1>3. SeenBeforeTheEnd => NothingAfterTheEnd
  BY DEF SeenBeforeTheEnd
<1> QED BY <1>1, <1>2, <1>3, PTL DEF RealtimeSpec
-----------------------------------------------------------------------------
(* What reader.ts takes for granted of the window: it is longer than       *)
(* stamping, a transaction and a drain take together.                      *)
WindowIsEnough == Skew + MaxTx + MaxGap < Window

(* What can be the matter with i when a later event j is deleted already.  *)
Outlived(i, j) ==
  \/ events[i].state \in {"deleted", "undone"}
  \/ events[i].state = "committed" /\ events[j].stamped < events[i].stamped

(* Transactions keep their time, ids are drawn as time goes on, and rows   *)
(* are deleted from the oldest stamp on.                                   *)
RowsInOrder ==
  /\ BornInOrder
  /\ \A i \in Id : i < nextId =>
       /\ events[i].stamped + MaxTx <= events[i].due
       /\ events[i].due <= events[i].stamped + Skew + MaxTx
       /\ events[i].due <= time + MaxTx
       /\ events[i].expires = events[i].stamped + EventTtl
  /\ \A i \in Id :
       /\ events[i].state = "open" => time <= events[i].due
       /\ events[i].state = "deleted" => events[i].expires < time
  /\ \A i, j \in Id : i < j /\ j < nextId => events[i].due <= events[j].due
  /\ \A i, j \in Id : i < j /\ events[j].state = "deleted" => Outlived(i, j)

(* Below an event that this drain may hand over, everything its snapshot   *)
(* has not seen was undone, or deleted before all that it has seen with    *)
(* a lower id.                                                             *)
Accounted(i) ==
  \/ i \in drain.seen
  \/ events[i].state = "undone"
  \/ /\ events[i].state = "deleted"
     /\ \A s \in drain.seen : i < s \/ events[i].stamped < events[s].stamped

SnapshotIsComplete ==
  /\ drain.seen \subseteq EverCommitted
  /\ drain.reading =>
       /\ stream.at = "open" /\ drain.since <= time /\ time <= drain.since + MaxGap
       /\ \A m \in drain.seen, i \in Id :
            events[m].stamped + Window <= drain.since + MaxGap /\ i < m => Accounted(i)

(* The stream stands where the tab does, or where the tab's own requests   *)
(* reach to; below the tab's position nothing is open.                     *)
PositionIsSound ==
  /\ stream.at = "open" /\ tab.last # 0 => stream.cursor = tab.last
  /\ stream.at = "open" /\ tab.last = 0 => stream.cursor <= base
  /\ stream.at = "open" /\ stream.cursor = 0 =>
       \A i \in Id : events[i].state = "deleted" /\ events[i].mine => i <= base
  /\ \A i \in Id : base < i /\ i <= tab.last => events[i].state \notin {"open", "unborn"}
  /\ LateCommitsArrive

ChannelInv == RowsInOrder /\ SnapshotIsComplete /\ PositionIsSound

LEMMA RowsInOrderStep ==
  ASSUME RealtimeTypeOK, RowsInOrder, [RealtimeNext]_realtimeVars
  PROVE  RowsInOrder'
<1> DEFINE Kept(i) == /\ events[i].stamped + MaxTx <= events[i].due
                      /\ events[i].due <= events[i].stamped + Skew + MaxTx
                      /\ events[i].due <= time + MaxTx
                      /\ events[i].expires = events[i].stamped + EventTtl
           Aged(i) == /\ events[i].state = "open" => time <= events[i].due
                      /\ events[i].state = "deleted" => events[i].expires < time
<1>0. RowsInOrder <=>
        /\ BornInOrder
        /\ \A i \in Id : i < nextId => Kept(i)
        /\ \A i \in Id : Aged(i)
        /\ \A i, j \in Id : i < j /\ j < nextId => events[i].due <= events[j].due
        /\ \A i, j \in Id : i < j /\ events[j].state = "deleted" => Outlived(i, j)
  BY DEF RowsInOrder
<1>1. BornInOrder'
  BY BornInOrderStep DEF RowsInOrder
<1>2. /\ \A i \in Id : /\ events[i].stamped \in Nat /\ events[i].due \in Nat
                       /\ events[i].expires \in Nat
      /\ MaxTx \in Nat /\ Skew \in Nat /\ EventTtl \in Nat /\ MaxTx + Skew <= EventTtl
  BY RealtimeAssumption DEF RealtimeTypeOK, EventRow
<1>3. time \in Nat /\ nextId \in Nat /\ \A i \in Id : i \in Nat
  BY DEF RealtimeTypeOK, Id
<1>4. CASE Publish
  <2>1. PICK stamp \in Nat :
          /\ nextId \in Id /\ nextId' = nextId + 1
          /\ stamp <= time /\ time <= stamp + Skew
          /\ events'[nextId].state = "open" /\ events'[nextId].stamped = stamp
          /\ events'[nextId].due = time + MaxTx /\ events'[nextId].expires = stamp + EventTtl
          /\ \A j \in Id : j # nextId => events'[j] = events[j]
    BY <1>4, PublishAdds
  <2>2. time' = time
    BY <1>4 DEF Publish
  <2>3. /\ \A i \in Id : i < nextId' => i < nextId \/ i = nextId
        /\ \A i \in Id : i < nextId => i # nextId /\ events'[i] = events[i]
    BY <1>3, <2>1
  <2>4. \A i \in Id : i = nextId => Kept(i)'
    BY <1>2, <1>3, <2>1, <2>2
  <2>5. \A i \in Id : i = nextId => Aged(i)'
    <3>1. time <= time + MaxTx
      BY <1>2, <1>3
    <3> QED BY <2>1, <2>2, <3>1
  <2>6. \A i \in Id : i < nextId => Kept(i)'
    BY <1>0, <2>2, <2>3
  <2>7. \A i \in Id : i # nextId => Aged(i)'
    BY <1>0, <2>1, <2>2
  <2>8. ASSUME NEW i \in Id, NEW j \in Id, i < j, j < nextId'
        PROVE  events'[i].due <= events'[j].due
    <3>1. i < nextId
      BY <1>3, <2>1, <2>8
    <3>2. CASE j = nextId
      BY <1>0, <2>1, <2>3, <3>1, <3>2
    <3>3. CASE j < nextId
      BY <1>0, <2>3, <2>8, <3>1, <3>3
    <3> QED BY <2>3, <2>8, <3>2, <3>3
  <2>9. ASSUME NEW i \in Id, NEW j \in Id, i < j, events'[j].state = "deleted"
        PROVE  Outlived(i, j)'
    <3>1. j # nextId /\ events'[j] = events[j]
      BY <2>1, <2>9
    <3>2. j < nextId
      BY <1>0, <1>3, <2>9, <3>1 DEF BornInOrder
    <3>3. events'[i] = events[i]
      BY <1>3, <2>3, <2>9, <3>2
    <3> QED BY <1>0, <2>9, <3>1, <3>3 DEF Outlived
  <2>10. \A i \in Id : i < nextId' => Kept(i)'
    BY <2>3, <2>4, <2>6
  <2>11. \A i \in Id : Aged(i)'
    BY <2>5, <2>7
  <2> QED BY <1>1, <2>8, <2>9, <2>10, <2>11 DEF RowsInOrder
<1>5. CASE Cleanup
  <2>1. /\ \A i \in Expired : events'[i].state = "deleted"
        /\ \A i \in Id \ Expired : events'[i] = events[i]
        /\ \A i \in Id : SameRow(events, events', i)
    BY <1>5, CleanupDeletes
  <2>2. time' = time /\ nextId' = nextId
    BY <1>5 DEF Cleanup
  <2>3. \A i \in Expired : i \in Id /\ events[i].state = "committed" /\ events[i].expires < time
    BY DEF Expired, In
  <2>4. \A i \in Id : i < nextId' => Kept(i)'
    BY <1>0, <2>1, <2>2 DEF SameRow
  <2>5. \A i \in Id : Aged(i)'
    BY <1>0, <2>1, <2>2, <2>3 DEF SameRow
  <2>6. \A i, j \in Id : i < j /\ j < nextId' => events'[i].due <= events'[j].due
    BY <1>0, <2>1, <2>2 DEF SameRow
  <2>7. ASSUME NEW i \in Id, NEW j \in Expired, i < j
        PROVE  Outlived(i, j) \/ i \in Expired
    <3>0. j \in Id /\ i \in Nat /\ j \in Nat
      BY <1>3, <2>3
    <3>1. j < nextId /\ i < nextId
      BY <1>0, <1>3, <2>3, <2>7, <3>0 DEF BornInOrder
    <3>2. events[i].due <= events[j].due /\ events[j].expires < time
      BY <1>0, <2>3, <2>7, <3>0, <3>1
    <3>3. events[j].due <= events[j].expires
      BY <1>0, <1>2, <3>0, <3>1
    <3>4. events[i].due < time
      BY <1>2, <1>3, <3>0, <3>2, <3>3
    <3>5. events[i].state \notin {"open", "unborn"}
      BY <1>0, <1>2, <1>3, <3>1, <3>4 DEF BornInOrder
    <3>6. events[i].state \in {"unborn", "open", "committed", "undone", "deleted"}
      BY DEF RealtimeTypeOK, EventRow
    <3>7. CASE events[i].state = "committed" /\ i \notin Expired
      <4>1. ~(events[i].expires < time)
        BY <3>7 DEF Expired, In
      <4>2. events[j].expires < events[i].expires
        BY <1>2, <1>3, <3>0, <3>2, <4>1
      <4>3. events[j].stamped < events[i].stamped
        BY <1>0, <1>2, <3>0, <3>1, <4>2
      <4> QED BY <3>7, <4>3 DEF Outlived
    <3> QED BY <3>5, <3>6, <3>7 DEF Outlived
  <2>8. ASSUME NEW i \in Id, NEW j \in Id, i < j, events'[j].state = "deleted"
        PROVE  Outlived(i, j)'
    <3>1. Outlived(i, j) \/ i \in Expired
      <4>1. CASE j \in Expired
        BY <2>7, <2>8, <4>1
      <4>2. CASE j \notin Expired
        BY <1>0, <2>1, <2>8, <4>2
      <4> QED BY <4>1, <4>2
    <3>2. CASE i \in Expired
      BY <2>1, <3>2 DEF Outlived
    <3>3. CASE i \notin Expired
      <4>1. events'[i] = events[i] /\ events'[j].stamped = events[j].stamped
        BY <2>1, <3>3 DEF SameRow
      <4> QED BY <3>1, <3>3, <4>1 DEF Outlived
    <3> QED BY <3>2, <3>3
  <2> QED BY <1>1, <2>4, <2>5, <2>6, <2>8 DEF RowsInOrder
<1>6. ASSUME NEW k \in Id, Commit(k) \/ Rollback(k) PROVE RowsInOrder'
  <2>1. PICK st \in {"committed", "undone"} : events' = [events EXCEPT ![k].state = st]
    BY <1>6 DEF Commit, Rollback
  <2>2. nextId' = nextId /\ time' = time /\ events[k].state = "open"
    BY <1>6 DEF Commit, Rollback
  <2>3. events \in [Id -> EventRow]
    BY DEF RealtimeTypeOK
  <2>4. /\ events'[k].state = st
        /\ \A j \in Id : j # k => events'[j] = events[j]
        /\ \A j \in Id : SameRow(events, events', j)
    <3>1. \A g : g = [events EXCEPT ![k].state = st] =>
            /\ g[k].state = st
            /\ \A j \in Id : j # k => g[j] = events[j]
            /\ \A j \in Id : SameRow(events, g, j)
      BY <2>3, StateChanges
    <3> QED BY <2>1, <3>1
  <2>5. \A i \in Id : i < nextId' => Kept(i)'
    BY <1>0, <2>2, <2>4 DEF SameRow
  <2>6. \A i \in Id : Aged(i)'
    <3>1. Aged(k)'
      BY <2>1, <2>4
    <3>2. \A i \in Id : i # k => Aged(i)'
      BY <1>0, <2>2, <2>4
    <3> QED BY <3>1, <3>2
  <2>7. \A i, j \in Id : i < j /\ j < nextId' => events'[i].due <= events'[j].due
    BY <1>0, <2>2, <2>4 DEF SameRow
  <2>8. ASSUME NEW i \in Id, NEW j \in Id, i < j, events'[j].state = "deleted"
        PROVE  Outlived(i, j)'
    <3>1. j # k /\ events'[j] = events[j]
      BY <2>1, <2>4, <2>8
    <3>2. Outlived(i, j)
      BY <1>0, <2>8, <3>1
    <3>3. i # k
      BY <2>2, <3>2 DEF Outlived
    <3>4. events'[i] = events[i]
      BY <2>4, <3>3
    <3> QED BY <3>1, <3>2, <3>4 DEF Outlived
  <2> QED BY <1>1, <2>5, <2>6, <2>7, <2>8 DEF RowsInOrder
<1>7. CASE TimePasses
  <2>1. UNCHANGED <<events, nextId>> /\ time' = time + 1
    BY <1>7 DEF TimePasses
  <2>2. \A i \in Id : events[i].state = "open" => time < events[i].due
    BY <1>7 DEF TimePasses, In
  <2>3. \A i \in Id : i < nextId' => Kept(i)'
    BY <1>0, <1>2, <1>3, <2>1
  <2>4. \A i \in Id : Aged(i)'
    BY <1>0, <1>2, <1>3, <2>1, <2>2
  <2>5. \A i, j \in Id : i < j /\ events'[j].state = "deleted" => Outlived(i, j)'
    BY <1>0, <2>1 DEF Outlived
  <2> QED BY <1>0, <1>1, <2>1, <2>3, <2>4, <2>5 DEF RowsInOrder
<1>8. CASE UNCHANGED <<events, nextId, time>>
  BY <1>1, <1>8 DEF RowsInOrder, Outlived
<1> QED BY <1>4, <1>5, <1>6, <1>7, <1>8 DEF RealtimeNext, Revoke, Connect, Refused, Resume,
          StartAtHead, Drop, BeginDrain, Fruitless, CloseAsInvalid, Resync, HandOver, realtimeVars

-----------------------------------------------------------------------------
(* What the snapshot of a drain has not seen below an event old enough to  *)
(* be handed over before the drain ends.                                   *)
LEMMA SnapshotTaken ==
  ASSUME WindowIsEnough, RealtimeTypeOK, RowsInOrder,
         NEW m \in In("committed"), NEW i \in Id, i < m,
         events[m].stamped + Window <= time + MaxGap
  PROVE  \/ i \in In("committed")
         \/ events[i].state = "undone"
         \/ /\ events[i].state = "deleted"
            /\ \A s \in In("committed") : i < s \/ events[i].stamped < events[s].stamped
<1> USE RealtimeAssumption
<1>1. m \in Id /\ events[m].state = "committed"
  BY DEF In
<1>2. /\ time \in Nat /\ nextId \in Nat /\ m \in Nat /\ i \in Nat
      /\ events[i].due \in Nat /\ events[m].due \in Nat /\ events[m].stamped \in Nat
  <2>1. events[i] \in EventRow /\ events[m] \in EventRow
    BY <1>1 DEF RealtimeTypeOK
  <2>2. /\ events[i].due \in Nat /\ events[m].due \in Nat /\ events[m].stamped \in Nat
    BY <2>1 DEF EventRow
  <2>3. time \in Nat /\ nextId \in Nat /\ m \in Nat /\ i \in Nat
    BY <1>1 DEF RealtimeTypeOK, Id
  <2> QED BY <2>2, <2>3
<1>3. m < nextId /\ i < nextId
  BY <1>1, <1>2 DEF RowsInOrder, BornInOrder
<1>4. events[i].state # "unborn"
  BY <1>2, <1>3 DEF RowsInOrder, BornInOrder
<1>5. events[i].state # "open"
  <2>1. SUFFICES ASSUME events[i].state = "open" PROVE FALSE
    OBVIOUS
  <2>2. time <= events[i].due
    BY <2>1 DEF RowsInOrder
  <2>3. events[i].due <= events[m].due
    BY <1>1, <1>3 DEF RowsInOrder
  <2>4. events[m].due <= events[m].stamped + Skew + MaxTx
    BY <1>1, <1>3 DEF RowsInOrder
  <2> QED BY <1>2, <2>2, <2>3, <2>4 DEF WindowIsEnough
<1>6. events[i].state \in {"unborn", "open", "committed", "undone", "deleted"}
  BY DEF RealtimeTypeOK, EventRow
<1>7. CASE events[i].state = "deleted"
  <2>1. ASSUME NEW s \in In("committed") PROVE i < s \/ events[i].stamped < events[s].stamped
    <3>1. s \in Id /\ events[s].state = "committed" /\ s \in Nat
      BY DEF In, Id
    <3>2. i # s
      BY <1>7, <3>1
    <3>3. s < i => events[i].stamped < events[s].stamped
      BY <1>7, <3>1 DEF RowsInOrder, Outlived
    <3> QED BY <1>2, <3>1, <3>2, <3>3
  <2> QED BY <1>7, <2>1
<1> QED BY <1>4, <1>5, <1>6, <1>7 DEF In

(* A settled row keeps its stamp.                                          *)
LEMMA SeenStampStays ==
  ASSUME RealtimeTypeOK, BornInOrder, [RealtimeNext]_realtimeVars,
         NEW m \in EverCommitted
  PROVE  events'[m].stamped = events[m].stamped /\ events'[m].mine = events[m].mine
<1>0. m \in Id /\ events[m].state # "unborn"
  BY DEF EverCommitted, In
<1>1. CASE Publish
  <2>1. m # nextId
    BY <1>0 DEF BornInOrder, RealtimeTypeOK, Id
  <2> QED BY <1>0, <1>1, <2>1, PublishAdds
<1>2. CASE Cleanup
  BY <1>0, <1>2, CleanupDeletes DEF SameRow
<1>3. ASSUME NEW k \in Id, Commit(k) \/ Rollback(k) PROVE SameRow(events, events', m)
  <2>1. PICK st \in {"committed", "undone"} : events' = [events EXCEPT ![k].state = st]
    BY <1>3 DEF Commit, Rollback
  <2> QED BY <1>0, <2>1, StateChanges DEF RealtimeTypeOK
<1>4. CASE UNCHANGED <<events, nextId>>
  BY <1>4
<1> QED BY <1>1, <1>2, <1>3, <1>4, JournalSteps DEF SameRow

(* An event that was out of step with its id stays so.                     *)
LEMMA InStepWas ==
  ASSUME RealtimeTypeOK, BornInOrder, [RealtimeNext]_realtimeVars,
         NEW i \in EverCommitted, InStep(i)'
  PROVE  InStep(i)
<1>1. EverCommitted \subseteq EverCommitted'
  BY EverCommittedStays
<1>2. \A j \in EverCommitted : events'[j].stamped = events[j].stamped
  BY SeenStampStays
<1> QED BY <1>1, <1>2 DEF InStep

LEMMA SnapshotStays ==
  ASSUME RealtimeTypeOK, RowsInOrder, SnapshotIsComplete, [RealtimeNext]_realtimeVars,
         NEW i \in Id, drain' = drain, drain.reading,
         NEW m \in drain.seen, i < m, Accounted(i)
  PROVE  Accounted(i)'
<1>0. \A s \in drain.seen : events'[s].stamped = events[s].stamped
  BY SeenStampStays DEF SnapshotIsComplete, RowsInOrder
<1>1. SUFFICES ASSUME i \notin drain.seen
               PROVE  events'[i].state = events[i].state /\ events'[i].stamped = events[i].stamped
  BY <1>0 DEF Accounted
<1>2. events[i].state \in {"undone", "deleted"}
  BY <1>1 DEF Accounted
<1>3. CASE Publish
  <2>1. m \in Id /\ events[m].state \in {"committed", "deleted"}
    BY DEF SnapshotIsComplete, EverCommitted, In
  <2>2. nextId \in Nat /\ i \in Nat /\ m \in Nat /\ m < nextId
    BY <2>1 DEF RowsInOrder, BornInOrder, RealtimeTypeOK, Id
  <2>3. i # nextId
    BY <2>2
  <2> QED BY <1>3, <2>3, PublishAdds
<1>4. CASE Cleanup
  <2>1. i \notin Expired
    BY <1>2 DEF Expired, In
  <2> QED BY <1>4, <2>1, CleanupDeletes
<1>5. ASSUME NEW k \in Id, Commit(k) \/ Rollback(k) PROVE events'[i] = events[i]
  <2>1. PICK st \in {"committed", "undone"} : events' = [events EXCEPT ![k].state = st]
    BY <1>5 DEF Commit, Rollback
  <2>2. events[k].state = "open" /\ events \in [Id -> EventRow]
    BY <1>5 DEF Commit, Rollback, RealtimeTypeOK
  <2>3. \A j \in Id : j # k => events'[j] = events[j]
    BY <2>1, <2>2, StateChanges
  <2> QED BY <1>2, <2>2, <2>3
<1>6. CASE UNCHANGED <<events, nextId>>
  BY <1>6
<1> QED BY <1>3, <1>4, <1>5, <1>6, JournalSteps

LEMMA SnapshotIsCompleteStep ==
  ASSUME WindowIsEnough, RealtimeTypeOK, RowsInOrder, SnapshotIsComplete,
         [RealtimeNext]_realtimeVars
  PROVE  SnapshotIsComplete'
<1> USE RealtimeAssumption
<1>1. EverCommitted \subseteq EverCommitted'
  BY EverCommittedStays DEF RowsInOrder
<1>2. CASE BeginDrain
  <2>1. /\ drain' = [reading |-> TRUE, since |-> time, valid |-> alive, seen |-> In("committed")]
        /\ stream.at = "open"
        /\ UNCHANGED <<time, events, stream>>
    BY <1>2 DEF BeginDrain
  <2>2. drain'.seen = In("committed") /\ drain'.since = time /\ drain'.reading
    BY <2>1
  <2>3. In("committed") \subseteq EverCommitted'
    BY <1>1 DEF EverCommitted
  <2>4. time \in Nat /\ time <= time + MaxGap
    BY DEF RealtimeTypeOK
  <2>5. ASSUME NEW m \in In("committed"), NEW i \in Id,
               events'[m].stamped + Window <= time + MaxGap, i < m
        PROVE  Accounted(i)'
    <3>1. \/ i \in In("committed")
          \/ events[i].state = "undone"
          \/ /\ events[i].state = "deleted"
             /\ \A s \in In("committed") : i < s \/ events[i].stamped < events[s].stamped
      BY <2>1, <2>5, SnapshotTaken
    <3> QED BY <2>1, <2>2, <3>1 DEF Accounted
  <2> QED BY <2>1, <2>2, <2>3, <2>4, <2>5 DEF SnapshotIsComplete
<1>3. CASE drain' = NoDrain
  BY <1>3 DEF SnapshotIsComplete, NoDrain
<1>4. CASE TimePasses
  <2>1. /\ UNCHANGED <<drain, events, stream>> /\ time' = time + 1
        /\ drain.reading => time < drain.since + MaxGap
    BY <1>4 DEF TimePasses
  <2>2. time \in Nat /\ drain.since \in Nat
    BY DEF RealtimeTypeOK
  <2>3. \A i \in Id : Accounted(i) => Accounted(i)'
    BY <2>1 DEF Accounted
  <2>4. drain.reading => drain.since <= time' /\ time' <= drain.since + MaxGap
    BY <2>1, <2>2 DEF SnapshotIsComplete
  <2> QED BY <1>1, <2>1, <2>3, <2>4 DEF SnapshotIsComplete
<1>5. CASE drain' = drain /\ time' = time /\ (drain.reading => stream' = stream)
  <2>1. drain.seen \subseteq EverCommitted'
    BY <1>1 DEF SnapshotIsComplete
  <2>2. ASSUME drain.reading, NEW m \in drain.seen, NEW i \in Id,
               events'[m].stamped + Window <= drain.since + MaxGap, i < m
        PROVE  Accounted(i)'
    <3>1. events'[m].stamped = events[m].stamped
      <4>1. m \in EverCommitted /\ BornInOrder
        BY DEF SnapshotIsComplete, RowsInOrder
      <4> QED BY <4>1, SeenStampStays
    <3>2. Accounted(i)
      BY <2>2, <3>1 DEF SnapshotIsComplete
    <3> QED BY <1>5, <2>2, <3>2, SnapshotStays
  <2> QED BY <1>5, <2>1, <2>2 DEF SnapshotIsComplete
<1>6. drain.reading => stream.at = "open"
  BY DEF SnapshotIsComplete
<1>7. CASE Publish \/ Cleanup \/ Revoke \/ Refused \/ \E i \in Id : Commit(i) \/ Rollback(i)
  BY <1>5, <1>7 DEF Publish, Cleanup, Revoke, Refused, Commit, Rollback
<1>8. CASE Connect \/ Resume \/ StartAtHead
  BY <1>5, <1>6, <1>8 DEF Connect, Resume, StartAtHead
<1>9. CASE Drop \/ Fruitless \/ CloseAsInvalid \/ Resync \/ \E i \in Id : HandOver(i)
  BY <1>3, <1>9 DEF Drop, Fruitless, CloseAsInvalid, Resync, HandOver
<1>10. CASE UNCHANGED realtimeVars
  BY <1>5, <1>10 DEF realtimeVars
<1> QED BY <1>2, <1>4, <1>7, <1>8, <1>9, <1>10 DEF RealtimeNext

-----------------------------------------------------------------------------
(* A page has no holes: what is readable below one of its events is on it. *)
LEMMA PageHasNoHoles ==
  ASSUME RealtimeTypeOK, NEW k \in Page, NEW i \in Readable, i < k
  PROVE  i \in Page
<1> DEFINE Below(n) == {j \in Readable : j < n}
<1>1. Readable \subseteq Id /\ k \in Readable
  BY DEF Page, Readable, RealtimeTypeOK
<1>2. IsFiniteSet(Readable)
  <2>1. IsFiniteSet(1..MaxId)
    BY RealtimeAssumption, FS_Interval
  <2> QED BY <1>1, <2>1, FS_Subset DEF Id
<1>3. IsFiniteSet(Below(k))
  BY <1>2, FS_Subset
<1>4. Below(i) \subseteq Below(k)
  <2>1. i \in Nat /\ k \in Nat /\ \A j \in Readable : j \in Nat
    BY <1>1 DEF Id
  <2>2. \A j \in Readable : j < i => j < k
    BY <2>1
  <2> QED BY <2>2
<1>5. IsFiniteSet(Below(i)) /\ Cardinality(Below(i)) <= Cardinality(Below(k))
  BY <1>3, <1>4, FS_Subset
<1>6. Cardinality(Below(i)) \in Nat /\ Cardinality(Below(k)) \in Nat
  BY <1>3, <1>5, FS_CardinalityType
<1>7. Cardinality(Below(k)) < Batch
  BY DEF Page
<1> QED BY <1>5, <1>6, <1>7, RealtimeAssumption DEF Page

LEMMA PositionIsSoundStep ==
  ASSUME WindowIsEnough, RealtimeTypeOK, ChannelInv, [RealtimeNext]_realtimeVars
  PROVE  PositionIsSound'
<1> USE RealtimeAssumption
<1>1. BornInOrder /\ RowsInOrder /\ SnapshotIsComplete /\ PositionIsSound
  BY DEF ChannelInv, RowsInOrder
<1>2. base \in Nat /\ tab.last \in Nat /\ stream.cursor \in Nat /\ \A i \in Id : i \in Nat
  BY DEF RealtimeTypeOK, Id
<1>0. \A i \in EverCommitted : InStep(i)' => InStep(i)
  BY <1>1, InStepWas
<1>3. CASE Publish
  <2>1. nextId \in Id /\ \A j \in Id : j # nextId => events'[j] = events[j]
    BY <1>3, PublishAdds
  <2>2. events'[nextId].state = "open"
    BY <1>3, PublishAdds
  <2>3. UNCHANGED <<stream, tab, got, base>>
    BY <1>3 DEF Publish
  <2>4. events[nextId].state = "unborn"
    BY <1>1, <2>1 DEF BornInOrder, RealtimeTypeOK
  <2>5. ~(base < nextId /\ nextId <= tab.last)
    BY <1>1, <2>1, <2>4 DEF PositionIsSound
  <2>6. \A i \in EverCommitted' : i \in EverCommitted /\ events'[i] = events[i]
    BY <2>1, <2>2 DEF EverCommitted, In
  <2>7. LateCommitsArrive'
    BY <1>1, <1>0, <2>3, <2>6 DEF PositionIsSound, LateCommitsArrive
  <2>8. \A i \in Id : events'[i].state = "deleted" => events'[i] = events[i]
    BY <2>1, <2>2
  <2>9. \A i \in Id : base < i /\ i <= tab.last => events'[i].state \notin {"open", "unborn"}
    <3>1. ASSUME NEW i \in Id, base < i, i <= tab.last
          PROVE  events'[i].state \notin {"open", "unborn"}
      <4>1. i # nextId
        BY <2>5, <3>1
      <4>2. events'[i] = events[i]
        BY <2>1, <4>1
      <4> QED BY <1>1, <3>1, <4>2 DEF PositionIsSound
    <3> QED BY <3>1
  <2> QED BY <1>1, <2>3, <2>7, <2>8, <2>9 DEF PositionIsSound
<1>4. CASE Cleanup
  <2>1. UNCHANGED <<stream, tab, got, base>>
    BY <1>4 DEF Cleanup
  <2>2. /\ \A i \in Expired : events'[i].state = "deleted"
        /\ \A i \in Id \ Expired : events'[i] = events[i]
        /\ \A i \in Id : events'[i].mine = events[i].mine
    BY <1>4, CleanupDeletes DEF SameRow
  <2>3. \A i \in Expired : i \in Id /\ events[i].state = "committed"
    BY DEF Expired, In
  <2>4. \A i \in EverCommitted' : i \in EverCommitted /\ events'[i].mine = events[i].mine
    BY <2>2, <2>3 DEF EverCommitted, In
  <2>5. LateCommitsArrive'
    BY <1>1, <1>0, <2>1, <2>4 DEF PositionIsSound, LateCommitsArrive
  <2>6. ASSUME stream.at = "open", stream.cursor = 0,
               NEW i \in Id, events'[i].state = "deleted", events'[i].mine
        PROVE  i <= base
    <3>1. CASE i \in Expired
      BY <1>4, <2>2, <2>6, <3>1 DEF Cleanup
    <3>2. CASE i \notin Expired
      BY <1>1, <2>2, <2>6, <3>2 DEF PositionIsSound
    <3> QED BY <3>1, <3>2
  <2>7. \A i \in Id : events'[i].state \in {"open", "unborn"} => events'[i].state = events[i].state
    BY <2>2
  <2>8. \A i \in Id : base < i /\ i <= tab.last => events'[i].state \notin {"open", "unborn"}
    BY <1>1, <2>7 DEF PositionIsSound
  <2> QED BY <1>1, <2>1, <2>5, <2>6, <2>8 DEF PositionIsSound
<1>5. ASSUME NEW k \in Id, Commit(k) \/ Rollback(k) PROVE PositionIsSound'
  <2>1. PICK st \in {"committed", "undone"} : events' = [events EXCEPT ![k].state = st]
    BY <1>5 DEF Commit, Rollback
  <2>2. events[k].state = "open" /\ UNCHANGED <<stream, tab, got, base>>
    BY <1>5 DEF Commit, Rollback
  <2>3. events \in [Id -> EventRow]
    BY DEF RealtimeTypeOK
  <2>4. /\ events'[k].state = st
        /\ \A j \in Id : j # k => events'[j] = events[j]
    BY <2>1, <2>3, StateChanges
  <2>5. ~(base < k /\ k <= tab.last)
    BY <1>1, <2>2 DEF PositionIsSound
  <2>6. \A j \in EverCommitted' : j # k => j \in EverCommitted /\ events'[j] = events[j]
    BY <2>4 DEF EverCommitted, In
  <2>7. LateCommitsArrive'
    <3>1. ASSUME NEW i \in EverCommitted', events'[i].mine, base < i, i <= tab.last, InStep(i)'
          PROVE  i \in got
      <4>1. i # k
        BY <2>5, <3>1
      <4>2. i \in EverCommitted /\ events'[i] = events[i]
        BY <2>6, <4>1
      <4> QED BY <1>1, <1>0, <3>1, <4>2 DEF PositionIsSound, LateCommitsArrive
    <3> QED BY <2>2, <3>1 DEF LateCommitsArrive
  <2>8. \A i \in Id : events'[i].state = "deleted" => events'[i] = events[i]
    BY <2>1, <2>4
  <2>9. \A i \in Id : events'[i].state \in {"open", "unborn"} => events'[i] = events[i]
    BY <2>1, <2>4
  <2>10. \A i \in Id : base < i /\ i <= tab.last => events'[i].state \notin {"open", "unborn"}
    BY <1>1, <2>9 DEF PositionIsSound
  <2> QED BY <1>1, <2>2, <2>7, <2>8, <2>10 DEF PositionIsSound
<1>6. CASE Revoke \/ TimePasses \/ BeginDrain \/ Fruitless \/ UNCHANGED realtimeVars
  <2>1. UNCHANGED <<events, stream, tab, got, base>>
    BY <1>6 DEF Revoke, TimePasses, BeginDrain, Fruitless, realtimeVars
  <2> QED BY <1>1, <2>1 DEF PositionIsSound, LateCommitsArrive, InStep, EverCommitted, In
<1>7. CASE Connect \/ Drop
  <2>1. UNCHANGED <<events, tab, got, base>> /\ stream'.at # "open"
    BY <1>7 DEF Connect, Drop, Offline, RealtimeTypeOK
  <2> QED BY <1>1, <2>1 DEF PositionIsSound, LateCommitsArrive, InStep, EverCommitted, In
<1>8. CASE Refused \/ CloseAsInvalid
  <2>1. UNCHANGED <<events, base>> /\ stream'.at # "open" /\ tab'.last = 0
    BY <1>8 DEF Refused, CloseAsInvalid, Offline
  <2>2. \A i \in Id : ~(base < i /\ i <= 0)
    BY <1>2
  <2>3. EverCommitted' \subseteq Id
    BY DEF EverCommitted, In
  <2> QED BY <2>1, <2>2, <2>3 DEF PositionIsSound, LateCommitsArrive
<1>9. CASE Resume
  <2>1. UNCHANGED <<events, tab, got, base>> /\ stream'.cursor = tab.last /\ tab.last # 0
    BY <1>9 DEF Resume
  <2> QED BY <1>1, <2>1 DEF PositionIsSound, LateCommitsArrive, InStep, EverCommitted, In
<1>10. CASE StartAtHead
  <2>1. PICK head \in 0..MaxId, known \in 0..MaxId :
          /\ Newest(head, In("committed"))
          /\ Newest(known, EverCommitted)
          /\ stream' = [at |-> "open", cursor |-> head]
          /\ base' = known
    BY <1>10 DEF StartAtHead
  <2>2. UNCHANGED <<events, tab, got>> /\ tab.last = 0
    BY <1>10 DEF StartAtHead
  <2>3. head <= known
    BY <2>1 DEF Newest, EverCommitted
  <2>4. \A i \in Id : events[i].state = "deleted" => i <= known
    BY <2>1 DEF Newest, EverCommitted, In
  <2>5. \A i \in Id : ~(known < i /\ i <= 0)
    BY <1>2, <2>1
  <2>6. EverCommitted' \subseteq Id
    BY DEF EverCommitted, In
  <2>7. LateCommitsArrive'
    BY <2>1, <2>2, <2>5, <2>6 DEF LateCommitsArrive
  <2> QED BY <2>1, <2>2, <2>3, <2>4, <2>5, <2>7 DEF PositionIsSound
<1>11. CASE Resync
  <2>1. PICK gone \in 0..MaxId : Newest(gone, In("deleted")) /\ base' = gone
    BY <1>11 DEF Resync
  <2>2. UNCHANGED <<events, got>> /\ stream'.cursor = 0 /\ tab'.last = 0
    BY <1>11 DEF Resync, RealtimeTypeOK
  <2>3. \A i \in Id : events[i].state = "deleted" => i <= gone
    BY <2>1 DEF Newest, In
  <2>4. \A i \in Id : ~(gone < i /\ i <= 0)
    BY <1>2, <2>1
  <2>5. EverCommitted' \subseteq Id
    BY DEF EverCommitted, In
  <2>6. LateCommitsArrive'
    BY <2>1, <2>2, <2>4, <2>5 DEF LateCommitsArrive
  <2>7. 0 <= gone
    BY <2>1
  <2> QED BY <2>1, <2>2, <2>3, <2>4, <2>6, <2>7 DEF PositionIsSound
<1>12. ASSUME NEW k \in Id, HandOver(k) PROVE PositionIsSound'
  <2>1. /\ drain.reading /\ drain.valid /\ ~CursorStale /\ k \in Page
        /\ got' = got \cup {i \in Page : i <= k}
        /\ tab' = [tab EXCEPT !.last = k]
        /\ UNCHANGED <<time, events, base>>
    BY <1>12 DEF HandOver
  <2>2. stream.at = "open"
    BY <1>1, <2>1 DEF SnapshotIsComplete
  <2>3. tab'.last = k /\ k # 0
    <3>1. tab \in [signedIn : BOOLEAN, last : 0..MaxId]
      BY DEF RealtimeTypeOK
    <3>2. tab'.last = k
      BY <2>1, <3>1
    <3> QED BY <3>2 DEF Id
  <2>4. stream'.at = "open" => stream'.cursor = k
    BY <1>12 DEF HandOver, Offline, RealtimeTypeOK
  <2>5. /\ k \in drain.seen /\ k \in Readable /\ stream.cursor < k
        /\ events[k].stamped + Window <= time
    BY <2>1 DEF Page, Readable
  <2>6. k \in EverCommitted /\ k < nextId
    BY <1>1, <2>5 DEF SnapshotIsComplete, EverCommitted, In, BornInOrder, RealtimeTypeOK, Id
  <2>7. \A i \in Id : i < k => Accounted(i)
    <3>1. time <= drain.since + MaxGap /\ drain.since \in Nat /\ time \in Nat
      BY <1>1, <2>1 DEF SnapshotIsComplete, RealtimeTypeOK
    <3>2. events[k].stamped \in Nat
      BY DEF RealtimeTypeOK, EventRow
    <3>3. events[k].stamped + Window <= drain.since + MaxGap
      BY <2>5, <3>1, <3>2
    <3> QED BY <1>1, <2>1, <2>5, <3>3 DEF SnapshotIsComplete
  <2>8. \A i \in Id : i < k => events[i].state \notin {"open", "unborn"}
    <3>1. \A i \in drain.seen : events[i].state \notin {"open", "unborn"}
      BY <1>1 DEF SnapshotIsComplete, EverCommitted, In
    <3> QED BY <2>7, <3>1 DEF Accounted
  <2>9. events[k].state \notin {"open", "unborn"}
    BY <2>6 DEF EverCommitted, In
  <2>10. \A i \in Id : base < i /\ i <= k => events[i].state \notin {"open", "unborn"}
    BY <1>2, <2>8, <2>9
  <2>11. ASSUME NEW i \in EverCommitted, events[i].mine, base < i, i <= k, InStep(i)
         PROVE  i \in got'
    <3>1. i \in Id /\ events[i].state \in {"committed", "deleted"}
      BY DEF EverCommitted, In
    <3>2. CASE i <= tab.last
      <4>1. i \in got
        BY <1>1, <2>11, <3>2 DEF PositionIsSound, LateCommitsArrive
      <4> QED BY <2>1, <4>1
    <3>3. CASE i = k
      BY <1>2, <2>1, <3>1, <3>3
    <3>4. CASE tab.last < i /\ i < k
      <4>1. stream.cursor < i
        BY <1>1, <1>2, <2>2, <2>11, <3>1, <3>4 DEF PositionIsSound
      <4>2. i \in drain.seen
        <5>1. SUFFICES ASSUME i \notin drain.seen PROVE FALSE
          OBVIOUS
        <5>0. /\ events[i].state = "deleted"
              /\ \A s \in drain.seen : i < s \/ events[i].stamped < events[s].stamped
          BY <2>7, <3>1, <3>4, <5>1 DEF Accounted
        <5>3. \A s \in drain.seen : s \in Nat /\ s \in EverCommitted /\ events[s].stamped \in Nat
          BY <1>1 DEF SnapshotIsComplete, RealtimeTypeOK, Id, EventRow
        <5>2. ASSUME NEW s \in drain.seen PROVE i < s
          <6>1. s < i => events[s].stamped <= events[i].stamped
            BY <2>11, <5>3 DEF InStep
          <6>2. i # s /\ events[i].stamped \in Nat
            BY <3>1, <5>1 DEF RealtimeTypeOK, EventRow
          <6> QED BY <1>2, <3>1, <5>0, <5>3, <6>1, <6>2
        <5>4. \A s \in drain.seen : stream.cursor + 1 < s
          BY <1>2, <3>1, <4>1, <5>2, <5>3
        <5>5. stream.cursor = 0
          BY <2>1, <2>5, <5>4 DEF CursorStale
        <5>6. i <= base
          BY <1>1, <2>2, <2>11, <3>1, <5>0, <5>5 DEF PositionIsSound
        <5> QED BY <1>2, <2>11, <3>1, <5>6
      <4>4. events[i].stamped <= events[k].stamped
        BY <2>6, <2>11, <3>4 DEF InStep
      <4>5. events[i].stamped + Window <= time
        BY <2>5, <3>1, <4>4 DEF RealtimeTypeOK, EventRow
      <4>6. i \in Readable
        BY <2>11, <4>1, <4>2, <4>5 DEF Readable
      <4>7. i \in Page
        BY <2>1, <3>4, <4>6, PageHasNoHoles
      <4> QED BY <2>1, <3>4, <4>7, <3>1, <1>2
    <3> QED BY <1>2, <2>11, <3>1, <3>2, <3>3, <3>4
  <2>12. LateCommitsArrive'
    <3>1. EverCommitted' = EverCommitted /\ \A i \in EverCommitted : InStep(i)' => InStep(i)
      BY <1>0, <2>1 DEF EverCommitted, In
    <3> QED BY <2>1, <2>3, <2>11, <3>1 DEF LateCommitsArrive
  <2> QED BY <2>1, <2>3, <2>4, <2>10, <2>12 DEF PositionIsSound
<1> QED BY <1>3, <1>4, <1>5, <1>6, <1>7, <1>8, <1>9, <1>10, <1>11, <1>12 DEF RealtimeNext

(* With a window longer than stamping, a transaction and a drain together, *)
(* the tab's position never passes an event of its viewer that has not     *)
(* reached it, unless that event's own stamp is out of step with its id.   *)
THEOREM LateCommitsArriveHolds ==
  ASSUME WindowIsEnough PROVE RealtimeSpec => []LateCommitsArrive
<1>1. RealtimeInit => RealtimeTypeOK /\ ChannelInv
  BY RealtimeAssumption DEF RealtimeInit, RealtimeTypeOK, ChannelInv, RowsInOrder, BornInOrder,
     SnapshotIsComplete, PositionIsSound, LateCommitsArrive, In, EverCommitted, Id, EventRow, Unborn,
     Offline, NoDrain
<1>2. RealtimeTypeOK /\ ChannelInv /\ [RealtimeNext]_realtimeVars => (RealtimeTypeOK /\ ChannelInv)'
  BY RealtimeTypeStep, RowsInOrderStep, SnapshotIsCompleteStep, PositionIsSoundStep DEF ChannelInv
<1>3. ChannelInv => LateCommitsArrive
  BY DEF ChannelInv, PositionIsSound
<1> QED BY <1>1, <1>2, <1>3, PTL DEF RealtimeSpec
=============================================================================
