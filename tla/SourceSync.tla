----------------------------- MODULE SourceSync -----------------------------
(***************************************************************************)
(* Reading orders out of MoySklad (integrations/moysklad/sync.ts,          *)
(* import-service.ts, fulfillment/service.ts).  A pass reads a list of     *)
(* documents page by page, in the order of their last change, while people *)
(* go on changing and deleting them there: a full load first, a full       *)
(* reconciliation at times, and otherwise the documents changed since the  *)
(* cursor.  An order's composition may fail to be read; a queue inside the *)
(* database then asks for it again.                                        *)
(*                                                                         *)
(* One pass runs at a time (sync-lock.ts).  A page holds one document.     *)
(* MoySklad stamps changes by the same clock; the upper end of a window is *)
(* cut to the unit of the clock, so it leaves out that unit's changes.     *)
(***************************************************************************)
EXTENDS Integers, FiniteSets

CONSTANTS
  Document,     \* documents of the approved store, as numbers
  Overlap,      \* overlapSeconds
  LastMoment,   \* bound: the clock
  MaxEdition    \* bound: how often a document is changed

ASSUME SyncAssumption ==
  Document \subseteq Nat /\ IsFiniteSet(Document) /\ Overlap \in Nat /\ LastMoment \in Nat /\ MaxEdition \in Nat \ {0}

VARIABLES
  edition,    \* in MoySklad: the document's present version, 0 before it exists
  updated,    \* in MoySklad: when it was changed last
  deleted,    \* in MoySklad
  moment,     \* the clock
  imported,   \* the version DeliveryOrder was written from, 0 for no order
  sourceMissing,
  confirmed,  \* the versions the confirmed snapshot's texts and positions are of
  awaited,    \* fulfillmentPendingExternalUpdated, 0 for none
  cursor,     \* IntegrationCursor
  reading     \* the pass

outside == <<edition, updated, deleted, moment>>
inside == <<imported, sourceMissing, confirmed, awaited>>
syncVars == <<outside, inside, cursor, reading>>

Edition == 0..MaxEdition
Nowhere == -1   \* no date, no checkpoint, no size

(* step: reading a page, applying its document, recording the checkpoint,  *)
(* filling in compositions.                                                *)
NoReading == [kind |-> "none", since |-> Nowhere, offset |-> 0, size |-> Nowhere,
              read |-> {}, row |-> [doc |-> Nowhere, edition |-> 0], step |-> "page"]

SyncTypeOK ==
  /\ edition \in [Document -> Edition] /\ imported \in [Document -> Edition]
  /\ awaited \in [Document -> Edition]
  /\ updated \in [Document -> 0..LastMoment] /\ moment \in 0..LastMoment
  /\ deleted \subseteq Document /\ sourceMissing \subseteq Document
  /\ confirmed \in [Document -> [texts : Edition, positions : Edition]]
  /\ cursor.updated \in Nowhere..LastMoment /\ cursor.offset \in Nowhere..Cardinality(Document)
  /\ cursor.loaded \in BOOLEAN /\ cursor.reconciled \in BOOLEAN
  /\ reading.kind \in {"none", "initial", "delta", "reconciliation"}
  /\ reading.step \in {"page", "row", "save", "compositions"}
  /\ reading.since \in Nowhere..LastMoment
  /\ reading.offset \in 0..Cardinality(Document)
  /\ reading.read \subseteq Document

SyncInit ==
  /\ edition = [d \in Document |-> 1] /\ updated = [d \in Document |-> 0]
  /\ deleted = {} /\ moment = 0
  /\ imported = [d \in Document |-> 0]
  /\ sourceMissing = {}
  /\ confirmed = [d \in Document |-> [texts |-> 0, positions |-> 0]]
  /\ awaited = [d \in Document |-> 0]
  /\ cursor = [updated |-> Nowhere, loaded |-> FALSE, reconciled |-> FALSE, offset |-> Nowhere]
  /\ reading = NoReading

-----------------------------------------------------------------------------
(* MoySklad *)

ChangeDocument(d) ==
  /\ d \notin deleted /\ edition[d] < MaxEdition
  /\ edition' = [edition EXCEPT ![d] = @ + 1]
  /\ updated' = [updated EXCEPT ![d] = moment]
  /\ UNCHANGED <<deleted, moment, inside, cursor, reading>>

DeleteDocument(d) ==
  /\ d \notin deleted
  /\ deleted' = deleted \cup {d}
  /\ UNCHANGED <<edition, updated, moment, inside, cursor, reading>>

TimePasses ==
  /\ moment < LastMoment
  /\ moment' = moment + 1
  /\ UNCHANGED <<edition, updated, deleted, inside, cursor, reading>>

(* deltaFilter: from the cursor less the overlap to the start of the pass. *)
InWindow(d) ==
  /\ updated[d] >= cursor.updated - Overlap
  /\ updated[d] < reading.since

(* What the pass's list holds at present: approvedStoreFilter, deltaFilter. *)
Listed ==
  {d \in Document \ deleted : reading.kind = "delta" => InWindow(d)}

(* The list in the order updated,asc, numbered from 0. *)
Place(d) ==
  Cardinality({e \in Listed : updated[e] < updated[d] \/ (updated[e] = updated[d] /\ e < d)})

-----------------------------------------------------------------------------
(* A pass *)

(* claimPass, openCheckpoint and the choice of runClaimedPass: a full load *)
(* until one is completed, then a reconciliation, which is due once a day. *)
BeginReading(kind) ==
  /\ reading = NoReading
  /\ kind = "initial" <=> ~cursor.loaded
  /\ kind = "delta" => cursor.reconciled
  /\ LET from == IF kind = "initial" /\ cursor.offset # Nowhere THEN cursor.offset ELSE 0 IN
       /\ reading' = [NoReading EXCEPT !.kind = kind, !.since = moment, !.offset = from]
       /\ cursor' = IF kind = "initial" THEN [cursor EXCEPT !.offset = from] ELSE cursor
  /\ UNCHANGED <<outside, inside>>

Ended == reading' = NoReading

(* readAllPages, one request.  The size of the list is that of the first   *)
(* page; an empty page before it is reached fails the pass.                *)
ReadPage ==
  /\ reading.kind # "none" /\ reading.step = "page"
  /\ IF reading.offset >= Cardinality(Listed)
       THEN IF reading.size # Nowhere /\ reading.offset < reading.size
              THEN Ended
              ELSE reading' = [reading EXCEPT !.step = "compositions"]
       ELSE \E d \in Listed :
              /\ Place(d) = reading.offset
              /\ reading' = [reading EXCEPT
                   !.size = IF @ = Nowhere THEN Cardinality(Listed) ELSE @,
                   !.row = [doc |-> d, edition |-> edition[d]], !.step = "row"]
  /\ UNCHANGED <<outside, inside, cursor>>

UnconfirmedKeepingReady(d, v) ==   \* mutant: a confirmed composition stays READY
  /\ awaited' = IF confirmed[d].texts = 0 THEN [awaited EXCEPT ![d] = v] ELSE awaited
  /\ UNCHANGED confirmed

(* unconfirmed: the version is set aside, what was confirmed stays.        *)
Unconfirmed(d, v) ==
  /\ awaited' = [awaited EXCEPT ![d] = v]
  /\ UNCHANGED confirmed

(* confirmed, restore *)
Confirmed(d, texts, positions) ==
  /\ confirmed' = [confirmed EXCEPT ![d] = [texts |-> texts, positions |-> positions]]
  /\ awaited' = [awaited EXCEPT ![d] = 0]

(* applyRows: the order and its composition in one transaction.  A delta   *)
(* pass takes a document once.                                             *)
ApplyRow ==
  LET d == reading.row.doc  v == reading.row.edition IN
  /\ reading.step = "row"
  /\ IF reading.kind = "delta" /\ d \in reading.read
       THEN UNCHANGED inside
       ELSE /\ imported' = [imported EXCEPT ![d] = v]
            /\ sourceMissing' = sourceMissing \ {d}
            /\ Confirmed(d, v, v) \/ Unconfirmed(d, v)
  /\ reading' = [reading EXCEPT
       !.read = IF reading.kind = "initial" THEN @ ELSE @ \cup {d}, !.offset = @ + 1, !.row = NoReading.row,
       !.step = CASE reading.kind = "initial"           -> "save"
                  [] reading.kind # "initial" /\ reading.offset + 1 < reading.size -> "page"
                  [] OTHER                              -> "compositions"]
  /\ UNCHANGED <<outside, cursor>>

(* The checkpoint of a full load, behind the page just applied. *)
SaveCheckpoint ==
  /\ reading.step = "save"
  /\ cursor' = [cursor EXCEPT !.offset = reading.offset]
  /\ reading' = [reading EXCEPT
       !.step = IF reading.offset < reading.size THEN "page" ELSE "compositions"]
  /\ UNCHANGED <<outside, inside>>

(* runCompositionBackfill, one order: the positions are read as they are   *)
(* now, the texts are those set aside.                                     *)
FillComposition(d) ==
  /\ reading.step = "compositions"
  /\ awaited[d] # 0 /\ d \notin sourceMissing /\ d \notin deleted
  /\ Confirmed(d, awaited[d], edition[d])
  /\ UNCHANGED <<outside, imported, sourceMissing, cursor, reading>>

(* The end of runInitialLoad.  A resumed load has the time of its resumption. *)
EndInitialLoad ==
  /\ reading.kind = "initial" /\ reading.step = "compositions"
  /\ cursor' = [cursor EXCEPT !.loaded = TRUE, !.updated = reading.since, !.offset = Nowhere]
  /\ Ended
  /\ UNCHANGED <<outside, inside>>

EndDeltaAtEnd ==   \* mutant: the cursor moves to the end of the pass
  /\ reading.kind = "delta" /\ reading.step = "compositions"
  /\ cursor' = [cursor EXCEPT !.updated = moment]
  /\ Ended
  /\ UNCHANGED <<outside, inside>>

(* The end of runDeltaPass: the cursor moves to the pass's start.          *)
EndDelta ==
  /\ reading.kind = "delta" /\ reading.step = "compositions"
  /\ cursor' = [cursor EXCEPT !.updated = reading.since]
  /\ Ended
  /\ UNCHANGED <<outside, inside>>

(* Orders the reconciliation did not come across. *)
Unseen == {d \in Document : imported[d] # 0} \ (reading.read \cup sourceMissing)

MarkSourceMissing(d) ==
  /\ reading.kind = "reconciliation" /\ reading.step = "compositions"
  /\ d \in Unseen
  /\ sourceMissing' = sourceMissing \cup {d}
  /\ UNCHANGED <<outside, imported, confirmed, awaited, cursor, reading>>

EndReconciliation ==
  /\ reading.kind = "reconciliation" /\ reading.step = "compositions"
  /\ Unseen = {}
  /\ cursor' = [cursor EXCEPT !.reconciled = TRUE]
  /\ Ended
  /\ UNCHANGED <<outside, inside>>

(* A failed request, or the process is killed. *)
ReadingBreaksOff ==
  /\ reading # NoReading
  /\ Ended
  /\ UNCHANGED <<outside, inside, cursor>>

-----------------------------------------------------------------------------
SyncNext ==
  \/ \E d \in Document :
       \/ ChangeDocument(d) \/ DeleteDocument(d)
       \/ FillComposition(d) \/ MarkSourceMissing(d)
  \/ TimePasses
  \/ \E kind \in {"initial", "delta", "reconciliation"} : BeginReading(kind)
  \/ ReadPage \/ ApplyRow \/ SaveCheckpoint
  \/ EndInitialLoad \/ EndDelta \/ EndReconciliation \/ ReadingBreaksOff

SyncSpec == SyncInit /\ [][SyncNext]_syncVars

-----------------------------------------------------------------------------
(* Properties *)

Behind(d) ==
  /\ imported[d] # 0 /\ d \notin sourceMissing \cup deleted
  /\ imported[d] # edition[d]

(* No change is lost: after the first reconciliation every order that lags *)
(* behind its document will be asked for by the next delta pass, although  *)
(* pages shift under the reader and passes break off anywhere.             *)
NextDeltaAsks ==
  cursor.reconciled => \A d \in Document : Behind(d) => updated[d] >= cursor.updated - Overlap

(* An order whose confirmed texts are not those of its own version is      *)
(* waiting in the queue for exactly that version; a snapshot mixed of two  *)
(* versions is waiting as well, or its document has moved on.              *)
CompositionIsAwaited ==
  \A d \in Document :
    /\ confirmed[d].texts # imported[d] => awaited[d] = imported[d]
    /\ confirmed[d].texts # confirmed[d].positions =>
         awaited[d] = imported[d] \/ imported[d] # edition[d]

(* Reconciliation declares missing only what was deleted. *)
MissingWasDeleted == sourceMissing \subseteq deleted

(* After the full load nothing is unknown that the cursor has passed. *)
NothingUnread ==
  cursor.loaded => \A d \in Document \ deleted :
    imported[d] = 0 => updated[d] >= cursor.updated - Overlap

(* As NextDeltaAsks, without waiting for a reconciliation. *)
LoadLosesNothing ==
  cursor.loaded => \A d \in Document : Behind(d) => updated[d] >= cursor.updated - Overlap
=============================================================================
