----------------------------- MODULE MCExchange ------------------------------
(***************************************************************************)
(* One model-checking instance for the components that exchange data with  *)
(* somebody else, the geocoder, MoySklad and the bank, and those that keep *)
(* the couriers' money. They share no state, so a behaviour explores one   *)
(* of them, chosen at the start, while the others rest in their initial    *)
(* states: the state spaces add up instead of multiplying.                 *)
(***************************************************************************)
EXTENDS Geocoding, SourceSync, StateExport, CourierLedger, PayoutImport, TLC

VARIABLE part

exchangeVars == <<geoVars, syncVars, exportVars, ledgerVars, payoutVars, part>>

Part == {"geocoding", "sync", "export", "ledger", "payouts"}

(* A resting component whose first state is not unique rests in one. *)
GeoRests == \A o \in Order : source[o] = Unknown /\ scope[o] = "ours" /\ gen[o] = 0
PayoutsRest == \A n \in Phone : payeeOf[n] = NoPayee

ExchangeInit ==
  /\ part \in Part
  /\ SyncInit /\ ExportInit /\ LedgerInit
  /\ GeoInit /\ (part # "geocoding" => GeoRests)
  /\ PayoutInit /\ (part # "payouts" => PayoutsRest)

ExchangeNext ==
  \/ /\ part = "geocoding" /\ GeoNext
     /\ UNCHANGED <<syncVars, exportVars, ledgerVars, payoutVars, part>>
  \/ /\ part = "sync" /\ SyncNext
     /\ UNCHANGED <<geoVars, exportVars, ledgerVars, payoutVars, part>>
  \/ /\ part = "export" /\ ExportNext
     /\ UNCHANGED <<geoVars, syncVars, ledgerVars, payoutVars, part>>
  \/ /\ part = "ledger" /\ LedgerNext
     /\ UNCHANGED <<geoVars, syncVars, exportVars, payoutVars, part>>
  \/ /\ part = "payouts" /\ PayoutNext
     /\ UNCHANGED <<geoVars, syncVars, exportVars, ledgerVars, part>>

ExchangeSpec == ExchangeInit /\ [][ExchangeNext]_exchangeVars

(* The chosen component's variables have their types. *)
ExchangeTypeOK ==
  CASE part = "geocoding" -> GeoTypeOK
    [] part = "sync"      -> SyncTypeOK
    [] part = "export"    -> ExportTypeOK
    [] part = "ledger"    -> LedgerTypeOK
    [] part = "payouts"   -> PayoutTypeOK

(* Workers are interchangeable, and so are confirmations, addresses,       *)
(* sheets and files; the instance gives each group one set of names.       *)
ExchangeSymmetry == Permutations(Geocoder) \cup Permutations(Address)

(* An entry that counts on no day any more is known by its key; day and    *)
(* distance of a delivery matter while its result is active.               *)
EntryView(e) ==
  IF e.back # 0 /\ (e.moved \/ e.back = e.day)
    THEN <<e.attempt, e.kind, e.no, e.cause = "MANUAL">>
    ELSE <<e.attempt, e.kind, e.no, e.cause = "MANUAL", e.amount, e.day, e.back>>

LedgerView ==
  <<orderState, result, km, stripped, {EntryView(e) : e \in ledger}, distance, undo,
    [a \in Attempt |-> IF result[a] = "active" THEN <<routeDay[a], a \in settled>> ELSE <<>>]>>

(* A confirmation whose key is used shows nothing that matters any more,   *)
(* and of a reversed payout only the row is asked for.                     *)
PayoutView ==
  <<payeeOf, payouts \ reversed, {e.row : e \in reversed}, inQueue,
    [x \in Form |-> IF KeyUsed(x) THEN <<screen[x].step>> ELSE <<screen[x]>>],
    {x \in Form : KeyUsed(x)}>>

(* What is explored: the variables of the chosen component, the others     *)
(* being constant.                                                         *)
ExchangeView ==
  CASE part = "geocoding" -> <<part, geoVars>>
    [] part = "sync"      -> <<part, syncVars>>
    [] part = "export"    -> <<part, exportVars>>
    [] part = "ledger"    -> <<part, LedgerView>>
    [] part = "payouts"   -> <<part, PayoutView>>
=============================================================================
