---------------------------- MODULE PaymentEnums ----------------------------
(***************************************************************************)
(* The vocabulary shared by the payment engine and the payment service it  *)
(* calls: payment methods, subtransaction states, identifiers of           *)
(* subtransactions and the amounts they carry.                             *)
(*                                                                         *)
(* One order is modelled.  A subtransaction's idempotency key names its    *)
(* order and its method (AppUtil.generateIdempKey), no statement of the    *)
(* service reads or writes rows of two orders, and so orders do not        *)
(* interact.                                                               *)
(***************************************************************************)
EXTENDS Integers, Sequences, FiniteSets

CONSTANTS
  Ids,        \* primary keys (UUIDs) a row of the table may get
  NoId        \* the id of a row that was not found

ASSUME NoIdIsFresh == NoId \notin Ids
ASSUME IdsAreFinite == IsFiniteSet(Ids)

\* PaymentMethodEnum.
Methods == {"CASH", "WALLET", "SADAD"}

\* CurrencyCodeEnum, AED left out: the service compares currencies with SAR only.
Currencies == {"PKR", "SAR"}

\* OrderPaymentMethodEnum.
OrderMethods == {"COD", "SADAD", "COD_WALLET", "SADAD_WALLET"}

\* AppUtil.isInstantPayment: the payment service holds the money in the call itself.
IsInstantPayment(pm) == pm \in {"CASH", "WALLET"}

\* AppUtil.is3PMethod: a third party collects the money after the call.
Is3PMethod(pm) == ~IsInstantPayment(pm)

\* SubtransactionStateEnum.
States == {"HOLD_PROCESSING", "AWAITING_PAYMENT", "HOLD",
           "CANCEL_PROCESSING", "CANCELLED",
           "COMPLETE_PROCESSING", "COMPLETED",
           "ROLLBACK_PROCESSING", "ROLLBACKED"}

\* The methods createTransaction works through: orderPaymentMethod.split('_').reverse()
\* with COD read as CASH.
PaymentMethodsOf(opm) ==
  CASE opm = "COD"          -> <<"CASH">>
    [] opm = "SADAD"        -> <<"SADAD">>
    [] opm = "COD_WALLET"   -> <<"WALLET", "CASH">>
    [] opm = "SADAD_WALLET" -> <<"WALLET", "SADAD">>
=============================================================================
