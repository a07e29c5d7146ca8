----------------------------- MODULE IntentLog -----------------------------
(***************************************************************************)
(* What the table promises of the money behind it.  A row is a log of      *)
(* intentions: the service announces what it is about to have done to the  *)
(* money, has it done, and confirms.  Money moves for no reason but an     *)
(* announced one, and nothing is confirmed that was not done; so whoever   *)
(* reads the row knows the money up to one step.                           *)
(***************************************************************************)
CONSTANT Ids

VARIABLES
  log,        \* id |-> the last entry of the row
  money       \* id |-> what has become of the money

logvars == <<log, money>>

Entries == {"none", "holding", "held", "cancelling", "cancelled",
            "settling", "settled", "undoing", "undone", "abandoned"}

Fates == {"untouched", "reserved", "freed", "moved", "returned"}

\* The intentions that may be announced after an entry.
Intentions(entry) ==
  CASE entry = "none"      -> {"holding"}
    [] entry = "holding"   -> {"abandoned"}
    [] entry = "held"      -> {"cancelling", "settling"}
    [] entry = "settled"   -> {"undoing"}
    [] entry = "cancelled" -> {"undoing"}
    [] OTHER               -> {}

\* What an intention makes of the money.  An abandoned hold may still be carried out; nothing
\* more becomes of that money.
Brings(entry, fate) ==
  CASE entry \in {"holding", "abandoned"} /\ fate = "untouched" -> {"reserved"}
    [] entry = "cancelling" /\ fate = "reserved"                -> {"freed"}
    [] entry = "settling" /\ fate = "reserved"                  -> {"moved"}
    [] entry = "undoing" /\ fate \in {"moved", "freed"}         -> {"returned"}
    [] OTHER                                                    -> {}

\* The entries that confirm it.  What was freed may be confirmed as the end of the row at once.
Confirmations(entry, fate) ==
  CASE entry = "holding" /\ fate = "reserved"  -> {"held"}
    [] entry = "cancelling" /\ fate = "freed"  -> {"cancelled", "undone"}
    [] entry = "settling" /\ fate = "moved"    -> {"settled"}
    [] entry = "undoing" /\ fate = "returned"  -> {"undone"}
    [] OTHER                                   -> {}

-----------------------------------------------------------------------------
Init ==
  /\ log = [i \in Ids |-> "none"]
  /\ money = [i \in Ids |-> "untouched"]

Announce(i) ==
  /\ \E entry \in Intentions(log[i]) : log' = [log EXCEPT ![i] = entry]
  /\ UNCHANGED money

Move(i) ==
  /\ \E fate \in Brings(log[i], money[i]) : money' = [money EXCEPT ![i] = fate]
  /\ UNCHANGED log

Confirm(i) ==
  /\ \E entry \in Confirmations(log[i], money[i]) : log' = [log EXCEPT ![i] = entry]
  /\ UNCHANGED money

Next == \E i \in Ids : Announce(i) \/ Move(i) \/ Confirm(i)

Spec == Init /\ [][Next]_logvars

-----------------------------------------------------------------------------
LogTypeOK == log \in [Ids -> Entries] /\ money \in [Ids -> Fates]

\* What may have become of the money under each entry.
FatesUnder ==
  [entry \in Entries |->
     CASE entry = "none"       -> {"untouched"}
       [] entry = "holding"    -> {"untouched", "reserved"}
       [] entry = "held"       -> {"reserved"}
       [] entry = "cancelling" -> {"reserved", "freed"}
       [] entry = "cancelled"  -> {"freed"}
       [] entry = "settling"   -> {"reserved", "moved"}
       [] entry = "settled"    -> {"moved"}
       [] entry = "undoing"    -> {"moved", "freed", "returned"}
       [] entry = "undone"     -> {"freed", "returned"}
       [] entry = "abandoned"  -> {"untouched", "reserved"}]

\* The log accounts for the money, up to the one step that was announced: what a reader of the
\* table may conclude from a row.
Accounted == \A i \in Ids : money[i] \in FatesUnder[log[i]]
=============================================================================
