----------------------------- MODULE ContactLedger ----------------------------
(***************************************************************************)
(* What the coordination engine promises a merchant, without sessions,     *)
(* stale rows or commits: contacts are made one at a time, and a contact   *)
(* is made only if the default rules of backend/app/main.py allow it on    *)
(* the contacts made so far.                                               *)
(***************************************************************************)
EXTENDS Integers, FiniteSets

CONSTANTS
  Client,       \* customers
  Gap,          \* minutes between two contacts of a customer
  Cap, Window,  \* at most Cap contacts in Window minutes
  Budget        \* discounts granted to a customer, all told

VARIABLES
  time,
  made          \* contacts of each customer: a set of [id, at, discount]

ledger == <<time, made>>

\* The discounts of c's contacts added up, rupee by rupee: the n-th rupee of a
\* contact k is <<k, n>>.
Rupees(c) == UNION {{k} \X (1..k.discount) : k \in made[c]}

Granted(c) == Cardinality(Rupees(c))

LedgerInit ==
  /\ time \in Nat
  /\ made = [c \in Client |-> {}]

Pass == time' > time /\ UNCHANGED made

\* A contact dated t, not in the future.
Contact(c, k) ==
  /\ k \notin made[c]
  /\ k.at <= time
  /\ \A other \in made[c] : k.at - other.at >= Gap
  /\ Cardinality({other \in made[c] : k.at - other.at <= Window}) < Cap
  /\ Granted(c) + k.discount <= Budget
  /\ made' = [made EXCEPT ![c] = @ \cup {k}]
  /\ UNCHANGED time

LedgerNext ==
  \/ Pass
  \/ \E c \in Client : \E k \in made'[c] : Contact(c, k)

LedgerSpec == LedgerInit /\ [][LedgerNext]_ledger
===============================================================================
