----------------------------- MODULE FundsContract -----------------------------
(***************************************************************************)
(* What FundsProvider (src/execution/provider.py) asks of a gateway, and   *)
(* the execution engine relies on: per tenant and idempotency key there is *)
(* one transaction, made once and never changed; whoever is told about it  *)
(* is told what it is; and a reversal, once made, stays.                   *)
(***************************************************************************)
CONSTANTS Accounts, NoTxn, Txns, TxnStatus

VARIABLES
  book,     \* the transaction of each account, a tenant with a key
  undone,   \* accounts with a reversal
  told      \* what callers have been told

contractVars == <<book, undone, told>>

Entry == [id: Txns, status: TxnStatus]

ContractInit ==
  /\ book = [a \in Accounts |-> NoTxn]
  /\ undone = {}
  /\ told = {}

Pay(a) ==
  /\ book[a] = NoTxn
  /\ \E e \in Entry : book' = [book EXCEPT ![a] = e]
  /\ UNCHANGED <<undone, told>>

Undo(a) ==
  /\ undone' = undone \cup {a}
  /\ UNCHANGED <<book, told>>

Tell(a) ==
  /\ book[a] # NoTxn
  /\ told' = told \cup {[account |-> a, txn |-> book[a]]}
  /\ UNCHANGED <<book, undone>>

ContractNext == \E a \in Accounts : Pay(a) \/ Undo(a) \/ Tell(a)

ContractSpec == ContractInit /\ [][ContractNext]_contractVars
=============================================================================
