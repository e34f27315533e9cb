------------------------------- MODULE Ledger -------------------------------
(***************************************************************************)
(* What the wallet promises, without requests, locks or statements: every  *)
(* account starts with the sign-up bonus; money moves from one account to  *)
(* another in one indivisible step that also leaves its row in the         *)
(* transfer history; an administrator may set a balance.                   *)
(*                                                                         *)
(* Wallet (the handlers, statement by statement) is shown to implement it. *)
(***************************************************************************)
EXTENDS Integers

CONSTANTS
    Users,          \* rows the users table may come to hold
    TransferIds,    \* primary keys of the transfers table
    Amounts,        \* amounts a transfer may have
    SignupBonus     \* config.SIGNUP_BONUS

VARIABLES
    accounts,       \* registered users
    balance,        \* users.balance (0 for a row that does not exist)
    transfers       \* transfers rows: id, sender, receiver, amount

vars == <<accounts, balance, transfers>>

Init ==
    /\ accounts = {}
    /\ balance = [u \in Users |-> 0]
    /\ transfers = {}

\* A new account and its bonus.
Open(u) ==
    /\ u \notin accounts
    /\ accounts' = accounts \cup {u}
    /\ balance' = [balance EXCEPT ![u] = SignupBonus]
    /\ UNCHANGED transfers

\* The amount leaves one account, enters another and is recorded, at once.
Move(i, s, r, a) ==
    /\ s # r
    /\ balance[s] >= a
    /\ \A t \in transfers : t.id # i
    /\ balance' = [balance EXCEPT ![s] = @ - a, ![r] = @ + a]
    /\ transfers' = transfers
           \cup {[id |-> i, sender |-> s, receiver |-> r, amount |-> a]}
    /\ UNCHANGED accounts

\* An administrator sets one balance; the history is not touched.
Set(u) ==
    /\ balance'[u] \in Nat
    /\ balance' = [balance EXCEPT ![u] = balance'[u]]
    /\ UNCHANGED <<accounts, transfers>>

Next ==
    \/ \E u \in Users : Open(u)
    \/ \E i \in TransferIds, s, r \in accounts, a \in Amounts : Move(i, s, r, a)
    \/ \E u \in accounts : Set(u)

Spec == Init /\ [][Next]_vars
=============================================================================
