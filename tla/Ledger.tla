------------------------------- MODULE Ledger -------------------------------
(***************************************************************************)
(* The double-entry ledger of app/ledger: the balance of each account      *)
(* (credits minus debits) and the set of journal identities               *)
(* (operation, reference) that have been posted.  A journal is only ever  *)
(* added, so the balances are the sums account_balance_minor computes.    *)
(***************************************************************************)
EXTENDS Integers

CONSTANTS
  Milestones,   \* milestones of one contract version, each with its escrow account
  Providers     \* payment providers, each with its clearing account

VARIABLES
  escrow,       \* escrow[m]: balance of milestone:{m}:escrow
  clearing,     \* clearing[p]: balance of provider:{p}:clearing
  wallet,       \* balance of the freelancer's wallet account
  commission,   \* balance of platform:commission
  posted        \* identities <<operation, reference>> of the posted journals

ledgerVars == <<escrow, clearing, wallet, commission, posted>>

LedgerInit ==
  /\ escrow = [m \in Milestones |-> 0]
  /\ clearing = [p \in Providers |-> 0]
  /\ wallet = 0
  /\ commission = 0
  /\ posted = {}

\* post_journal: refuses an unbalanced journal, returns the existing journal
\* when its identity was posted before, and otherwise adds the entries.  The
\* last four arguments are the credits (debits when negative) of the accounts.
PostJournal(op, ref, m, p, toEscrow, toClearing, toWallet, toCommission) ==
  /\ toEscrow + toClearing + toWallet + toCommission = 0
  /\ \/ /\ <<op, ref>> \in posted
        /\ UNCHANGED ledgerVars
     \/ /\ <<op, ref>> \notin posted
        /\ posted' = posted \cup {<<op, ref>>}
        /\ escrow' = [escrow EXCEPT ![m] = @ + toEscrow]
        /\ clearing' = [clearing EXCEPT ![p] = @ + toClearing]
        /\ wallet' = wallet + toWallet
        /\ commission' = commission + toCommission
=============================================================================
