----------------------------- MODULE AtomicWallet -----------------------------
(***************************************************************************)
(* What "atomically decrement wallet balance" (database/wallet.py:32)      *)
(* promises: wallets are only debited, one at a time, by amounts they      *)
(* cover, and every amount spent is missing from the balance.              *)
(***************************************************************************)
EXTENDS Integers

CONSTANTS Owners, Start

VARIABLES
    funds,  \* the balance of each wallet
    spent   \* what was debited from it so far

walletVars == <<funds, spent>>

WalletInit == funds = Start /\ spent = [o \in Owners |-> 0]

Withdraw(o) ==
    /\ funds'[o] \in 0..(funds[o] - 1)
    /\ funds' = [funds EXCEPT ![o] = funds'[o]]
    /\ spent' = [spent EXCEPT ![o] = @ + (funds[o] - funds'[o])]

AtomicWalletSpec == WalletInit /\ [][\E o \in Owners : Withdraw(o)]_walletVars
=============================================================================
