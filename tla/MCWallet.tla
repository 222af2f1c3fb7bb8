------------------------------- MODULE MCWallet -------------------------------
(* Small instances of Wallet for TLC.                                      *)
EXTENDS Wallet, TLC

CONSTANTS o1, o2, w1, w2

OneOrder  == {o1}
TwoOrders == {o1, o2}
OneTransaction  == {w1}
TwoTransactions == {w1, w2}

OnlyTheFirst == [o \in Orders |-> IF o = o1 THEN 1 ELSE 0]

ShortOrForever == {1, Forever}
Short == {1}
Ones == {1}
Twos == {2}

Symmetry == Permutations(Workers)

\* Credit that is due comes: what a cancel returns can be spent, the cached
\* balance comes true, and a delivered order's cashback is paid (wallet.ts,
\* wallet-jobs.ts).
CreditComes == CancelReturnsSpendableCredit /\ BalanceSettles /\ CashbackArrives

=============================================================================
