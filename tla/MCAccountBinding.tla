--------------------------- MODULE MCAccountBinding ------------------------
\* Instances of AccountBinding.
EXTENDS AccountBinding, TLC

BindingSymmetry ==
    Permutations(UserIds) \cup Permutations(Wallets) \cup Permutations(Nonces)
        \cup Permutations(Requests) \cup Permutations(Telegrams)

===========================================================================
