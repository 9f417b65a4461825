------------------------- MODULE MCChangeCompactor -------------------------
(* The change reader and its compactor, with a contract data entry and a TTL entry. *)
EXTENDS ChangeReader

CONSTANTS data, ttl

MCKeys == {data, ttl}
MCTtlKeys == {ttl}
MCValues == {1, 2}

Ledger(fee, meta, post, upgrades, unknown, unsupported) ==
    [feeChanges |-> fee, metaChanges |-> meta, postTxApply |-> post, upgradeChanges |-> upgrades,
     unknown |-> unknown, unsupported |-> unsupported]

\* One with everything, one without transactions, one with a transaction that cannot be
\* found, and one with meta that cannot be read.
MCLedgers == {Ledger(<<1, 1>>, <<2, 0>>, <<0, 1>>, <<1>>, {}, {}),
              Ledger(<<>>, <<>>, <<>>, <<0, 2>>, {}, {}),
              Ledger(<<1, 1>>, <<1, 1>>, <<1, 1>>, <<>>, {1}, {}),
              Ledger(<<1, 1>>, <<1, 1>>, <<0, 0>>, <<1, 1>>, {}, {2})}
=============================================================================
