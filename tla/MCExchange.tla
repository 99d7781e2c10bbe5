----------------------------- MODULE MCExchange -----------------------------
(* Instances of Exchange for TLC. *)
EXTENDS Exchange, TLC

CONSTANTS k1, k2, c1, c2, c3

Ask(op, port, tx, reading, st) ==
    [op |-> op, port |-> port, tx |-> tx, reading |-> reading, status |-> st]

\* A meter that stands at 1: a session that is stopped there has gained nothing.
Transactions ==
    {Ask("start", k, 0, 1, "Available") : k \in Connectors}
    \union {Ask("meter", "station", tx, 1, "Available") : tx \in 1..MaxTx}
    \union {Ask("stop", "station", tx, 1, "Available") : tx \in 0..MaxTx}

Notifications ==
    {Ask("status", k, 0, 0, s) : k \in Connectors, s \in {"Available", "Finishing"}}
    \union {Ask("status", "unknown", 0, 0, "Available")}

KnownRequest == Transactions \union Notifications

AnyRequest == KnownRequest \union {Ask("other", "station", 0, 0, "Available")}

Alike == Permutations(Calls) \union Permutations(Connectors)
=============================================================================
