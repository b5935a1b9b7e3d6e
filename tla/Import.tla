------------------------------- MODULE Import -------------------------------
(***************************************************************************)
(* What one import promises, whatever goroutines, channels, batches and    *)
(* transactions it is made of: the catalogue takes the feed's good         *)
(* products in document order and never one after an import that has       *)
(* ended, and a success has taken them all.  Pipeline implements it.       *)
(***************************************************************************)
EXTENDS Integers, Sequences

CONSTANT Feeds   \* the feeds that may be imported

VARIABLES
    feed,        \* the feed of this import
    catalogue,   \* positions of the products that were stored
    result       \* "none", then what parseProducts returns

vars == <<feed, catalogue, result>>

Good == {i \in DOMAIN feed.items : feed.items[i] = "ok"}

Init ==
    /\ feed \in Feeds
    /\ catalogue = {}
    /\ result = "none"

\* The good products up to some position are there.
Store ==
    /\ result = "none"
    /\ \E k \in 0 .. Len(feed.items) : catalogue' = catalogue \cup {i \in Good : i <= k}
    /\ UNCHANGED <<feed, result>>

Succeed ==
    /\ result = "none"
    /\ feed.end = "eof"
    /\ catalogue = Good
    /\ result' = "nil"
    /\ UNCHANGED <<feed, catalogue>>

\* A failure keeps what was stored.
Fail ==
    /\ result = "none"
    /\ result' \in {"decode", "store", "ctx"}
    /\ UNCHANGED <<feed, catalogue>>

Next == Store \/ Succeed \/ Fail

Spec == Init /\ [][Next]_vars
=============================================================================
