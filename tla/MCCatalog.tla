----------------------------- MODULE MCCatalog -----------------------------
(* Instances of Catalog: feeds that differ in what the tables can tell     *)
(* apart.  With three products and batches of two, a feed spans one or two *)
(* batches, lacks products, repeats one in a batch or in a later one, and  *)
(* gives shippings to all, some or none of the products of a batch.  Two    *)
(* overlapping imports can lock 1, 2 and 3 in different orders.             *)
EXTENDS Catalog

I(p) == [product |-> p, ships |-> FALSE]
S(p) == [product |-> p, ships |-> TRUE]

AllFeeds ==
    { <<>>,
      <<I(1)>>,
      <<S(1)>>,
      <<S(2), I(1)>>,
      <<S(1), S(2), S(3)>>,
      <<S(3), S(3)>>,
      <<I(3), I(1), S(3)>> }

SmallFeeds == { <<>>, <<I(1)>>, <<S(1)>>, <<I(1), I(2)>> }
=============================================================================
