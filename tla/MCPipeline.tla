----------------------------- MODULE MCPipeline -----------------------------
(* Instances of Pipeline: every feed of up to MaxItems items.              *)
EXTENDS Pipeline

CONSTANT MaxItems

\* Good and undecodable items in any order: what the Decoder interface allows
\* and parser_test.go:36-46 feeds to the parser.
AnyFeeds ==
    UNION {[items : [1 .. n -> Kinds], end : Ends] : n \in 0 .. MaxItems}

\* parser_test.go:348-396: two good products, batch size 2, then an error.
BrokenFeed == {[items |-> <<"ok", "ok">>, end |-> "broken"]}
=============================================================================
