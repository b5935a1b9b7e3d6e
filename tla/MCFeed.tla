------------------------------- MODULE MCFeed -------------------------------
(* Instances of Feed: every document of up to MaxTokens tokens, sent as    *)
(* plain XML and ended in every way, and one document sent with every      *)
(* status, content type and encoding.                                      *)
EXTENDS Feed

CONSTANT MaxTokens

PlainDocuments ==
    UNION {[status : {"ok"}, type : {"xml"}, packed : {FALSE},
            tokens : [1 .. n -> Tokens], end : {"eof", "cut", "stall"}] :
               n \in 0 .. MaxTokens}

OneItem ==
    [status : {"ok", "other"}, type : {"xml", "zip", "other"}, packed : BOOLEAN,
     tokens : {<<"other", "item", "/item", "/other">>}, end : {"eof", "cut", "stall"}]

AllResponses == PlainDocuments \cup OneItem
=============================================================================
