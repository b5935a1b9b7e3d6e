-------------------------------- MODULE Feed --------------------------------
(***************************************************************************)
(* One feed, from its URL to the finished run: Parser.Parse after StartRun *)
(* has succeeded, with Fetcher.FetchFile and Decoder.Decode step by step.  *)
(*                                                                         *)
(* The server, net/http, gzip and encoding/xml are external, modelled as   *)
(* src uses them.  A document is a sequence of tokens: the tags of items   *)
(* and of other elements, and "bad" for bytes that are no XML; text is     *)
(* left out.  Of what Pipeline does with the results one fact matters      *)
(* here: a batch may fail to be stored, which ends the group's context.    *)
(***************************************************************************)
EXTENDS Integers, Sequences, SequencesExt

CONSTANTS Responses,   \* what the server may answer
          HasTimeout,  \* http.Client.Timeout (HTTP_TIMEOUT) is not 0
          Faults

Names   == {"item", "other"}
Closing == [item |-> "/item", other |-> "/other"]
Tokens  == Names \cup {Closing[n] : n \in Names} \cup {"bad"}

\* packed: the bytes are gzip.  end: the bytes end, the connection breaks, or
\* the server sends nothing more.
Response == [status : {"ok", "other"}, type : {"xml", "zip", "other"},
             packed : BOOLEAN, tokens : Seq(Tokens), end : {"eof", "cut", "stall"}]

ASSUME FeedAssumption ==
    /\ Responses \subseteq Response
    /\ HasTimeout \in BOOLEAN
    /\ Faults \subseteq {"network", "database", "shutdown"}

VARIABLES
    resp,       \* the server's answer, chosen once
    pc,         \* where Parse is
    conn,       \* the connection of the response body
    pos,        \* tokens the xml.Decoder has read
    open,       \* its stack of open elements
    broken,     \* its err: after one error it returns no token any more
    item,       \* where the <item> being decoded starts
    outer,      \* elements that were open around it
    sent,       \* results sent to filterProducts
    expired,    \* the http.Client's timer has fired
    cancelled,  \* Parse's context is done
    groupErr,   \* the errgroup has an error that is not Decode's
    status,     \* the error given to finishParsing
    row,        \* run.success: "unfinished" for NULL
    ret         \* what Parse returned

decoder  == <<pos, open, broken, item, outer, sent>>
contexts == <<expired, cancelled, groupErr>>
results  == <<status, row, ret>>
vars     == <<resp, pc, conn, decoder, contexts, results>>

Init ==
    /\ resp \in Responses
    /\ pc = "fetch"
    /\ conn = "none"
    /\ pos = 0 /\ open = <<>> /\ broken = FALSE
    /\ item = 0 /\ outer = 0 /\ sent = <<>>
    /\ expired = FALSE /\ cancelled = FALSE /\ groupErr = FALSE
    /\ status = "none" /\ row = "unfinished" /\ ret = "none"

-----------------------------------------------------------------------------
(* Fetcher.FetchFile.                                                      *)

FetchReturns(e, c) ==
    /\ pc = "fetch"
    /\ conn' = c
    /\ status' = e
    /\ pc' = IF e = "none" THEN "loop" ELSE "finish"
    /\ UNCHANGED <<resp, decoder, contexts, row, ret>>

\* NewRequestWithContext or Do fails: a bad URL, no connection, a timeout.
RequestFails ==
    /\ "network" \in Faults \/ expired \/ cancelled
    /\ FetchReturns("fetch", "none")

NotOK_NoClose ==
    /\ resp.status = "other"
    /\ FetchReturns("fetch", "held")

\* ErrStatusNotOK, after the body was closed.
NotOK ==
    /\ resp.status = "other"
    /\ FetchReturns("fetch", "free")

Accepted == resp.type = "xml" \/ (resp.type = "zip" /\ resp.packed)

\* The body, or its decompression, for the caller to close.
FetchOk ==
    /\ resp.status = "ok" /\ Accepted
    /\ FetchReturns("none", IF expired \/ cancelled THEN "free" ELSE "held")

\* ErrContentTypeNotSupported, or gzip.NewReader fails: nobody has the body.
\* Its connection is free only if the reader came to the end of the body.
Refused ==
    /\ resp.status = "ok" /\ ~Accepted
    /\ \/ FetchReturns("fetch", IF expired \/ cancelled THEN "free" ELSE "held")
       \/ resp.type = "zip" /\ resp.end # "stall" /\ FetchReturns("fetch", "free")

-----------------------------------------------------------------------------
(* Decoder.Decode, on a strict xml.Decoder.                                *)

\* The request asks for gzip, but only application/zip is decompressed.
Stream == IF resp.type = "xml" /\ resp.packed THEN <<"bad">> ELSE resp.tokens
AtEnd  == pos = Len(Stream)
Token  == Stream[pos + 1]

Fits_AnyTag(t) == t # "bad" /\ (t \in Names \/ open # <<>>)

\* A start tag, or the end tag of the innermost open element.
Fits(t) == t \in Names \/ (open # <<>> /\ t = Closing[Last(open)])

CanRead == ~broken /\ ~AtEnd /\ Fits(Token)

Read ==
    /\ pos' = pos + 1
    /\ open' = IF Token \in Names THEN Append(open, Token) ELSE Front(open)

\* io.EOF, which the xml.Decoder returns only with no element open.
IsEOF == AtEnd /\ ~broken /\ resp.end = "eof" /\ open = <<>>

\* Any other error: of the syntax, of the body's Read, or the one before.
TokenFails ==
    \/ broken \/ expired \/ cancelled
    \/ ~AtEnd /\ ~Fits(Token)
    \/ AtEnd /\ resp.end = "cut"
    \/ AtEnd /\ resp.end = "eof" /\ open # <<>>

\* A token that starts no item.
Skip ==
    /\ pc = "loop" /\ CanRead /\ Token # "item"
    /\ Read
    /\ UNCHANGED <<resp, pc, conn, broken, item, outer, sent, contexts, results>>

StartItem_SameProduct ==
    /\ pc = "loop" /\ CanRead /\ Token = "item"
    /\ Read
    /\ outer' = Len(open)
    /\ pc' = "element"
    /\ UNCHANGED <<resp, conn, broken, item, sent, contexts, results>>

StartItem ==
    /\ pc = "loop" /\ CanRead /\ Token = "item"
    /\ Read
    /\ item' = pos + 1
    /\ outer' = Len(open)
    /\ pc' = "element"
    /\ UNCHANGED <<resp, conn, broken, sent, contexts, results>>

\* DecodeElement reads up to the end tag of its start tag.
AfterItem == IF Len(open') = outer THEN "send" ELSE "element"

\* DecodeElement: an <item> inside the item is no product of its own.
DecodeElement ==
    /\ pc = "element" /\ CanRead
    /\ Read
    /\ pc' = AfterItem
    /\ UNCHANGED <<resp, conn, broken, item, outer, sent, contexts, results>>

\* models.ParsingResult: the product made of the element, or what there is of it.
Result == [at |-> item, ok |-> ~broken]

ElementFails_NotSticky ==
    /\ pc = "element" /\ TokenFails
    /\ pos' = IF AtEnd THEN pos ELSE pos + 1
    /\ open' = SubSeq(open, 1, outer)
    /\ pc' = "loop"
    /\ sent' = Append(sent, [at |-> item, ok |-> FALSE])
    /\ UNCHANGED <<resp, conn, broken, item, outer, contexts, results>>

\* DecodeElement's error goes with the result; the loop goes on.
ElementFails ==
    /\ pc = "element" /\ TokenFails
    /\ broken' = TRUE
    /\ pc' = "send"
    /\ UNCHANGED <<resp, conn, pos, open, item, outer, sent, contexts, results>>

Send ==
    /\ pc = "send"
    /\ sent' = Append(sent, Result)
    /\ pc' = "loop"
    /\ UNCHANGED <<resp, conn, pos, open, broken, item, outer, contexts, results>>

DecodeReturns(e) ==
    /\ status' = e
    /\ pc' = "wait"
    /\ UNCHANGED <<resp, conn, decoder, contexts, row, ret>>

SendCancelled == pc = "send" /\ (cancelled \/ groupErr) /\ DecodeReturns("ctx")
DecodeEnds    == pc = "loop" /\ IsEOF /\ DecodeReturns("nil")
DecodeFails   == pc = "loop" /\ TokenFails /\ DecodeReturns("decode")

-----------------------------------------------------------------------------
(* The rest of Parse.                                                      *)

\* UpdateProducts fails, or filterProducts gives up (Pipeline).
StoreFails ==
    /\ "database" \in Faults \/ cancelled
    /\ pc \in {"loop", "element", "send", "wait"}
    /\ \E k \in DOMAIN sent : sent[k].ok
    /\ ~groupErr /\ groupErr' = TRUE
    /\ UNCHANGED <<resp, pc, conn, decoder, expired, cancelled, results>>

\* parseProducts returns: outdated products are deleted if it had no error.
ParseEnds ==
    /\ pc = "wait"
    /\ \/ /\ status = "nil" /\ ~groupErr
          /\ pc' = "delete"
          /\ UNCHANGED status
       \/ /\ status # "nil" \/ groupErr
          /\ pc' = "finish"
          /\ status' \in (IF groupErr THEN {status, "store"} ELSE {status}) \ {"nil"}
    /\ UNCHANGED <<resp, conn, decoder, contexts, row, ret>>

DeleteOldProducts ==
    /\ pc = "delete"
    /\ \/ ~cancelled /\ UNCHANGED status
       \/ (cancelled \/ "database" \in Faults) /\ status' = "delete"
    /\ pc' = "finish"
    /\ UNCHANGED <<resp, conn, decoder, contexts, row, ret>>

\* Parse returns, and closes the body FetchFile gave it, if it did.
Return(e) ==
    /\ ret' = e
    /\ pc' = "done"
    /\ conn' = IF status = "fetch" THEN conn ELSE "free"
    /\ UNCHANGED <<resp, decoder, contexts, status>>

\* finishParsing with FinishRun: its own error comes before a status of nil.
FinishRun ==
    /\ pc = "finish" /\ ~cancelled
    /\ row' = IF status = "nil" THEN "ok" ELSE "failed"
    /\ Return(IF status = "nil" THEN "nil" ELSE "error")

FinishFails_Ignored ==
    /\ pc = "finish"
    /\ cancelled \/ "database" \in Faults
    /\ UNCHANGED row
    /\ Return(IF status = "nil" THEN "nil" ELSE "error")

\* The UPDATE fails, or only its reply is lost.
FinishFails ==
    /\ pc = "finish"
    /\ \/ (cancelled \/ "database" \in Faults) /\ UNCHANGED row
       \/ "database" \in Faults /\ row' = IF status = "nil" THEN "ok" ELSE "failed"
    /\ Return("error")

-----------------------------------------------------------------------------
(* Time and shutdown.                                                      *)

\* A request that is cancelled or out of time gives its connection up.
Abandon == conn' = IF conn = "held" THEN "free" ELSE conn

Expire_HeadersOnly ==
    /\ HasTimeout /\ ~expired /\ pc = "fetch"
    /\ expired' = TRUE
    /\ Abandon
    /\ UNCHANGED <<resp, pc, decoder, cancelled, groupErr, results>>

\* http.Client.Timeout covers the body: its timer is stopped by Close only.
Expire ==
    /\ HasTimeout /\ ~expired
    /\ pc = "fetch" \/ conn = "held"
    /\ expired' = TRUE
    /\ Abandon
    /\ UNCHANGED <<resp, pc, decoder, cancelled, groupErr, results>>

Cancel ==
    /\ "shutdown" \in Faults /\ ~cancelled
    /\ pc # "done"
    /\ cancelled' = TRUE
    /\ Abandon
    /\ UNCHANGED <<resp, pc, decoder, expired, groupErr, results>>

Fetch  == RequestFails \/ NotOK \/ FetchOk \/ Refused
Decode == Skip \/ StartItem \/ DecodeElement \/ ElementFails \/ Send
          \/ SendCancelled \/ DecodeEnds \/ DecodeFails
Finish == ParseEnds \/ DeleteOldProducts \/ FinishRun \/ FinishFails

Next == Fetch \/ Decode \/ StoreFails \/ Finish \/ Expire \/ Cancel

Spec == Init /\ [][Next]_vars

\* Parse goes on when it can, and time passes.  The server need not answer.
Fairness ==
    /\ WF_vars((expired \/ cancelled) /\ RequestFails)
    /\ WF_vars(Decode) /\ WF_vars(Finish) /\ WF_vars(Expire)

FairSpec == Spec /\ Fairness

-----------------------------------------------------------------------------
(* Properties.                                                             *)

\* Type invariant of Parse, the response and the xml.Decoder.
TypeOK ==
    /\ resp \in Responses
    /\ pc \in {"fetch", "loop", "element", "send", "wait", "delete", "finish", "done"}
    /\ conn \in {"none", "held", "free"}
    /\ pos \in 0 .. Len(Stream)
    /\ open \in Seq(Names)
    /\ item \in 0 .. pos
    /\ outer \in 0 .. Len(Stream)
    /\ sent \in Seq([at : 1 .. Len(Stream), ok : BOOLEAN])
    /\ \A flag \in {broken, expired, cancelled, groupErr} : flag \in BOOLEAN
    /\ status \in {"none", "fetch", "nil", "decode", "ctx", "store", "delete"}
    /\ row \in {"unfinished", "ok", "failed"}
    /\ ret \in {"none", "nil", "error"}

StartTags(doc) == {i \in DOMAIN doc : doc[i] \in Names}

\* The end tag of every element of a well-formed document: each start tag has one
\* after it, of its name, no other tag is left, and elements nest.
Nestings(doc) ==
    {ends \in [StartTags(doc) -> DOMAIN doc \ StartTags(doc)] :
        /\ \A i \in StartTags(doc) : i < ends[i] /\ doc[ends[i]] = Closing[doc[i]]
        /\ \A i, k \in StartTags(doc) : i < k => ends[i] < k \/ ends[k] < ends[i]
        /\ \A j \in DOMAIN doc \ StartTags(doc) : \E i \in StartTags(doc) : ends[i] = j}

Items(doc) == {i \in DOMAIN doc : doc[i] = "item"}

\* Where the products of a document start: at its outermost items.
ProductsOf(doc, ends) ==
    {i \in Items(doc) : \A k \in Items(doc) : k < i => ends[k] < i}

\* Outdated products are deleted, and a run is a success, only after the feed
\* was read to its end, was well-formed, and gave one decoded product for each
\* of its outermost items, in order: a product that could not be decoded is
\* never deleted as outdated (decoder.go:22-48, parser.go:113-118).
WholeFeedOnly ==
    pc = "delete" \/ row = "ok" =>
        /\ resp.end = "eof"
        /\ \A k \in DOMAIN sent : sent[k].ok
        /\ \A k, l \in DOMAIN sent : k < l => sent[k].at < sent[l].at
        /\ \E ends \in Nestings(Stream) :
               {sent[k].at : k \in DOMAIN sent} = ProductsOf(Stream, ends)

\* A result with an error is the last one and belongs to a failed run, so
\* that a run counts at most one failed product (decoder.go:36-48).
BadIsLast ==
    \A k \in DOMAIN sent : ~sent[k].ok => k = Len(sent) /\ status \notin {"nil", "delete"}

\* Parse returns nil, and the command is acknowledged, only with the run's
\* success in the database (parser.go:247-256).
NilIsRecorded == ret = "nil" => row = "ok"

\* Once Parse has returned its response holds no connection, unless FetchFile
\* refused it for its content type or for not being gzip: those bodies are not
\* closed (fetcher.go:47-58, 64-67).
HeldOnlyIfRefused ==
    pc = "done" /\ conn = "held" => resp.status = "ok" /\ ~Accepted

\* With a timeout Parse returns, and no connection stays in use for good, even
\* if the server stops answering at any point (main.go:64).
FeedEnds == <>[](pc = "done" /\ conn # "held")
=============================================================================
