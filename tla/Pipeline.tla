------------------------------ MODULE Pipeline ------------------------------
(***************************************************************************)
(* Parser.parseProducts: three goroutines under one errgroup, joined by    *)
(* two unbuffered channels.                                                *)
(*                                                                         *)
(*   decoder --parsingResults--> filter --filteredProducts--> updater      *)
(*                                                                         *)
(* A product is the position of its <item> in the feed.  An unbuffered     *)
(* send and its receive are one step of both goroutines; a closed channel  *)
(* is its sender's pc being past the function (Returned).  The context of  *)
(* the errgroup is done when the caller's context is, or when a goroutine  *)
(* has returned an error to the group.                                     *)
(***************************************************************************)
EXTENDS Integers, Sequences

CONSTANTS Feeds,      \* the feed files the decoder may be given
          BatchSize   \* Parser.batchSize (a uint: 0 is a legal configuration)

Kinds == {"ok", "bad"}       \* models.ParsingResult without / with an Error
Ends  == {"eof", "broken"}   \* how dec.Token() stops after the last item

ASSUME PipelineAssumption ==
    /\ BatchSize \in Nat
    /\ Feeds \subseteq [items : Seq(Kinds), end : Ends]

Goroutines == {"decoder", "filter", "updater"}
Errors     == {"nil", "decode", "store", "ctx"}

VARIABLES
    feed,            \* the feed of this call, chosen once
    parentDone,      \* the context given to Parse is done (shutdown)
    firstErr,        \* errgroup.Group.err
    pc,              \* where each goroutine is
    err,             \* what each goroutine returned
    pos,             \* items the decoder has sent
    batch,           \* filterProducts: batch
    failed,          \* filterProducts: failedProducts
    inStore,         \* updateProducts: the batch given to UpdateProducts
    stored,          \* products of committed UpdateProducts, oldest first
    counted,         \* updateProducts: createdProducts + updatedProducts
    failedProducts,  \* parseProducts: failedProducts
    ret              \* the error parseProducts returned, "none" before that

vars == <<feed, parentDone, firstErr, pc, err, pos, batch, failed, inStore,
          stored, counted, failedProducts, ret>>

Items == feed.items
IsOk(i) == Items[i] = "ok"
CtxDone == parentDone \/ firstErr # "nil"
Returned(g) == pc[g] \in {"returning", "done"}

Init ==
    /\ feed \in Feeds
    /\ parentDone = FALSE
    /\ firstErr = "nil"
    /\ pc = [g \in Goroutines |-> IF g = "decoder" THEN "decode" ELSE "range"]
    /\ err = [g \in Goroutines |-> "nil"]
    /\ pos = 0
    /\ batch = <<>>
    /\ failed = 0
    /\ inStore = <<>>
    /\ stored = <<>>
    /\ counted = 0
    /\ failedProducts = 0
    /\ ret = "none"

-----------------------------------------------------------------------------
(* Steps shared by the goroutines.                                         *)

\* The goroutine's function returns e; its deferred close(channel) runs.
Return(g, e) ==
    /\ pc' = [pc EXCEPT ![g] = "returning"]
    /\ err' = [err EXCEPT ![g] = e]

FirstWins_LastError(e) == IF e = "nil" THEN firstErr ELSE e

\* errgroup.Group: errOnce keeps the first error.
FirstWins(e) == IF firstErr = "nil" THEN e ELSE firstErr

\* errgroup.Group.Go: the returned error reaches the group, which cancels its
\* context.  This comes after the deferred close, as a step of its own.
Exit(g) ==
    /\ pc[g] = "returning"
    /\ pc' = [pc EXCEPT ![g] = "done"]
    /\ firstErr' = FirstWins(err[g])
    /\ UNCHANGED <<feed, parentDone, err, pos, batch, failed, inStore, stored,
                   counted, failedProducts, ret>>

-----------------------------------------------------------------------------
(* Decoder.Decode with its channel to filterProducts.                      *)

BatchFull_OffByOne(b) == Len(b) = BatchSize + 1

\* len(batch) == int(p.batchSize): never true of a non-empty batch when the
\* batch size is 0.
BatchFull(b) == Len(b) = BatchSize

Accept_Behind(i) ==
    /\ batch' = Append(batch, i - 1)
    /\ pc' = IF BatchFull(batch') THEN [pc EXCEPT !["filter"] = "send"] ELSE pc

\* A result without an error joins the batch.
Accept(i) ==
    /\ batch' = Append(batch, i)
    /\ pc' = IF BatchFull(batch') THEN [pc EXCEPT !["filter"] = "send"] ELSE pc

\* The decoder's select picks the send; the filter's range receives.
SendResult ==
    /\ pc["decoder"] = "decode"
    /\ pc["filter"] = "range"
    /\ pos < Len(Items)
    /\ pos' = pos + 1
    /\ \/ /\ ~IsOk(pos + 1)
          /\ failed' = failed + 1
          /\ UNCHANGED <<batch, pc>>
       \/ /\ IsOk(pos + 1)
          /\ Accept(pos + 1)
          /\ UNCHANGED failed
    /\ UNCHANGED <<feed, parentDone, firstErr, err, inStore, stored, counted,
                   failedProducts, ret>>

\* The decoder's select picks ctx.Done.
DecodeCancelled ==
    /\ pc["decoder"] = "decode"
    /\ pos < Len(Items)
    /\ CtxDone
    /\ Return("decoder", "ctx")
    /\ UNCHANGED <<feed, parentDone, firstErr, pos, batch, failed, inStore,
                   stored, counted, failedProducts, ret>>

DecodeEnd_IgnoreError ==
    /\ pc["decoder"] = "decode"
    /\ pos = Len(Items)
    /\ Return("decoder", "nil")
    /\ UNCHANGED <<feed, parentDone, firstErr, pos, batch, failed, inStore,
                   stored, counted, failedProducts, ret>>

\* dec.Token() fails: io.EOF ends the file, any other error is returned.
DecodeEnd ==
    /\ pc["decoder"] = "decode"
    /\ pos = Len(Items)
    /\ Return("decoder", IF feed.end = "eof" THEN "nil" ELSE "decode")
    /\ UNCHANGED <<feed, parentDone, firstErr, pos, batch, failed, inStore,
                   stored, counted, failedProducts, ret>>

\* The body is read under the request's context, which is the caller's: once
\* that is done a read may fail anywhere in the file.
DecodeAborted ==
    /\ pc["decoder"] = "decode"
    /\ parentDone
    /\ Return("decoder", "decode")
    /\ UNCHANGED <<feed, parentDone, firstErr, pos, batch, failed, inStore,
                   stored, counted, failedProducts, ret>>

-----------------------------------------------------------------------------
(* Parser.filterProducts with its channel to updateProducts.               *)

\* The filter's select picks output <- batch; the updater's range receives.
\* "send" is the select in the loop, "flush" the one after it.
SendBatch ==
    /\ pc["filter"] \in {"send", "flush"}
    /\ pc["updater"] = "range"
    /\ inStore' = batch
    /\ batch' = <<>>
    /\ pc' = [pc EXCEPT !["updater"] = "store",
                        !["filter"] = IF pc["filter"] = "send" THEN "range"
                                                               ELSE "returning"]
    /\ failedProducts' = IF pc["filter"] = "send" THEN failedProducts ELSE failed
    /\ UNCHANGED <<feed, parentDone, firstErr, err, pos, failed, stored,
                   counted, ret>>

FilterCancelled_BlockingSend == FALSE /\ UNCHANGED vars

\* The filter's select picks ctx.Done: the batch and the count are dropped.
FilterCancelled ==
    /\ pc["filter"] \in {"send", "flush"}
    /\ CtxDone
    /\ Return("filter", "ctx")
    /\ UNCHANGED <<feed, parentDone, firstErr, pos, batch, failed, inStore,
                   stored, counted, failedProducts, ret>>

FilterDrained_NoFlush ==
    /\ pc["filter"] = "range"
    /\ Returned("decoder")
    /\ Return("filter", "nil") /\ failedProducts' = failed
    /\ UNCHANGED <<feed, parentDone, firstErr, pos, batch, failed, inStore,
                   stored, counted, ret>>

\* parsingResults is closed: flush what is left, if anything is.
FilterDrained ==
    /\ pc["filter"] = "range"
    /\ Returned("decoder")
    /\ \/ /\ batch # <<>>
          /\ pc' = [pc EXCEPT !["filter"] = "flush"]
          /\ UNCHANGED <<err, failedProducts>>
       \/ /\ batch = <<>>
          /\ Return("filter", "nil")
          /\ failedProducts' = failed
    /\ UNCHANGED <<feed, parentDone, firstErr, pos, batch, failed, inStore,
                   stored, counted, ret>>

-----------------------------------------------------------------------------
(* Parser.updateProducts with Storage.UpdateProducts, one transaction.     *)

\* The transaction commits and the products it created or updated are counted:
\* not those compareProducts left out as not newer (Catalog).
StoreBatch ==
    /\ pc["updater"] = "store"
    /\ stored' = stored \o inStore
    /\ counted' \in counted .. counted + Len(inStore)
    /\ pc' = [pc EXCEPT !["updater"] = "range"]
    /\ UNCHANGED <<feed, parentDone, firstErr, err, pos, batch, failed,
                   inStore, failedProducts, ret>>

StoreFailed_Counted ==
    /\ pc["updater"] = "store"
    /\ Return("updater", "store")
    /\ counted' = counted + Len(inStore)
    /\ UNCHANGED <<feed, parentDone, firstErr, pos, batch, failed, inStore,
                   stored, failedProducts, ret>>

StoreFailed_Continue ==
    /\ pc["updater"] = "store"
    /\ pc' = [pc EXCEPT !["updater"] = "range"]
    /\ UNCHANGED <<feed, parentDone, firstErr, err, pos, batch, failed,
                   inStore, stored, counted, failedProducts, ret>>

\* UpdateProducts returns an error (the database's, or the context's once it
\* is done) and nothing was stored.
StoreFailed ==
    /\ pc["updater"] = "store"
    /\ \/ Return("updater", "store")
       \/ CtxDone /\ Return("updater", "ctx")
    /\ UNCHANGED <<feed, parentDone, firstErr, pos, batch, failed, inStore,
                   stored, counted, failedProducts, ret>>

\* UpdateProducts returns the error of tx.Commit, but the server had committed:
\* the products are stored and not counted.
StoreCommitLost ==
    /\ pc["updater"] = "store"
    /\ stored' = stored \o inStore
    /\ Return("updater", "store")
    /\ UNCHANGED <<feed, parentDone, firstErr, pos, batch, failed, inStore,
                   counted, failedProducts, ret>>

\* filteredProducts is closed.
UpdaterDrained ==
    /\ pc["updater"] = "range"
    /\ Returned("filter")
    /\ Return("updater", "nil")
    /\ UNCHANGED <<feed, parentDone, firstErr, pos, batch, failed, inStore,
                   stored, counted, failedProducts, ret>>

-----------------------------------------------------------------------------
(* The caller.                                                             *)

Wait_FirstError ==
    /\ ret = "none"
    /\ firstErr # "nil" \/ \A g \in Goroutines : pc[g] = "done"
    /\ ret' = firstErr
    /\ UNCHANGED <<feed, parentDone, firstErr, pc, err, pos, batch, failed,
                   inStore, stored, counted, failedProducts>>

\* errGroup.Wait() and the return of parseProducts.
Wait ==
    /\ ret = "none"
    /\ \A g \in Goroutines : pc[g] = "done"
    /\ ret' = firstErr
    /\ UNCHANGED <<feed, parentDone, firstErr, pc, err, pos, batch, failed,
                   inStore, stored, counted, failedProducts>>

\* main cancels the context on SIGINT or SIGTERM.
Cancel ==
    /\ ~parentDone
    /\ ret = "none"
    /\ parentDone' = TRUE
    /\ UNCHANGED <<feed, firstErr, pc, err, pos, batch, failed, inStore,
                   stored, counted, failedProducts, ret>>

Decoder == SendResult \/ DecodeCancelled \/ DecodeEnd \/ DecodeAborted
           \/ Exit("decoder")
Filter  == SendResult \/ SendBatch \/ FilterCancelled \/ FilterDrained
           \/ Exit("filter")
Updater == SendBatch \/ StoreBatch \/ StoreFailed \/ StoreCommitLost
           \/ UpdaterDrained \/ Exit("updater")

Next == Decoder \/ Filter \/ Updater \/ Wait \/ Cancel

\* Every goroutine that can step eventually does: the Go scheduler is fair, a
\* read of the body ends at the latest with http.Client.Timeout, and a database
\* call returns.  Nothing is assumed of which branch a select picks, nor that
\* the caller's context is ever done.
Fairness == WF_vars(Decoder) /\ WF_vars(Filter) /\ WF_vars(Updater) /\ WF_vars(Wait)

Spec == Init /\ [][Next]_vars

FairSpec == Spec /\ Fairness

-----------------------------------------------------------------------------
(* Properties.                                                             *)

Positions == 1 .. Len(Items)
Elems(s) == {s[i] : i \in DOMAIN s}

\* Type invariant of parseProducts' locals, its two channels and its errgroup.
TypeOK ==
    /\ feed \in Feeds
    /\ parentDone \in BOOLEAN
    /\ firstErr \in Errors
    /\ pc \in [Goroutines -> {"decode", "range", "send", "flush", "store",
                              "returning", "done"}]
    /\ err \in [Goroutines -> Errors]
    /\ pos \in 0 .. Len(Items)
    /\ batch \in Seq(Positions)
    /\ failed \in Nat
    /\ inStore \in Seq(Positions)
    /\ stored \in Seq(Positions)
    /\ counted \in Nat
    /\ failedProducts \in Nat
    /\ ret \in Errors \cup {"none"}

\* s lists positions in document order, and skips no decoded product before the
\* last one it lists.
InDocumentOrder(s) ==
    /\ \A i, j \in DOMAIN s : i < j => s[i] < s[j]
    /\ \A i \in DOMAIN s : IsOk(s[i])
    /\ \A n \in Positions : \A i \in DOMAIN s :
            n < s[i] /\ IsOk(n) => n \in Elems(s)

\* Whatever fails, and whenever: what storage holds is a prefix of the feed's
\* good products, each once, in document order.  A failed or dropped batch is
\* never followed by a later one (parser.go:227-235).
StoredIsPrefix == InDocumentOrder(stored)

\* A nil error from parseProducts means the whole file was read, every good
\* product was stored and the others are counted: Parse goes on to delete every
\* product that was not stored (parser.go:113-118).
SuccessIsComplete ==
    ret = "nil" =>
        /\ feed.end = "eof"
        /\ Elems(stored) = {i \in Positions : IsOk(i)}
        /\ failedProducts + Len(stored) = Len(Items)

\* The status stored with the run is the cause of the failure, not the
\* cancellation it led to in the other goroutines (parser.go:140, 177).
StatusIsRootCause == ret = "ctx" => parentDone

\* A batch is never empty (UpdateProducts would build "IN ()"), never larger
\* than the batch size, and short only as the last one, after the decoder is
\* done; with batch size 0 the whole feed is one batch (parser.go:188-213).
BatchShape ==
    pc["updater"] = "store" =>
        /\ inStore # <<>>
        /\ BatchSize > 0 => Len(inStore) <= BatchSize
        /\ Len(inStore) # BatchSize => Returned("decoder")

\* The run's statistics never claim a product that is not in storage.
NeverOvercounts == counted <= Len(stored)

Abstract == INSTANCE Import WITH catalogue <- Elems(stored), result <- ret

\* The pipeline is an import (Import): what is stored grows with the document,
\* nothing is stored once parseProducts has returned, not even by a goroutine
\* that outlives the first error (parser.go:177), and a success is complete.
ImplementsImport == Abstract!Spec

\* Neither a storage error, nor a decoding error, nor a shutdown leaves a
\* goroutine blocked on a channel: Wait returns (parser.go:198-202, 208-212).
Termination == <>(ret # "none")

\* What parser_test.go:356-382 expects of a file that breaks: the products
\* decoded before the error are passed to UpdateProducts.
DecodeErrorKeepsBatches ==
    ret = "decode" /\ ~parentDone =>
        Elems(stored) = {i \in Positions : IsOk(i)}
=============================================================================
