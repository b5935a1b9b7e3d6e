--------------------------- MODULE PipelineProofs ---------------------------
(***************************************************************************)
(* Proofs about Pipeline, for every set of feeds of any length and every   *)
(* batch size.                                                             *)
(***************************************************************************)
EXTENDS Pipeline, TLAPS

\* s lists the good products of items between the positions lo and hi, lo
\* excluded, in document order.
Lists(items, s, lo, hi) ==
    /\ \A i, j \in DOMAIN s : i < j => s[i] < s[j]
    /\ \A i \in DOMAIN s : s[i] \in lo + 1 .. hi /\ items[s[i]] = "ok"
    /\ \A n \in lo + 1 .. hi : items[n] = "ok" => \E i \in DOMAIN s : s[i] = n

\* The functions the goroutines are in, and nothing returned before they end.
PcInv ==
    /\ pc["decoder"] \in {"decode", "returning", "done"}
    /\ pc["filter"] \in {"range", "send", "flush", "returning", "done"}
    /\ pc["updater"] \in {"range", "store", "returning", "done"}
    /\ \A g \in Goroutines : ~Returned(g) => err[g] = "nil"

\* The errgroup: it has an error as soon as a goroutine that failed is done, and
\* a cancelled context has a cause.
GroupInv ==
    /\ \A g \in Goroutines : pc[g] = "done" /\ err[g] # "nil" => firstErr # "nil"
    /\ \A g \in Goroutines : err[g] = "ctx" => parentDone \/ firstErr # "nil"
    /\ firstErr = "ctx" => parentDone
    /\ ret # "none" => ret = firstErr /\ \A g \in Goroutines : pc[g] = "done"

\* What a goroutine that returned nil has done.
NilInv ==
    /\ Returned("decoder") /\ err["decoder"] = "nil" =>
          pos = Len(Items) /\ feed.end = "eof"
    /\ Returned("filter") /\ err["filter"] = "nil" =>
          Returned("decoder") /\ batch = <<>> /\ failedProducts = failed
    /\ Returned("updater") /\ err["updater"] = "nil" => Returned("filter")
    /\ pc["filter"] = "flush" => Returned("decoder")

\* The decoder's good products, in order, are those stored, then those being
\* stored, then those of the filter's batch: a is where the stored ones end, b
\* where the batch begins.  Only a failure breaks the chain.
Chain(a, b) ==
    /\ a <= b
    /\ Lists(Items, stored, 0, a)
    /\ err["updater"] = "nil" =>
          /\ pc["updater"] = "store" => Lists(Items, inStore, a, b)
          /\ pc["updater"] # "store" => a = b
          /\ err["filter"] = "nil" => Lists(Items, batch, b, pos)

ChainInv == \E a, b \in 0 .. pos : Chain(a, b)

\* The counts, in the same way.
CountInv ==
    /\ counted <= Len(stored)
    /\ err["updater"] = "nil" /\ err["filter"] = "nil" =>
          /\ pc["updater"] = "store" =>
                failed + Len(stored) + Len(inStore) + Len(batch) = pos
          /\ pc["updater"] # "store" => failed + Len(stored) + Len(batch) = pos

\* The batch on its way: full, or the last.
BatchInv ==
    /\ pc["filter"] \in {"range", "flush"} /\ BatchSize > 0 => Len(batch) < BatchSize
    /\ pc["filter"] = "send" => Len(batch) = BatchSize /\ batch # <<>>
    /\ pc["filter"] = "flush" => batch # <<>>
    /\ BatchShape

\* The inductive invariant.
IInv == TypeOK /\ PcInv /\ GroupInv /\ NilInv /\ ChainInv /\ CountInv /\ BatchInv

-----------------------------------------------------------------------------
(* Lists.                                                                  *)

\* Between a position and itself there is nothing to list.
LEMMA ListsNothing == ASSUME NEW items, NEW n \in Nat PROVE Lists(items, <<>>, n, n)
  BY DEF Lists

\* A good product joins the batch.
LEMMA ListsAppend ==
    ASSUME NEW items, NEW s \in Seq(Nat), NEW lo \in Nat, NEW hi \in Nat,
           lo <= hi, Lists(items, s, lo, hi), items[hi + 1] = "ok"
    PROVE  Lists(items, Append(s, hi + 1), lo, hi + 1)
<1> DEFINE t == Append(s, hi + 1)
<1>1. /\ DOMAIN t = 1 .. Len(s) + 1 /\ DOMAIN s = 1 .. Len(s) /\ Len(s) \in Nat
      /\ \A i \in 1 .. Len(s) : t[i] = s[i]
      /\ t[Len(s) + 1] = hi + 1
  OBVIOUS
<1> HIDE DEF t
<1>2. ASSUME NEW i \in DOMAIN t, NEW j \in DOMAIN t, i < j PROVE t[i] < t[j]
  BY <1>1, <1>2 DEF Lists
<1>3. \A i \in DOMAIN t : t[i] \in lo + 1 .. hi + 1 /\ items[t[i]] = "ok"
  BY <1>1 DEF Lists
<1>4. ASSUME NEW n \in lo + 1 .. hi + 1, items[n] = "ok" PROVE \E i \in DOMAIN t : t[i] = n
  BY <1>1, <1>4 DEF Lists
<1>5. QED
  BY <1>2, <1>3, <1>4 DEF Lists, t

\* A bad one is passed over.
LEMMA ListsSkip ==
    ASSUME NEW items, NEW s \in Seq(Nat), NEW lo \in Nat, NEW hi \in Nat,
           lo <= hi, Lists(items, s, lo, hi), items[hi + 1] # "ok"
    PROVE  Lists(items, s, lo, hi + 1)
  BY DEF Lists

\* One list follows another.
LEMMA ListsConcat ==
    ASSUME NEW items, NEW s \in Seq(Nat), NEW t \in Seq(Nat),
           NEW a \in Nat, NEW b \in Nat, NEW c \in Nat, a <= b, b <= c,
           Lists(items, s, a, b), Lists(items, t, b, c)
    PROVE  Lists(items, s \o t, a, c)
<1> DEFINE st == s \o t
<1>1. /\ Len(s) \in Nat /\ DOMAIN s = 1 .. Len(s)
      /\ Len(t) \in Nat /\ DOMAIN t = 1 .. Len(t)
      /\ DOMAIN st = 1 .. Len(s) + Len(t)
      /\ \A i \in 1 .. Len(s) : st[i] = s[i]
      /\ \A i \in Len(s) + 1 .. Len(s) + Len(t) : st[i] = t[i - Len(s)]
      /\ \A i \in 1 .. Len(t) : st[i + Len(s)] = t[i]
  OBVIOUS
<1> HIDE DEF st
<1>2. ASSUME NEW i \in DOMAIN st, NEW j \in DOMAIN st, i < j PROVE st[i] < st[j]
  <2>1. CASE j <= Len(s)
    <3>1. i \in DOMAIN s /\ j \in DOMAIN s /\ st[i] = s[i] /\ st[j] = s[j]
      BY <1>1, <1>2, <2>1
    <3>2. QED
      BY <1>2, <3>1 DEF Lists
  <2>2. CASE i <= Len(s) /\ Len(s) < j
    <3>1. i \in 1 .. Len(s) /\ j - Len(s) \in 1 .. Len(t)
      BY <1>1, <2>2
    <3>2. st[i] \in a + 1 .. b
      BY <1>1, <3>1 DEF Lists
    <3>3. st[j] \in b + 1 .. c
      BY <1>1, <3>1, <2>2 DEF Lists
    <3>4. QED
      BY <3>2, <3>3
  <2>3. CASE Len(s) < i
    <3>1. i - Len(s) \in 1 .. Len(t) /\ j - Len(s) \in 1 .. Len(t) /\ i - Len(s) < j - Len(s)
      BY <1>1, <1>2, <2>3
    <3>2. t[i - Len(s)] < t[j - Len(s)]
      BY <1>1, <3>1 DEF Lists
    <3>3. QED
      BY <1>1, <1>2, <2>3, <3>2
  <2>4. QED
    BY <1>1, <1>2, <2>1, <2>2, <2>3
<1>3. ASSUME NEW i \in DOMAIN st PROVE st[i] \in a + 1 .. c /\ items[st[i]] = "ok"
  <2>1. CASE i <= Len(s)
    <3>1. i \in DOMAIN s /\ st[i] = s[i]
      BY <1>1, <2>1
    <3>2. QED
      BY <3>1 DEF Lists
  <2>2. CASE Len(s) < i
    <3>1. i - Len(s) \in DOMAIN t /\ st[i] = t[i - Len(s)]
      BY <1>1, <2>2
    <3>2. QED
      BY <3>1 DEF Lists
  <2>3. QED
    BY <1>1, <2>1, <2>2
<1>4. ASSUME NEW n \in a + 1 .. c, items[n] = "ok" PROVE \E i \in DOMAIN st : st[i] = n
  <2>1. CASE n <= b
    BY <1>1, <1>4, <2>1 DEF Lists
  <2>2. CASE b < n
    <3>1. PICK i \in 1 .. Len(t) : t[i] = n
      BY <1>1, <1>4, <2>2 DEF Lists
    <3>2. i + Len(s) \in DOMAIN st /\ st[i + Len(s)] = n
      BY <1>1, <3>1
    <3>3. QED
      BY <3>2
  <2>3. QED
    BY <2>1, <2>2
<1>5. QED
  BY <1>2, <1>3, <1>4 DEF Lists, st

\* What a list from the first position on has in it.
LEMMA ListsElems ==
    ASSUME NEW items, NEW s, NEW h \in Nat, Lists(items, s, 0, h)
    PROVE  Elems(s) = {n \in 1 .. h : items[n] = "ok"}
<1>1. ASSUME NEW i \in DOMAIN s PROVE s[i] \in {n \in 1 .. h : items[n] = "ok"}
  BY DEF Lists
<1>2. ASSUME NEW n \in 1 .. h, items[n] = "ok" PROVE \E i \in DOMAIN s : s[i] = n
  BY <1>2 DEF Lists
<1>3. QED
  BY <1>1, <1>2 DEF Elems

-----------------------------------------------------------------------------
(* Steps.                                                                  *)

\* What a send on parsingResults does to the filter's batch and count.
LEMMA SendResultFacts ==
    ASSUME TypeOK, SendResult
    PROVE  /\ pos \in Nat /\ pos + 1 \in Positions /\ pos' = pos + 1 /\ feed' = feed
           /\ UNCHANGED <<parentDone, firstErr, err, inStore, stored, counted,
                          failedProducts, ret>>
           /\ \/ /\ Items[pos + 1] # "ok" /\ UNCHANGED <<batch, pc>>
                 /\ failed' = failed + 1
              \/ /\ Items[pos + 1] = "ok" /\ UNCHANGED failed
                 /\ batch' = Append(batch, pos + 1)
                 /\ batch' \in Seq(Positions) /\ Len(batch') = Len(batch) + 1
                 /\ pc' = pc \/ pc' = [pc EXCEPT !["filter"] = "send"]
<1>1. Len(Items) \in Nat /\ pos \in Nat /\ pos + 1 \in Positions
  BY PipelineAssumption DEF TypeOK, SendResult, Items, Positions
<1>2. Append(batch, pos + 1) \in Seq(Positions) /\ Len(Append(batch, pos + 1)) = Len(batch) + 1
  BY <1>1 DEF TypeOK
<1>3. QED
  BY <1>1, <1>2 DEF SendResult, Accept, IsOk

\* Every step keeps the types.
LEMMA TypingStep == IInv /\ [Next]_vars => TypeOK'
<1> SUFFICES ASSUME IInv, [Next]_vars PROVE TypeOK'
  OBVIOUS
<1> USE PipelineAssumption DEF IInv, TypeOK, PcInv, Goroutines, Errors, Items, Positions
<1>1. ASSUME NEW g \in Goroutines, Exit(g) PROVE TypeOK'
  BY <1>1 DEF Exit, FirstWins
<1>2. CASE SendResult
  <2>1. Positions' = Positions /\ Items' = Items /\ pos' \in 0 .. Len(Items)'
        /\ batch' \in Seq(Positions) /\ failed' \in Nat
    BY <1>2, SendResultFacts
  <2>2. pc' \in [Goroutines -> {"decode", "range", "send", "flush", "store",
                              "returning", "done"}]
    BY <1>2, SendResultFacts
  <2>3. QED
    BY <1>2, <2>1, <2>2, SendResultFacts
<1>3. CASE DecodeCancelled
  BY <1>3 DEF DecodeCancelled, CtxDone, Return
<1>4. CASE DecodeEnd
  BY <1>4 DEF DecodeEnd, Return
<1>5. CASE DecodeAborted
  BY <1>5 DEF DecodeAborted, Return
<1>6. CASE SendBatch
  BY <1>6 DEF SendBatch
<1>7. CASE FilterCancelled
  BY <1>7 DEF FilterCancelled, CtxDone, Return
<1>8. CASE FilterDrained
  BY <1>8 DEF FilterDrained, Return
<1>9. CASE StoreBatch
  BY <1>9 DEF StoreBatch
<1>10. CASE StoreFailed
  BY <1>10 DEF StoreFailed, CtxDone, Return
<1>11. CASE StoreCommitLost
  BY <1>11 DEF StoreCommitLost, Return
<1>12. CASE UpdaterDrained
  BY <1>12 DEF UpdaterDrained, Return
<1>13. CASE Wait
  BY <1>13 DEF Wait
<1>14. CASE Cancel
  BY <1>14 DEF Cancel
<1>15. CASE UNCHANGED vars
  BY <1>15 DEF vars
<1>16. QED
  BY <1>1, <1>2, <1>3, <1>4, <1>5, <1>6, <1>7, <1>8,
     <1>9, <1>10, <1>11, <1>12, <1>13, <1>14, <1>15 DEF Next, Decoder, Filter, Updater, Goroutines

\* Every step keeps the goroutines, their channels and their errors in order.
LEMMA ControlStep == IInv /\ [Next]_vars => PcInv' /\ GroupInv' /\ NilInv'
<1> SUFFICES ASSUME IInv, [Next]_vars PROVE PcInv' /\ GroupInv' /\ NilInv'
  OBVIOUS
<1> USE PipelineAssumption DEF IInv, TypeOK, PcInv, GroupInv, NilInv, Goroutines, Returned,
   CtxDone, Items, Errors
<1>1. ASSUME NEW g \in Goroutines, Exit(g) PROVE PcInv' /\ GroupInv' /\ NilInv'
  BY <1>1 DEF Exit, FirstWins
<1>2. CASE SendResult
  BY <1>2 DEF SendResult, Accept, BatchFull
<1>3. CASE DecodeCancelled
  BY <1>3 DEF DecodeCancelled, CtxDone, Return
<1>4. CASE DecodeEnd
  BY <1>4 DEF DecodeEnd, Return
<1>5. CASE DecodeAborted
  BY <1>5 DEF DecodeAborted, Return
<1>6. CASE SendBatch
  BY <1>6 DEF SendBatch
<1>7. CASE FilterCancelled
  BY <1>7 DEF FilterCancelled, CtxDone, Return
<1>8. CASE FilterDrained
  BY <1>8 DEF FilterDrained, Return
<1>9. CASE StoreBatch
  BY <1>9 DEF StoreBatch
<1>10. CASE StoreFailed
  BY <1>10 DEF StoreFailed, CtxDone, Return
<1>11. CASE StoreCommitLost
  BY <1>11 DEF StoreCommitLost, Return
<1>12. CASE UpdaterDrained
  BY <1>12 DEF UpdaterDrained, Return
<1>13. CASE Wait
  BY <1>13 DEF Wait
<1>14. CASE Cancel
  BY <1>14 DEF Cancel
<1>15. CASE UNCHANGED vars
  BY <1>15 DEF vars
<1>16. QED
  BY <1>1, <1>2, <1>3, <1>4, <1>5, <1>6, <1>7, <1>8,
     <1>9, <1>10, <1>11, <1>12, <1>13, <1>14, <1>15 DEF Next, Decoder, Filter, Updater, Goroutines

\* Every step keeps the counts.
LEMMA CountStep == IInv /\ [Next]_vars => CountInv'
<1> SUFFICES ASSUME IInv, [Next]_vars PROVE CountInv'
  OBVIOUS
<1> USE PipelineAssumption DEF IInv, TypeOK, PcInv, CountInv, Goroutines, Returned, Items, Positions
<1>1. ASSUME NEW g \in Goroutines, Exit(g) PROVE CountInv'
  BY <1>1 DEF Exit, FirstWins
<1>2. CASE SendResult
  <2>1. failed \in Nat /\ Len(batch) \in Nat /\ Len(stored) \in Nat /\ Len(inStore) \in Nat
    OBVIOUS
  <2>2. /\ pos' = pos + 1 /\ pos \in Nat
        /\ UNCHANGED <<err, stored, inStore, counted>>
    BY <1>2, SendResultFacts
  <2>3. pc'["updater"] = pc["updater"]
    BY <1>2, SendResultFacts
  <2>4. \/ failed' = failed + 1 /\ Len(batch') = Len(batch)
        \/ failed' = failed /\ Len(batch') = Len(batch) + 1
    BY <1>2, SendResultFacts
  <2>5. CountInv /\ counted \in Nat
    OBVIOUS
  <2> HIDE PipelineAssumption DEF IInv, TypeOK, PcInv, Items, Positions
  <2>6. QED
    BY <2>1, <2>2, <2>3, <2>4, <2>5
<1>3. CASE DecodeCancelled
  BY <1>3 DEF DecodeCancelled, CtxDone, Return
<1>4. CASE DecodeEnd
  BY <1>4 DEF DecodeEnd, Return
<1>5. CASE DecodeAborted
  BY <1>5 DEF DecodeAborted, Return
<1>6. CASE SendBatch
  <2>1. Len(batch) \in Nat /\ Len(<<>>) = 0 /\ Len(stored) \in Nat
    OBVIOUS
  <2>2. QED
    BY <1>6, <2>1 DEF SendBatch
<1>7. CASE FilterCancelled
  BY <1>7 DEF FilterCancelled, CtxDone, Return
<1>8. CASE FilterDrained
  BY <1>8 DEF FilterDrained, Return
<1>9. CASE StoreBatch
  <2>1. Len(stored \o inStore) = Len(stored) + Len(inStore) /\ Len(stored) \in Nat
        /\ Len(inStore) \in Nat /\ Len(batch) \in Nat /\ failed \in Nat /\ counted \in Nat
    OBVIOUS
  <2>2. /\ Len(stored') = Len(stored) + Len(inStore)
        /\ counted' \in counted .. counted + Len(inStore)
        /\ UNCHANGED <<err, pos, batch, failed>>
        /\ pc["updater"] = "store" /\ pc'["updater"] = "range"
    BY <1>9, <2>1 DEF StoreBatch
  <2>3. CountInv
    OBVIOUS
  <2> HIDE PipelineAssumption DEF IInv, TypeOK, PcInv, Items, Positions
  <2>4. QED
    BY <2>1, <2>2, <2>3
<1>10. CASE StoreFailed
  BY <1>10 DEF StoreFailed, CtxDone, Return
<1>11. CASE StoreCommitLost
  BY <1>11 DEF StoreCommitLost, Return
<1>12. CASE UpdaterDrained
  BY <1>12 DEF UpdaterDrained, Return
<1>13. CASE Wait
  BY <1>13 DEF Wait
<1>14. CASE Cancel
  BY <1>14 DEF Cancel
<1>15. CASE UNCHANGED vars
  BY <1>15 DEF vars
<1>16. QED
  BY <1>1, <1>2, <1>3, <1>4, <1>5, <1>6, <1>7, <1>8,
     <1>9, <1>10, <1>11, <1>12, <1>13, <1>14, <1>15 DEF Next, Decoder, Filter, Updater, Goroutines

\* Every step keeps the size of the batch.
LEMMA BatchStep == IInv /\ [Next]_vars => BatchInv'
<1> SUFFICES ASSUME IInv, [Next]_vars PROVE BatchInv'
  OBVIOUS
<1> USE PipelineAssumption DEF IInv, TypeOK, PcInv, NilInv, BatchInv, BatchShape, Goroutines,
   Returned, Items, Positions
<1>1. ASSUME NEW g \in Goroutines, Exit(g) PROVE BatchInv'
  BY <1>1 DEF Exit, FirstWins
<1>2. CASE SendResult
  BY <1>2 DEF SendResult, Accept, BatchFull
<1>3. CASE DecodeCancelled
  BY <1>3 DEF DecodeCancelled, CtxDone, Return
<1>4. CASE DecodeEnd
  BY <1>4 DEF DecodeEnd, Return
<1>5. CASE DecodeAborted
  BY <1>5 DEF DecodeAborted, Return
<1>6. CASE SendBatch
  BY <1>6 DEF SendBatch
<1>7. CASE FilterCancelled
  BY <1>7 DEF FilterCancelled, CtxDone, Return
<1>8. CASE FilterDrained
  BY <1>8 DEF FilterDrained, Return
<1>9. CASE StoreBatch
  BY <1>9 DEF StoreBatch
<1>10. CASE StoreFailed
  BY <1>10 DEF StoreFailed, CtxDone, Return
<1>11. CASE StoreCommitLost
  BY <1>11 DEF StoreCommitLost, Return
<1>12. CASE UpdaterDrained
  BY <1>12 DEF UpdaterDrained, Return
<1>13. CASE Wait
  BY <1>13 DEF Wait
<1>14. CASE Cancel
  BY <1>14 DEF Cancel
<1>15. CASE UNCHANGED vars
  BY <1>15 DEF vars
<1>16. QED
  BY <1>1, <1>2, <1>3, <1>4, <1>5, <1>6, <1>7, <1>8,
     <1>9, <1>10, <1>11, <1>12, <1>13, <1>14, <1>15 DEF Next, Decoder, Filter, Updater, Goroutines

\* Every step keeps the chain.
LEMMA ChainStep == IInv /\ [Next]_vars => ChainInv'
<1> SUFFICES ASSUME IInv, [Next]_vars PROVE ChainInv'
  OBVIOUS
<1> USE PipelineAssumption DEF IInv, TypeOK, PcInv, ChainInv, Returned, Goroutines
<1>p. PICK a \in 0 .. pos, b \in 0 .. pos : Chain(a, b)
  OBVIOUS
<1>c. Lists(Items, stored, 0, a) /\ Lists(Items, inStore, a, b) => Lists(Items, stored \o inStore, 0, b)
  <2>1. stored \in Seq(Nat) /\ inStore \in Seq(Nat) /\ a <= b
    BY <1>p DEF Positions, Chain
  <2>2. QED
    BY <2>1, ListsConcat
<1>1. ASSUME NEW g \in Goroutines, Exit(g) PROVE ChainInv'
  BY <1>p, <1>1 DEF Exit, FirstWins, Chain, Items
<1>2. CASE SendResult
  <2>1. a \in 0 .. pos' /\ b \in 0 .. pos' /\ b \in Nat /\ b <= pos /\ pos \in Nat /\ batch \in Seq(Nat)
    BY <1>2, SendResultFacts DEF Positions
  <2>2. ASSUME Lists(Items, batch, b, pos) PROVE Lists(Items, batch', b, pos + 1)
    <3>1. CASE Items[pos + 1] = "ok"
      <4>1. Lists(Items, Append(batch, pos + 1), b, pos + 1)
        BY <2>1, <2>2, <3>1, ListsAppend
      <4>2. QED
        BY <1>2, <3>1, <4>1, SendResultFacts
    <3>2. CASE Items[pos + 1] # "ok"
      <4>1. Lists(Items, batch, b, pos + 1)
        BY <2>1, <2>2, <3>2, ListsSkip
      <4>2. QED
        BY <1>2, <3>2, <4>1, SendResultFacts
    <3>3. QED
      BY <3>1, <3>2
  <2>3. Chain(a, b)'
    BY <1>p, <1>2, <2>2, SendResultFacts DEF Chain, SendResult, Items, Goroutines
  <2>4. QED
    BY <2>1, <2>3
<1>3. CASE DecodeCancelled
  BY <1>p, <1>3 DEF DecodeCancelled, CtxDone, Return, Chain, Items
<1>4. CASE DecodeEnd
  BY <1>p, <1>4 DEF DecodeEnd, Return, Chain, Items
<1>5. CASE DecodeAborted
  BY <1>p, <1>5 DEF DecodeAborted, Return, Chain, Items
<1>6. CASE SendBatch
  <2>1. pos \in Nat /\ Lists(Items, <<>>, pos, pos)
    BY ListsNothing
  <2>2. Chain(a, pos)'
    BY <1>p, <1>6, <2>1 DEF SendBatch, Chain, PcInv, Returned, Goroutines, Items
  <2>3. QED
    BY <1>6, <2>1, <2>2 DEF SendBatch
<1>7. CASE FilterCancelled
  BY <1>p, <1>7 DEF FilterCancelled, CtxDone, Return, Chain, Items
<1>8. CASE FilterDrained
  BY <1>p, <1>8 DEF FilterDrained, Return, Chain, Items
<1>9. CASE StoreBatch
  <2>1. err["updater"] = "nil" /\ Lists(Items, inStore, a, b)
    BY <1>p, <1>9 DEF StoreBatch, Chain, PcInv, Returned, Goroutines
  <2>2. Lists(Items, stored \o inStore, 0, b)
    BY <1>p, <1>c, <2>1 DEF Chain
  <2>3. Chain(b, b)'
    BY <1>p, <1>9, <2>1, <2>2 DEF StoreBatch, Chain, Items, Goroutines
  <2>4. QED
    BY <1>9, <2>3 DEF StoreBatch
<1>10. CASE StoreFailed
  BY <1>p, <1>10 DEF StoreFailed, CtxDone, Return, Chain, Items
<1>11. CASE StoreCommitLost
  <2>1. err["updater"] = "nil" /\ Lists(Items, inStore, a, b)
    BY <1>p, <1>11 DEF StoreCommitLost, Chain, PcInv, Returned, Goroutines
  <2>2. Lists(Items, stored \o inStore, 0, b)
    BY <1>p, <1>c, <2>1 DEF Chain
  <2>3. Chain(b, b)'
    BY <1>p, <1>11, <2>1, <2>2 DEF StoreCommitLost, Return, Chain, Items, Goroutines
  <2>4. QED
    BY <1>11, <2>3 DEF StoreCommitLost
<1>12. CASE UpdaterDrained
  BY <1>p, <1>12 DEF UpdaterDrained, Return, Chain, Items
<1>13. CASE Wait
  BY <1>p, <1>13 DEF Wait, Chain, Items
<1>14. CASE Cancel
  BY <1>p, <1>14 DEF Cancel, Chain, Items
<1>15. CASE UNCHANGED vars
  BY <1>p, <1>15 DEF vars, Chain, Items
<1>16. QED
  BY <1>1, <1>2, <1>3, <1>4, <1>5, <1>6, <1>7, <1>8,
     <1>9, <1>10, <1>11, <1>12, <1>13, <1>14, <1>15 DEF Next, Decoder, Filter, Updater, Goroutines

-----------------------------------------------------------------------------
(* The inductive invariant.                                                *)

\* The first state has every part of it.
LEMMA InitIInv == Init => IInv
<1> SUFFICES ASSUME Init PROVE IInv
  OBVIOUS
<1>1. feed \in [items : Seq(Kinds), end : Ends] /\ Len(Items) \in Nat
  BY PipelineAssumption DEF Init, Items
<1>2. TypeOK
  <2>1. <<>> \in Seq(Positions) /\ 0 \in 0 .. Len(Items)
    BY <1>1
  <2>2. pc \in [Goroutines -> {"decode", "range", "send", "flush", "store",
                               "returning", "done"}]
        /\ err \in [Goroutines -> Errors]
    BY DEF Init, Goroutines, Errors
  <2>3. QED
    BY <2>1, <2>2 DEF Init, TypeOK, Errors
<1>3. PcInv /\ GroupInv /\ NilInv
  BY DEF Init, PcInv, GroupInv, NilInv, Goroutines, Returned
<1>4. Chain(0, 0)
  <2>1. Lists(Items, <<>>, 0, 0)
    BY ListsNothing
  <2>2. QED
    BY <2>1 DEF Init, Chain, Goroutines
<1>5. CountInv
  BY DEF Init, CountInv, Goroutines
<1>6. BatchInv
  BY PipelineAssumption DEF Init, BatchInv, BatchShape, Goroutines
<1>7. QED
  BY <1>2, <1>3, <1>4, <1>5, <1>6 DEF IInv, ChainInv, Init

\* The invariant that the theorems below follow from.
THEOREM Invariance == Spec => []IInv
<1>1. IInv /\ [Next]_vars => IInv'
  BY TypingStep, ControlStep, CountStep, BatchStep, ChainStep DEF IInv
<1>2. QED
  BY <1>1, InitIInv, PTL DEF Spec

-----------------------------------------------------------------------------
(* What follows.                                                           *)

\* Type correctness of parseProducts' locals, channels and errgroup.
THEOREM TypeCorrect == Spec => []TypeOK
  BY Invariance, PTL DEF IInv

\* For every feed and batch size, and whatever fails: storage holds a prefix of
\* the feed's good products in document order.
THEOREM PrefixStored == Spec => []StoredIsPrefix
<1>1. IInv => StoredIsPrefix
  <2> SUFFICES ASSUME IInv PROVE InDocumentOrder(stored)
    BY DEF StoredIsPrefix
  <2>1. PICK a \in 0 .. pos : Lists(Items, stored, 0, a)
    BY DEF IInv, ChainInv, Chain
  <2>2. pos \in Nat /\ a \in Nat /\ stored \in Seq(Positions) /\ Len(Items) \in Nat
    BY PipelineAssumption DEF IInv, TypeOK, Items
  <2>3. \A i \in DOMAIN stored : stored[i] \in 1 .. a
    BY <2>1 DEF Lists
  <2>4. ASSUME NEW n \in Positions, NEW i \in DOMAIN stored, n < stored[i], IsOk(n)
        PROVE  n \in Elems(stored)
    <3>1. n \in 1 .. a
      BY <2>2, <2>3, <2>4 DEF Positions
    <3>2. PICK k \in DOMAIN stored : stored[k] = n
      BY <2>1, <2>4, <3>1 DEF Lists, IsOk
    <3>3. QED
      BY <3>2 DEF Elems
  <2>5. QED
    BY <2>1, <2>4 DEF InDocumentOrder, Lists, IsOk
<1>2. QED
  BY <1>1, Invariance, PTL

\* A nil error means completeness: a consequence of the invariant.
LEMMA IInvComplete == IInv => SuccessIsComplete
<1> SUFFICES ASSUME IInv, ret = "nil"
             PROVE  /\ feed.end = "eof"
                    /\ Elems(stored) = {i \in Positions : IsOk(i)}
                    /\ failedProducts + Len(stored) = Len(Items)
  BY DEF SuccessIsComplete
<1>1. \A g \in Goroutines : pc[g] = "done" /\ err[g] = "nil"
  BY DEF IInv, GroupInv
<1>2. /\ pos = Len(Items) /\ feed.end = "eof"
      /\ batch = <<>> /\ failedProducts = failed
  BY <1>1 DEF IInv, NilInv, Returned, Goroutines
<1>3. pos \in Nat /\ stored \in Seq(Positions) /\ failed \in Nat /\ Len(stored) \in Nat
  BY PipelineAssumption DEF IInv, TypeOK, Items
<1>4. failed + Len(stored) + Len(batch) = pos /\ Len(batch) = 0
  BY <1>1, <1>2 DEF IInv, CountInv, Goroutines
<1>5. Lists(Items, stored, 0, pos)
  <2>1. PICK a \in 0 .. pos : Lists(Items, stored, 0, a) /\ Lists(Items, batch, a, pos)
    BY <1>1 DEF IInv, ChainInv, Chain, Goroutines
  <2>2. ASSUME NEW n \in 1 .. pos, Items[n] = "ok" PROVE n \in 1 .. a
    BY <1>2, <1>3, <2>1, <2>2 DEF Lists
  <2>3. QED
    BY <1>3, <2>1, <2>2 DEF Lists
<1>6. Elems(stored) = {i \in Positions : IsOk(i)}
  BY <1>2, <1>3, <1>5 DEF Lists, Elems, Positions, IsOk
<1>7. QED
  BY <1>2, <1>3, <1>4, <1>6

\* For every feed and batch size: when parseProducts returns nil the file was
\* read to its end, each good product is stored, the rest are counted.  What
\* Parse then deletes is not in the feed.
THEOREM NilMeansComplete == Spec => []SuccessIsComplete
  BY IInvComplete, Invariance, PTL

\* The run's status is "context cancelled" only after a shutdown: a failure's own
\* cause is never hidden by the cancellation of the other goroutines.
THEOREM RootCause == Spec => []StatusIsRootCause
<1>1. IInv => StatusIsRootCause
  BY DEF IInv, GroupInv, StatusIsRootCause
<1>2. QED
  BY <1>1, Invariance, PTL

\* For every batch size, 0 included: UpdateProducts never gets an empty batch,
\* one that is too large, or a short one before the last.
THEOREM BatchesHaveShape == Spec => []BatchShape
  BY Invariance, PTL DEF IInv, BatchInv

\* The run's statistics never exceed what storage holds.
THEOREM CountsAreBacked == Spec => []NeverOvercounts
<1>1. IInv => NeverOvercounts
  BY DEF IInv, CountInv, NeverOvercounts
<1>2. QED
  BY <1>1, Invariance, PTL
-----------------------------------------------------------------------------
(* The refinement.                                                         *)

\* A transaction stores the good products up to some position.
LEMMA StoreIsImport ==
    ASSUME IInv, pc["updater"] = "store", stored' = stored \o inStore,
           UNCHANGED <<feed, ret>>
    PROVE  Abstract!Store
<1> USE DEF IInv
<1>1. ret = "none"
  BY DEF GroupInv, Goroutines
<1>2. err["updater"] = "nil" /\ pos \in Nat /\ pos <= Len(Items) /\ Len(Items) \in Nat
      /\ DOMAIN Items = 1 .. Len(Items) /\ stored \in Seq(Nat) /\ inStore \in Seq(Nat)
  BY PipelineAssumption DEF TypeOK, PcInv, Returned, Goroutines, Items, Positions
<1>3. PICK a \in 0 .. pos, b \in 0 .. pos :
         a <= b /\ Lists(Items, stored, 0, a) /\ Lists(Items, inStore, a, b)
  BY <1>2 DEF ChainInv, Chain
<1>4. Lists(Items, stored', 0, b)
  BY <1>2, <1>3, ListsConcat
<1>5. Elems(stored') = {i \in 1 .. b : Items[i] = "ok"}
  BY <1>2, <1>4, ListsElems
<1>6. Elems(stored) = {i \in 1 .. a : Items[i] = "ok"}
  BY <1>2, <1>3, ListsElems
<1>7. Elems(stored)' = Elems(stored) \cup {i \in Abstract!Good : i <= b}
  <2>1. Abstract!Good = {i \in 1 .. Len(Items) : Items[i] = "ok"}
    BY <1>2 DEF Abstract!Good, Items
  <2>2. Elems(stored)' = Elems(stored')
    BY DEF Elems
  <2>3. QED
    BY <1>2, <1>3, <1>5, <1>6, <2>1, <2>2
<1>8. b \in 0 .. Len(feed.items)
  BY <1>2, <1>3 DEF Items
<1>9. QED
  BY <1>1, <1>7, <1>8 DEF Abstract!Store

\* parseProducts returns once, a success only of the whole feed.
LEMMA WaitIsImport ==
    ASSUME IInv, IInv', Wait
    PROVE  Abstract!Succeed \/ Abstract!Fail
<1>1. ret = "none" /\ ret' = firstErr /\ UNCHANGED <<feed, stored>>
  BY DEF Wait
<1>2. UNCHANGED <<feed, Elems(stored)>>
  BY <1>1 DEF Elems
<1>3. CASE firstErr = "nil"
  <2>1. SuccessIsComplete'
    BY IInvComplete, PTL
  <2>2. feed.end = "eof" /\ Elems(stored) = {i \in Positions : IsOk(i)}
    BY <1>1, <1>2, <1>3, <2>1 DEF SuccessIsComplete, Positions, Items, IsOk
  <2>3. Abstract!Good = {i \in Positions : IsOk(i)}
    BY PipelineAssumption DEF Abstract!Good, Positions, IsOk, Items, IInv, TypeOK
  <2>4. QED
    BY <1>1, <1>2, <1>3, <2>2, <2>3 DEF Abstract!Succeed
<1>4. CASE firstErr # "nil"
  BY <1>1, <1>2, <1>4 DEF Abstract!Fail, IInv, TypeOK, Errors
<1>5. QED
  BY <1>3, <1>4

\* Every step of the pipeline is a step of an import, or none.
LEMMA StepIsImport == IInv /\ IInv' /\ [Next]_vars => [Abstract!Next]_Abstract!vars
<1> SUFFICES ASSUME IInv, IInv', [Next]_vars PROVE [Abstract!Next]_Abstract!vars
  OBVIOUS
<1>1. CASE StoreBatch
  BY <1>1, StoreIsImport DEF StoreBatch, Abstract!Next
<1>2. CASE StoreCommitLost
  BY <1>2, StoreIsImport DEF StoreCommitLost, Return, Abstract!Next
<1>3. CASE Wait
  BY <1>3, WaitIsImport DEF Abstract!Next
<1>4. ASSUME UNCHANGED <<feed, stored, ret>> PROVE UNCHANGED Abstract!vars
  BY <1>4 DEF Abstract!vars, Elems
<1>5. CASE SendResult \/ DecodeCancelled \/ DecodeEnd \/ DecodeAborted
  BY <1>4, <1>5 DEF SendResult, DecodeCancelled, DecodeEnd, DecodeAborted
<1>6. CASE SendBatch \/ FilterCancelled \/ FilterDrained
  BY <1>4, <1>6 DEF SendBatch, FilterCancelled, FilterDrained
<1>7. CASE StoreFailed \/ UpdaterDrained \/ Cancel \/ UNCHANGED vars
  BY <1>4, <1>7 DEF StoreFailed, UpdaterDrained, Cancel, vars
<1>8. ASSUME NEW g \in Goroutines, Exit(g) PROVE UNCHANGED <<feed, stored, ret>>
  BY <1>8 DEF Exit
<1>9. QED
  BY <1>1, <1>2, <1>3, <1>4, <1>5, <1>6, <1>7, <1>8
     DEF Next, Decoder, Filter, Updater, Goroutines

\* The pipeline implements the import, for every feed, every batch size and
\* every order in which goroutines, storage and shutdown fail.
THEOREM Refinement == Spec => ImplementsImport
<1>1. Init => Abstract!Init
  BY DEF Init, Abstract!Init, Elems
<1>2. QED
  BY <1>1, StepIsImport, Invariance, PTL DEF Spec, ImplementsImport, Abstract!Spec
-----------------------------------------------------------------------------
(* Progress: what Termination needs but fairness itself.                   *)

\* What each goroutine waits for: one disjunct for each place where Go lets it
\* go on.  A select waits for any of its cases, a range for a send or a close.
DecoderReady ==
    \/ pc["decoder"] = "returning"
    \/ /\ pc["decoder"] = "decode"
       /\ pos = Len(Items) \/ CtxDone \/ pc["filter"] = "range"

FilterReady ==
    \/ pc["filter"] = "returning"
    \/ pc["filter"] = "range" /\ Returned("decoder")
    \/ pc["filter"] = "range" /\ pc["decoder"] = "decode" /\ pos < Len(Items)
    \/ pc["filter"] \in {"send", "flush"} /\ (CtxDone \/ pc["updater"] = "range")

UpdaterReady ==
    \/ pc["updater"] \in {"returning", "store"}
    \/ pc["updater"] = "range" /\ (Returned("filter") \/ pc["filter"] \in {"send", "flush"})

WaitReady == \A g \in Goroutines : pc[g] = "done"

\* Nobody waits for ever: until parseProducts returns, the three goroutines and
\* the Wait of their errgroup do not all wait for each other.  This is so
\* because each of the two channels has a select on the context at its sender
\* (parser.go:198-202, 208-212) and is closed when its sender returns, and
\* because the error of an updater that stopped receiving reaches the context.
NobodyStuck ==
    ret = "none" => DecoderReady \/ FilterReady \/ UpdaterReady \/ WaitReady

\* How many steps each goroutine may still take where it is, not counting the
\* items; a batch that is sent costs both the filter and the updater.
DecoderSteps == CASE pc["decoder"] = "done"      -> 0
                  [] pc["decoder"] = "returning" -> 1
                  [] OTHER                       -> 2
FilterSteps  == CASE pc["filter"] = "done"      -> 0
                  [] pc["filter"] = "returning" -> 1
                  [] pc["filter"] = "flush"     -> 3
                  [] pc["filter"] = "range"     -> 4
                  [] OTHER                      -> 6
UpdaterSteps == CASE pc["updater"] = "done"      -> 0
                  [] pc["updater"] = "returning" -> 1
                  [] pc["updater"] = "range"     -> 2
                  [] OTHER                       -> 3

\* The same for the caller: the return and a shutdown.
CallerSteps  == IF ret = "none" THEN IF parentDone THEN 1 ELSE 2
                                ELSE IF parentDone THEN 0 ELSE 1

\* How many steps parseProducts may still take: three for each item to come
\* (it is received, its batch is sent, the batch is stored) and those above.
Remaining ==
    3 * (Len(Items) - pos) + DecoderSteps + FilterSteps + UpdaterSteps + CallerSteps

\* parseProducts does a bounded amount of work: no goroutine goes round in
\* circles, whatever is sent, stored, cancelled or fails.
EndsInTime ==
    /\ [](Remaining \in 0 .. 3 * Len(Items) + 10)
    /\ [][Remaining' < Remaining]_vars

\* The parts of the count are numbers, and the count is in its range.
LEMMA RemainingTyped ==
    ASSUME IInv
    PROVE  /\ Len(Items) \in Nat /\ pos \in 0 .. Len(Items)
           /\ DecoderSteps \in 0 .. 2 /\ FilterSteps \in {0, 1, 3, 4, 6}
           /\ UpdaterSteps \in 0 .. 3 /\ CallerSteps \in 0 .. 2
<1>1. Len(Items) \in Nat /\ pos \in 0 .. Len(Items)
  BY PipelineAssumption DEF IInv, TypeOK, Items
<1>2. DecoderSteps \in 0 .. 2
  BY DEF DecoderSteps
<1>3. FilterSteps \in {0, 1, 3, 4, 6}
  BY DEF FilterSteps
<1>4. UpdaterSteps \in 0 .. 3
  BY DEF UpdaterSteps
<1>5. CallerSteps \in 0 .. 2
  BY DEF CallerSteps
<1>6. QED
  BY <1>1, <1>2, <1>3, <1>4, <1>5

\* For every feed and batch size, whatever fails: while parseProducts has not
\* returned somebody can go on.
THEOREM NoCircularWait == Spec => []NobodyStuck
<1>1. ASSUME IInv, ret = "none" PROVE DecoderReady \/ FilterReady \/ UpdaterReady \/ WaitReady
  <2> USE <1>1 DEF IInv, PcInv, GroupInv, NilInv, Goroutines, Returned, CtxDone
  <2>1. CASE pc["updater"] = "done" /\ err["updater"] # "nil"
    <3>1. CtxDone
      BY <2>1
    <3>2. pc["decoder"] = "done" /\ pc["filter"] = "done" => WaitReady
      BY <2>1 DEF WaitReady
    <3>3. pc["decoder"] # "done" => DecoderReady
      BY <3>1 DEF DecoderReady
    <3>4. pc["decoder"] = "done" /\ pc["filter"] # "done" => FilterReady
      BY <3>1 DEF FilterReady
    <3>5. QED
      BY <3>2, <3>3, <3>4
  <2>2. CASE pc["updater"] = "done" /\ err["updater"] = "nil"
    <3>1. Returned("filter")
      BY <2>2
    <3>2. pc["filter"] = "returning" => FilterReady
      BY DEF FilterReady
    <3>3. pc["decoder"] # "done" /\ pc["filter"] = "done" => DecoderReady
      BY DEF DecoderReady
    <3>4. QED
      BY <2>2, <3>1, <3>2, <3>3 DEF WaitReady
  <2>3. CASE pc["updater"] = "range"
    <3>1. pc["filter"] # "range" => UpdaterReady
      BY <2>3 DEF UpdaterReady
    <3>2. pc["filter"] = "range" => DecoderReady \/ FilterReady
      BY DEF DecoderReady, FilterReady
    <3>3. QED
      BY <3>1, <3>2
  <2>4. CASE pc["updater"] \in {"store", "returning"}
    BY <2>4 DEF UpdaterReady
  <2>5. QED
    BY <2>1, <2>2, <2>3, <2>4
<1>2. QED
  BY <1>1, Invariance, PTL DEF NobodyStuck

\* What goroutines leave of their own counts is left of the whole.
LEMMA SumLess ==
    ASSUME NEW n \in Int, NEW c \in Int,
           NEW d1 \in Nat, NEW f1 \in Nat, NEW u1 \in Nat,
           NEW d2 \in Nat, NEW f2 \in Nat, NEW u2 \in Nat,
           d2 + f2 + u2 < d1 + f1 + u1
    PROVE  3 * n + d2 + f2 + u2 + c < 3 * n + d1 + f1 + u1 + c
  OBVIOUS

\* A goroutine that goes on leaves less to do, if the others do not add to it.
LEMMA PartLess ==
    ASSUME NEW d1 \in Nat, NEW f1 \in Nat, NEW u1 \in Nat,
           NEW d2 \in Nat, NEW f2 \in Nat, NEW u2 \in Nat,
           d2 <= d1, f2 <= f1, u2 <= u1, d2 < d1 \/ f2 < f1 \/ u2 < u1
    PROVE  d2 + f2 + u2 < d1 + f1 + u1
  OBVIOUS

\* What a step of one goroutine, or of two that meet, does to its count.
LEMMA StepsDecrease ==
    ASSUME IInv, Next
    PROVE  Remaining' < Remaining
<1> USE DEF PcInv, Goroutines
<1>r. /\ Len(Items) \in Nat /\ pos \in 0 .. Len(Items)
      /\ DecoderSteps \in 0 .. 2 /\ FilterSteps \in {0, 1, 3, 4, 6}
      /\ UpdaterSteps \in 0 .. 3 /\ CallerSteps \in 0 .. 2
  BY RemainingTyped
<1>a. ASSUME UNCHANGED <<feed, pos, DecoderSteps, FilterSteps, UpdaterSteps>>,
             CallerSteps' = CallerSteps - 1
      PROVE  Remaining' < Remaining
  <2>1. Items' = Items
    BY <1>a DEF Items
  <2>2. Remaining' = 3 * (Len(Items) - pos) + DecoderSteps + FilterSteps + UpdaterSteps
                         + (CallerSteps - 1)
    BY <1>a, <2>1 DEF Remaining
  <2>3. QED
    BY <1>r, <2>2 DEF Remaining
<1>b. ASSUME UNCHANGED <<feed, pos, parentDone, ret>>,
             DecoderSteps' \in Nat, FilterSteps' \in Nat, UpdaterSteps' \in Nat,
             DecoderSteps' + FilterSteps' + UpdaterSteps'
                 < DecoderSteps + FilterSteps + UpdaterSteps
      PROVE  Remaining' < Remaining
  <2>1. Items' = Items /\ CallerSteps' = CallerSteps
    BY <1>b DEF Items, CallerSteps
  <2>2. Remaining' = 3 * (Len(Items) - pos) + DecoderSteps' + FilterSteps' + UpdaterSteps'
                         + CallerSteps
    BY <1>b, <2>1 DEF Remaining
  <2>3. Len(Items) - pos \in Int /\ CallerSteps \in Int
        /\ DecoderSteps \in Nat /\ FilterSteps \in Nat /\ UpdaterSteps \in Nat
    BY <1>r
  <2>4. QED
    BY <1>b, <2>2, <2>3, SumLess DEF Remaining
<1>t. /\ pc \in [Goroutines -> {"decode", "range", "send", "flush", "store",
                                "returning", "done"}]
      /\ PcInv
  BY DEF IInv, TypeOK
<1>n. DecoderSteps \in Nat /\ FilterSteps \in Nat /\ UpdaterSteps \in Nat
  BY <1>r
<1>1. CASE SendResult
  <2>1. /\ pos' = pos + 1 /\ feed' = feed
        /\ UNCHANGED <<parentDone, ret>>
        /\ pc["filter"] = "range" /\ pc'["filter"] \in {"range", "send"}
        /\ pc'["decoder"] = pc["decoder"] /\ pc'["updater"] = pc["updater"]
    BY <1>1, <1>t, SendResultFacts DEF SendResult, IInv
  <2>2. /\ DecoderSteps' = DecoderSteps /\ UpdaterSteps' = UpdaterSteps
        /\ FilterSteps = 4 /\ FilterSteps' \in {4, 6}
    BY <2>1 DEF DecoderSteps, FilterSteps, UpdaterSteps
  <2>3. Items' = Items /\ CallerSteps' = CallerSteps
    BY <2>1 DEF Items, CallerSteps
  <2>4. Remaining' = 3 * (Len(Items) - (pos + 1)) + DecoderSteps + FilterSteps'
                         + UpdaterSteps + CallerSteps
    BY <2>1, <2>2, <2>3 DEF Remaining
  <2>5. QED
    BY <1>r, <2>2, <2>4 DEF Remaining
<1>2. CASE SendBatch
  <2>1. UNCHANGED <<feed, pos, parentDone, ret>>
    BY <1>2 DEF SendBatch
  <2>2. /\ DecoderSteps' = DecoderSteps
        /\ UpdaterSteps = 2 /\ UpdaterSteps' = 3
        /\ \/ FilterSteps = 6 /\ FilterSteps' = 4
           \/ FilterSteps = 3 /\ FilterSteps' = 1
    BY <1>2, <1>t DEF SendBatch, DecoderSteps, FilterSteps, UpdaterSteps
  <2>3. DecoderSteps' + FilterSteps' + UpdaterSteps'
            < DecoderSteps + FilterSteps + UpdaterSteps
    BY <1>n, <2>2
  <2>4. QED
    BY <1>b, <1>n, <2>1, <2>2, <2>3
<1>3. CASE DecodeCancelled \/ DecodeEnd \/ DecodeAborted \/ Exit("decoder")
  <2>1. UNCHANGED <<feed, pos, parentDone, ret>>
    BY <1>3 DEF DecodeCancelled, DecodeEnd, DecodeAborted, Exit
  <2>2. /\ FilterSteps' = FilterSteps /\ UpdaterSteps' = UpdaterSteps
        /\ DecoderSteps' < DecoderSteps /\ DecoderSteps' \in Nat
    BY <1>3, <1>t DEF DecodeCancelled, DecodeEnd, DecodeAborted, Exit, Return,
                DecoderSteps, FilterSteps, UpdaterSteps
  <2>3. DecoderSteps' + FilterSteps' + UpdaterSteps'
            < DecoderSteps + FilterSteps + UpdaterSteps
    <3>1. /\ DecoderSteps' \in Nat /\ FilterSteps' \in Nat /\ UpdaterSteps' \in Nat
          /\ DecoderSteps' <= DecoderSteps /\ FilterSteps' <= FilterSteps
          /\ UpdaterSteps' <= UpdaterSteps
          /\ \/ DecoderSteps' < DecoderSteps \/ FilterSteps' < FilterSteps
             \/ UpdaterSteps' < UpdaterSteps
      BY <1>n, <2>2
    <3>2. QED
      BY <1>n, <3>1, PartLess
  <2>4. QED
    BY <1>b, <1>n, <2>1, <2>2, <2>3
<1>4. CASE FilterCancelled \/ FilterDrained \/ Exit("filter")
  <2>1. UNCHANGED <<feed, pos, parentDone, ret>>
    BY <1>4 DEF FilterCancelled, FilterDrained, Exit
  <2>2. /\ DecoderSteps' = DecoderSteps /\ UpdaterSteps' = UpdaterSteps
        /\ FilterSteps' < FilterSteps /\ FilterSteps' \in Nat
    BY <1>4, <1>t DEF FilterCancelled, FilterDrained, Exit, Return,
                DecoderSteps, FilterSteps, UpdaterSteps
  <2>3. DecoderSteps' + FilterSteps' + UpdaterSteps'
            < DecoderSteps + FilterSteps + UpdaterSteps
    <3>1. /\ DecoderSteps' \in Nat /\ FilterSteps' \in Nat /\ UpdaterSteps' \in Nat
          /\ DecoderSteps' <= DecoderSteps /\ FilterSteps' <= FilterSteps
          /\ UpdaterSteps' <= UpdaterSteps
          /\ \/ DecoderSteps' < DecoderSteps \/ FilterSteps' < FilterSteps
             \/ UpdaterSteps' < UpdaterSteps
      BY <1>n, <2>2
    <3>2. QED
      BY <1>n, <3>1, PartLess
  <2>4. QED
    BY <1>b, <1>n, <2>1, <2>2, <2>3
<1>5. CASE StoreBatch \/ StoreFailed \/ StoreCommitLost \/ UpdaterDrained \/ Exit("updater")
  <2>1. UNCHANGED <<feed, pos, parentDone, ret>>
    BY <1>5 DEF StoreBatch, StoreFailed, StoreCommitLost, UpdaterDrained, Exit
  <2>2. /\ DecoderSteps' = DecoderSteps /\ FilterSteps' = FilterSteps
        /\ UpdaterSteps' < UpdaterSteps /\ UpdaterSteps' \in Nat
    BY <1>5, <1>t DEF StoreBatch, StoreFailed, StoreCommitLost, UpdaterDrained, Exit,
                Return, DecoderSteps, FilterSteps, UpdaterSteps
  <2>3. DecoderSteps' + FilterSteps' + UpdaterSteps'
            < DecoderSteps + FilterSteps + UpdaterSteps
    <3>1. /\ DecoderSteps' \in Nat /\ FilterSteps' \in Nat /\ UpdaterSteps' \in Nat
          /\ DecoderSteps' <= DecoderSteps /\ FilterSteps' <= FilterSteps
          /\ UpdaterSteps' <= UpdaterSteps
          /\ \/ DecoderSteps' < DecoderSteps \/ FilterSteps' < FilterSteps
             \/ UpdaterSteps' < UpdaterSteps
      BY <1>n, <2>2
    <3>2. QED
      BY <1>n, <3>1, PartLess
  <2>4. QED
    BY <1>b, <1>n, <2>1, <2>2, <2>3
<1>6. CASE Wait \/ Cancel
  <2>1. UNCHANGED <<feed, pos, pc>>
    BY <1>6 DEF Wait, Cancel
  <2>2. UNCHANGED <<DecoderSteps, FilterSteps, UpdaterSteps>>
    BY <2>1 DEF DecoderSteps, FilterSteps, UpdaterSteps
  <2>3. CallerSteps' = CallerSteps - 1
    <3>1. CASE Wait
      <4>1. ret = "none" /\ ret' # "none" /\ parentDone' = parentDone
        BY <3>1 DEF Wait, IInv, TypeOK, Errors
      <4>2. QED
        BY <4>1 DEF CallerSteps
    <3>2. CASE Cancel
      BY <3>2 DEF Cancel, CallerSteps
    <3>3. QED
      BY <1>6, <3>1, <3>2
  <2>4. QED
    BY <1>a, <2>1, <2>2, <2>3
<1>7. QED
  BY <1>1, <1>2, <1>3, <1>4, <1>5, <1>6 DEF Next, Decoder, Filter, Updater

\* For every feed and batch size: parseProducts ends after at most 3 steps for
\* each item and 10 more.  With NoCircularWait this is what Termination rests on.
THEOREM BoundedWork == Spec => EndsInTime
<1> DEFINE Bounded == Remaining <= 3 * Len(Items) + 10
<1>1. IInv => Remaining \in Nat
  <2> SUFFICES ASSUME IInv PROVE Remaining \in Nat
    OBVIOUS
  <2>1. /\ Len(Items) \in Nat /\ pos \in 0 .. Len(Items)
        /\ DecoderSteps \in 0 .. 2 /\ FilterSteps \in {0, 1, 3, 4, 6}
        /\ UpdaterSteps \in 0 .. 3 /\ CallerSteps \in 0 .. 2
    BY RemainingTyped
  <2>2. QED
    BY <2>1 DEF Remaining
<1>2. IInv /\ [Next]_vars => [Remaining' < Remaining]_vars
  BY StepsDecrease
<1>3. Init => Bounded
  <2> SUFFICES ASSUME Init PROVE Bounded
    OBVIOUS
  <2>1. /\ pos = 0 /\ Len(Items) \in Nat /\ DecoderSteps = 2 /\ FilterSteps = 4
        /\ UpdaterSteps = 2 /\ CallerSteps = 2
    BY RemainingTyped, InitIInv
       DEF Init, DecoderSteps, FilterSteps, UpdaterSteps, CallerSteps, Goroutines
  <2>2. QED
    BY <2>1 DEF Remaining
<1>4. IInv' => (Remaining \in Nat)'
  BY <1>1, PTL
<1>5. IInv /\ IInv' /\ Bounded /\ [Next]_vars => Bounded'
  <2> SUFFICES ASSUME IInv, IInv', Bounded, [Next]_vars PROVE Bounded'
    OBVIOUS
  <2>1. CASE UNCHANGED vars
    BY <2>1 DEF vars, Remaining, Items, DecoderSteps, FilterSteps, UpdaterSteps, CallerSteps
  <2>2. CASE Next
    <3>1. Len(Items)' = Len(Items)
      BY <2>2 DEF Items, Next, Decoder, Filter, Updater, SendResult, DecodeCancelled,
                  DecodeEnd, DecodeAborted, SendBatch, FilterCancelled, FilterDrained,
                  StoreBatch, StoreFailed, StoreCommitLost, UpdaterDrained, Wait, Cancel, Exit
    <3>2. Remaining' < Remaining /\ Remaining \in Nat
      BY <1>1, <2>2, StepsDecrease
    <3>3. Remaining' \in Nat
      BY <1>4
    <3>4. 3 * Len(Items) + 10 \in Nat
      BY RemainingTyped
    <3>5. Remaining' <= 3 * Len(Items) + 10
      BY <3>2, <3>3, <3>4
    <3>6. QED
      BY <3>1, <3>5
  <2>3. QED
    BY <2>1, <2>2
<1>6. Spec => [](Remaining \in Nat /\ Bounded)
  BY <1>1, <1>3, <1>5, Invariance, PTL DEF Spec
<1>7. Remaining \in Nat /\ Bounded /\ IInv => Remaining \in 0 .. 3 * Len(Items) + 10
  BY RemainingTyped
<1>8. QED
  BY <1>2, <1>6, <1>7, Invariance, PTL DEF Spec, EndsInTime
=============================================================================
