---------------------------- MODULE FeedProofs ----------------------------
(***************************************************************************)
(* Proofs about Feed, for every set of responses with documents of any     *)
(* length, and every choice of faults.                                     *)
(*                                                                         *)
(* The stack of the xml.Decoder holds names only.  The invariant gives it  *)
(* its meaning: there is a place in the document for every open element    *)
(* and an end tag for every other, so that a stack that is empty at the    *)
(* end is a proof that the document is well-formed.                        *)
(***************************************************************************)
EXTENDS Feed, SequenceTheorems, TLAPS

\* The xml.Decoder has read every element it has open.
StackInv ==
    /\ Len(open) <= pos
    /\ pc \in {"element", "send"} => item # 0

\* Which statuses go with which place in Parse, and what was recorded.
StatusInv ==
    /\ pc \in {"fetch", "loop", "element", "send"} => status = "none"
    /\ pc = "wait" => status \in {"nil", "decode", "ctx"}
    /\ pc = "delete" => status = "nil"
    /\ pc # "done" => row = "unfinished" /\ ret = "none"
    /\ row = "ok" => status = "nil"
    /\ ret = "nil" => row = "ok"

\* Who holds the connection of the body.
BodyInv ==
    /\ status = "fetch" /\ conn = "held" => resp.status = "ok" /\ ~Accepted
    /\ pc = "done" /\ conn = "held" => status = "fetch"

\* A result with an error is the last, and the decoder is broken.
SentInv ==
    \A k \in DOMAIN sent : ~sent[k].ok =>
        k = Len(sent) /\ broken /\ pc \notin {"element", "send"}

\* The decoder returned nil: the document was read to its end, no element is
\* left open, and every result is a product.
EndInv ==
    status \in {"nil", "delete"} =>
        /\ resp.end = "eof" /\ pos = Len(Stream) /\ open = <<>>
        /\ ~broken
        /\ \A k \in DOMAIN sent : sent[k].ok

\* The first p tokens are read, with the elements o open: at[k] is where the k-th
\* of them starts, ends[i] the end tag of the element that starts at i, 0 while it
\* has none.
Nested(doc, p, o, at, ends) ==
    /\ \A k \in DOMAIN o :
          /\ at[k] \in 1 .. p /\ doc[at[k]] = o[k] /\ ends[at[k]] = 0
          /\ \A l \in DOMAIN o : k < l => at[k] < at[l]
    /\ \A i \in StartTags(doc) :
          /\ i <= p => ends[i] # 0 \/ \E k \in DOMAIN o : at[k] = i
          /\ ends[i] # 0 => i < ends[i] /\ ends[i] <= p
          /\ ends[i] # 0 => ends[i] \notin StartTags(doc) /\ doc[ends[i]] = Closing[doc[i]]
    /\ \A i, k \in StartTags(doc) :
          i < k /\ ends[i] # 0 => ends[i] < k \/ (ends[k] # 0 /\ ends[k] < ends[i])
    /\ \A j \in 1 .. p : j \in StartTags(doc) \/ \E i \in StartTags(doc) : ends[i] = j

\* The outermost items that have begun.
Begun(doc, p, ends) ==
    {i \in Items(doc) : /\ i <= p
                       /\ \A k \in Items(doc) : k < i => ends[k] # 0 /\ ends[k] < i}

Places(doc)  == 0 .. Len(doc)
Stacks(doc)  == [Places(doc) -> Places(doc)]
Partial(doc) == [StartTags(doc) -> Places(doc)]

Decoded == {sent[k].at : k \in DOMAIN sent}
NoItemIn(n) == \A k \in 1 .. n : open[k] # "item"

\* The results sent, and the element being decoded, are the outermost items.
OuterInv(at, begun) ==
    /\ (pc \in {"fetch", "loop"} /\ ~broken) \/ status \in {"nil", "delete"} =>
          NoItemIn(Len(open)) /\ begun = Decoded
    /\ pc = "element" =>
          /\ NoItemIn(outer) /\ outer < Len(open)
          /\ open[outer + 1] = "item" /\ at[outer + 1] = item
    /\ pc = "send" /\ ~broken => NoItemIn(Len(open))
    /\ pc \in {"element", "send"} /\ ~broken => begun = Decoded \cup {item}

\* The xml.Decoder has matched what it has read.
NestInv ==
    \E at \in Stacks(Stream), ends \in Partial(Stream) :
        /\ Nested(Stream, pos, open, at, ends)
        /\ OuterInv(at, Begun(Stream, pos, ends))

\* Results are sent in the order of the document.
OrderInv ==
    /\ \A k, l \in DOMAIN sent : k < l => sent[k].at < sent[l].at
    /\ \A k \in DOMAIN sent : sent[k].at <= pos
    /\ pc \in {"element", "send"} => \A k \in DOMAIN sent : sent[k].at < item

\* The inductive invariant.
IInv ==
    /\ TypeOK /\ StackInv /\ StatusInv /\ BodyInv /\ SentInv /\ EndInv
    /\ NestInv /\ OrderInv

-----------------------------------------------------------------------------
(* Steps.                                                                  *)

\* The stream is a sequence of tokens.
LEMMA StreamTyped == TypeOK => Stream \in Seq(Tokens) /\ Len(Stream) \in Nat
<1> SUFFICES ASSUME TypeOK PROVE Stream \in Seq(Tokens) /\ Len(Stream) \in Nat
  OBVIOUS
<1>1. resp.tokens \in Seq(Tokens)
  BY FeedAssumption DEF TypeOK, Response
<1>2. "bad" \in Tokens
  BY DEF Tokens
<1>3. <<"bad">> \in Seq(Tokens)
  BY <1>2
<1>4. Stream \in Seq(Tokens)
  BY <1>1, <1>3 DEF Stream
<1>5. QED
  BY <1>4

\* What reading a token does to the position and the stack.
LEMMA ReadTyped ==
    ASSUME TypeOK, StackInv, CanRead, Read
    PROVE  /\ pos' = pos + 1 /\ pos \in Nat /\ pos' \in 0 .. Len(Stream)
           /\ open' \in Seq(Names) /\ Len(open') <= pos'
           /\ Len(open) \in 0 .. Len(Stream)
<1>1. pos \in Nat /\ pos < Len(Stream) /\ Len(Stream) \in Nat /\ open \in Seq(Names)
  BY StreamTyped DEF TypeOK, CanRead, AtEnd
<1>2. CASE Token \in Names
  BY <1>1, <1>2 DEF Read, StackInv
<1>3. CASE Token \notin Names
  <2>1. open # <<>>
    BY <1>3 DEF CanRead, Fits
  <2>2. open' = SubSeq(open, 1, Len(open) - 1)
    BY <1>3 DEF Read, Front
  <2>3. Len(open) \in Nat /\ Len(open) > 0
    BY <1>1, <2>1
  <2>4. open' \in Seq(Names) /\ Len(open') = Len(open) - 1
    <3>1. \A i \in 1 .. Len(open) - 1 : open[i] \in Names
      BY <1>1, <2>3
    <3>2. /\ SubSeq(open, 1, Len(open) - 1) \in Seq(Names)
          /\ Len(SubSeq(open, 1, Len(open) - 1))
               = IF 1 <= Len(open) - 1 THEN (Len(open) - 1) - 1 + 1 ELSE 0
      BY <2>3, <3>1, SubSeqProperties
    <3>3. QED
      BY <2>2, <2>3, <3>2
  <2>5. QED
    BY <1>1, <2>3, <2>4 DEF Read, StackInv
<1>4. QED
  BY <1>2, <1>3

\* Every step keeps the types.
LEMMA TypingStep == IInv /\ [Next]_vars => (TypeOK /\ StackInv)'
<1> SUFFICES ASSUME IInv, [Next]_vars PROVE (TypeOK /\ StackInv)'
  OBVIOUS
<1> USE DEF IInv, decoder, contexts, results, TypeOK, StackInv, Stream
<1>1. CASE RequestFails
  BY <1>1 DEF RequestFails, FetchReturns
<1>2. CASE NotOK
  BY <1>2 DEF NotOK, FetchReturns
<1>3. CASE FetchOk
  BY <1>3 DEF FetchOk, FetchReturns
<1>4. CASE Refused
  BY <1>4 DEF Refused, FetchReturns
<1>5. CASE Skip
  BY <1>5, ReadTyped DEF Skip
<1>6. CASE StartItem
  BY <1>6, ReadTyped DEF StartItem
<1>7. CASE DecodeElement
  BY <1>7, ReadTyped DEF DecodeElement, AfterItem
<1>8. CASE ElementFails
  BY <1>8 DEF ElementFails, TokenFails
<1>9. CASE Send
  BY <1>9 DEF Send, Result
<1>10. CASE SendCancelled
  BY <1>10 DEF SendCancelled, DecodeReturns
<1>11. CASE DecodeEnds
  BY <1>11 DEF DecodeEnds, DecodeReturns, IsEOF, AtEnd
<1>12. CASE DecodeFails
  BY <1>12 DEF DecodeFails, DecodeReturns
<1>13. CASE StoreFails
  BY <1>13 DEF StoreFails
<1>14. CASE ParseEnds
  BY <1>14 DEF ParseEnds
<1>15. CASE DeleteOldProducts
  BY <1>15 DEF DeleteOldProducts
<1>16. CASE FinishRun
  BY <1>16 DEF FinishRun, Return
<1>17. CASE FinishFails
  BY <1>17 DEF FinishFails, Return
<1>18. CASE Expire
  BY <1>18 DEF Expire, Abandon
<1>19. CASE Cancel
  BY <1>19 DEF Cancel, Abandon
<1>20. CASE UNCHANGED vars
  BY <1>20 DEF vars
<1>21. QED
  BY <1>1, <1>2, <1>3, <1>4, <1>5, <1>6, <1>7, <1>8, <1>9, <1>10,
     <1>11, <1>12, <1>13, <1>14, <1>15, <1>16, <1>17, <1>18, <1>19, <1>20
     DEF Next, Fetch, Decode, Finish

\* Every step keeps the statuses in order.
LEMMA StatusStep == IInv /\ [Next]_vars => StatusInv'
<1> SUFFICES ASSUME IInv, [Next]_vars PROVE StatusInv'
  OBVIOUS
<1> USE DEF IInv, decoder, contexts, results, TypeOK, StatusInv
<1>1. CASE RequestFails
  BY <1>1 DEF RequestFails, FetchReturns
<1>2. CASE NotOK
  BY <1>2 DEF NotOK, FetchReturns
<1>3. CASE FetchOk
  BY <1>3 DEF FetchOk, FetchReturns
<1>4. CASE Refused
  BY <1>4 DEF Refused, FetchReturns
<1>5. CASE Skip
  BY <1>5 DEF Skip, Read, CanRead
<1>6. CASE StartItem
  BY <1>6 DEF StartItem, Read, CanRead
<1>7. CASE DecodeElement
  BY <1>7 DEF DecodeElement, Read, CanRead, AfterItem
<1>8. CASE ElementFails
  BY <1>8 DEF ElementFails, TokenFails
<1>9. CASE Send
  BY <1>9 DEF Send, Result
<1>10. CASE SendCancelled
  BY <1>10 DEF SendCancelled, DecodeReturns
<1>11. CASE DecodeEnds
  BY <1>11 DEF DecodeEnds, DecodeReturns, IsEOF, AtEnd
<1>12. CASE DecodeFails
  BY <1>12 DEF DecodeFails, DecodeReturns
<1>13. CASE StoreFails
  BY <1>13 DEF StoreFails
<1>14. CASE ParseEnds
  BY <1>14 DEF ParseEnds
<1>15. CASE DeleteOldProducts
  BY <1>15 DEF DeleteOldProducts
<1>16. CASE FinishRun
  BY <1>16 DEF FinishRun, Return
<1>17. CASE FinishFails
  BY <1>17 DEF FinishFails, Return
<1>18. CASE Expire
  BY <1>18 DEF Expire, Abandon
<1>19. CASE Cancel
  BY <1>19 DEF Cancel, Abandon
<1>20. CASE UNCHANGED vars
  BY <1>20 DEF vars
<1>21. QED
  BY <1>1, <1>2, <1>3, <1>4, <1>5, <1>6, <1>7, <1>8, <1>9, <1>10,
     <1>11, <1>12, <1>13, <1>14, <1>15, <1>16, <1>17, <1>18, <1>19, <1>20
     DEF Next, Fetch, Decode, Finish

\* Every step keeps the bodies in order.
LEMMA BodyStep == IInv /\ [Next]_vars => BodyInv'
<1> SUFFICES ASSUME IInv, [Next]_vars PROVE BodyInv'
  OBVIOUS
<1> USE DEF IInv, decoder, contexts, results, TypeOK, StatusInv, BodyInv, Accepted
<1>1. CASE RequestFails
  BY <1>1 DEF RequestFails, FetchReturns
<1>2. CASE NotOK
  BY <1>2 DEF NotOK, FetchReturns
<1>3. CASE FetchOk
  BY <1>3 DEF FetchOk, FetchReturns
<1>4. CASE Refused
  BY <1>4 DEF Refused, FetchReturns
<1>5. CASE Skip
  BY <1>5 DEF Skip, Read, CanRead
<1>6. CASE StartItem
  BY <1>6 DEF StartItem, Read, CanRead
<1>7. CASE DecodeElement
  BY <1>7 DEF DecodeElement, Read, CanRead, AfterItem
<1>8. CASE ElementFails
  BY <1>8 DEF ElementFails, TokenFails
<1>9. CASE Send
  BY <1>9 DEF Send, Result
<1>10. CASE SendCancelled
  BY <1>10 DEF SendCancelled, DecodeReturns
<1>11. CASE DecodeEnds
  BY <1>11 DEF DecodeEnds, DecodeReturns, IsEOF, AtEnd
<1>12. CASE DecodeFails
  BY <1>12 DEF DecodeFails, DecodeReturns
<1>13. CASE StoreFails
  BY <1>13 DEF StoreFails
<1>14. CASE ParseEnds
  BY <1>14 DEF ParseEnds
<1>15. CASE DeleteOldProducts
  BY <1>15 DEF DeleteOldProducts
<1>16. CASE FinishRun
  BY <1>16 DEF FinishRun, Return
<1>17. CASE FinishFails
  BY <1>17 DEF FinishFails, Return
<1>18. CASE Expire
  BY <1>18 DEF Expire, Abandon
<1>19. CASE Cancel
  BY <1>19 DEF Cancel, Abandon
<1>20. CASE UNCHANGED vars
  BY <1>20 DEF vars
<1>21. QED
  BY <1>1, <1>2, <1>3, <1>4, <1>5, <1>6, <1>7, <1>8, <1>9, <1>10,
     <1>11, <1>12, <1>13, <1>14, <1>15, <1>16, <1>17, <1>18, <1>19, <1>20
     DEF Next, Fetch, Decode, Finish

\* Every step keeps the results in order.
LEMMA SentStep == IInv /\ [Next]_vars => SentInv'
<1> SUFFICES ASSUME IInv, [Next]_vars PROVE SentInv'
  OBVIOUS
<1> USE DEF IInv, decoder, contexts, results, TypeOK, SentInv
<1>1. CASE RequestFails
  BY <1>1 DEF RequestFails, FetchReturns
<1>2. CASE NotOK
  BY <1>2 DEF NotOK, FetchReturns
<1>3. CASE FetchOk
  BY <1>3 DEF FetchOk, FetchReturns
<1>4. CASE Refused
  BY <1>4 DEF Refused, FetchReturns
<1>5. CASE Skip
  BY <1>5 DEF Skip, Read, CanRead
<1>6. CASE StartItem
  BY <1>6 DEF StartItem, Read, CanRead
<1>7. CASE DecodeElement
  BY <1>7 DEF DecodeElement, Read, CanRead, AfterItem
<1>8. CASE ElementFails
  BY <1>8 DEF ElementFails, TokenFails
<1>9. CASE Send
  <2> DEFINE S == [at : 1 .. Len(Stream), ok : BOOLEAN]
  <2>1. sent \in Seq(S) /\ Result \in S
    BY <1>9, StreamTyped DEF Send, Result, StackInv
  <2>2. \A k \in DOMAIN sent : sent[k].ok
    BY <1>9 DEF Send
  <2>3. sent' = Append(sent, Result) /\ broken' = broken /\ pc' = "loop"
    BY <1>9 DEF Send
  <2>4. /\ Len(sent') = Len(sent) + 1 /\ DOMAIN sent' = 1 .. Len(sent) + 1
        /\ DOMAIN sent = 1 .. Len(sent) /\ Len(sent) \in Nat
        /\ \A k \in 1 .. Len(sent) : sent'[k] = sent[k]
        /\ sent'[Len(sent) + 1] = Result
    <3> HIDE DEF S
    <3>1. QED
      BY <2>1, <2>3, AppendProperties
  <2>5. \A k \in DOMAIN sent' : ~sent'[k].ok => k = Len(sent') /\ broken'
    <3>1. ~Result.ok => broken
      BY Zenon DEF Result
    <3>2. ~Result.ok => broken'
      BY <2>3, <3>1
    <3>3. \A k \in DOMAIN sent' : k = Len(sent') \/ (k \in DOMAIN sent /\ sent'[k] = sent[k])
      BY <2>4
    <3>4. sent'[Len(sent')] = Result
      BY <2>4
    <3>5. QED
      BY <2>2, <3>2, <3>3, <3>4, Zenon
  <2>6. QED
    BY <2>3, <2>5
<1>10. CASE SendCancelled
  BY <1>10 DEF SendCancelled, DecodeReturns
<1>11. CASE DecodeEnds
  BY <1>11 DEF DecodeEnds, DecodeReturns, IsEOF, AtEnd
<1>12. CASE DecodeFails
  BY <1>12 DEF DecodeFails, DecodeReturns
<1>13. CASE StoreFails
  BY <1>13 DEF StoreFails
<1>14. CASE ParseEnds
  BY <1>14 DEF ParseEnds
<1>15. CASE DeleteOldProducts
  BY <1>15 DEF DeleteOldProducts
<1>16. CASE FinishRun
  BY <1>16 DEF FinishRun, Return
<1>17. CASE FinishFails
  BY <1>17 DEF FinishFails, Return
<1>18. CASE Expire
  BY <1>18 DEF Expire, Abandon
<1>19. CASE Cancel
  BY <1>19 DEF Cancel, Abandon
<1>20. CASE UNCHANGED vars
  BY <1>20 DEF vars
<1>21. QED
  BY <1>1, <1>2, <1>3, <1>4, <1>5, <1>6, <1>7, <1>8, <1>9, <1>10,
     <1>11, <1>12, <1>13, <1>14, <1>15, <1>16, <1>17, <1>18, <1>19, <1>20
     DEF Next, Fetch, Decode, Finish

\* Every step keeps what a decoder that returned nil has done.
LEMMA EndStep == IInv /\ [Next]_vars => EndInv'
<1> SUFFICES ASSUME IInv, [Next]_vars PROVE EndInv'
  OBVIOUS
<1> USE DEF IInv, decoder, contexts, results, TypeOK, StatusInv, SentInv, EndInv, Stream
<1>1. CASE RequestFails
  BY <1>1 DEF RequestFails, FetchReturns
<1>2. CASE NotOK
  BY <1>2 DEF NotOK, FetchReturns
<1>3. CASE FetchOk
  BY <1>3 DEF FetchOk, FetchReturns
<1>4. CASE Refused
  BY <1>4 DEF Refused, FetchReturns
<1>5. CASE Skip
  BY <1>5 DEF Skip, Read, CanRead
<1>6. CASE StartItem
  BY <1>6 DEF StartItem, Read, CanRead
<1>7. CASE DecodeElement
  BY <1>7 DEF DecodeElement, Read, CanRead, AfterItem
<1>8. CASE ElementFails
  BY <1>8 DEF ElementFails, TokenFails
<1>9. CASE Send
  BY <1>9 DEF Send, Result
<1>10. CASE SendCancelled
  BY <1>10 DEF SendCancelled, DecodeReturns
<1>11. CASE DecodeEnds
  BY <1>11 DEF DecodeEnds, DecodeReturns, IsEOF, AtEnd
<1>12. CASE DecodeFails
  BY <1>12 DEF DecodeFails, DecodeReturns
<1>13. CASE StoreFails
  BY <1>13 DEF StoreFails
<1>14. CASE ParseEnds
  BY <1>14 DEF ParseEnds
<1>15. CASE DeleteOldProducts
  BY <1>15 DEF DeleteOldProducts
<1>16. CASE FinishRun
  BY <1>16 DEF FinishRun, Return
<1>17. CASE FinishFails
  BY <1>17 DEF FinishFails, Return
<1>18. CASE Expire
  BY <1>18 DEF Expire, Abandon
<1>19. CASE Cancel
  BY <1>19 DEF Cancel, Abandon
<1>20. CASE UNCHANGED vars
  BY <1>20 DEF vars
<1>21. QED
  BY <1>1, <1>2, <1>3, <1>4, <1>5, <1>6, <1>7, <1>8, <1>9, <1>10,
     <1>11, <1>12, <1>13, <1>14, <1>15, <1>16, <1>17, <1>18, <1>19, <1>20
     DEF Next, Fetch, Decode, Finish

-----------------------------------------------------------------------------
(* Matching tags.                                                          *)

\* A start tag opens an element, within those that are open.
LEMMA ReadStart ==
    ASSUME NEW doc \in Seq(Tokens), NEW p \in Nat, p < Len(doc), NEW o \in Seq(Names),
           NEW at \in Stacks(doc), NEW ends \in Partial(doc), Len(o) <= p,
           Nested(doc, p, o, at, ends), doc[p + 1] \in Names
    PROVE  LET at2 == [at EXCEPT ![Len(o) + 1] = p + 1]
           IN  at2 \in Stacks(doc) /\ Nested(doc, p + 1, Append(o, doc[p + 1]), at2, ends)
<1> DEFINE at2 == [at EXCEPT ![Len(o) + 1] = p + 1]
           o2  == Append(o, doc[p + 1])
<1>1. Len(doc) \in Nat /\ Len(o) \in Nat /\ DOMAIN o = 1 .. Len(o)
  OBVIOUS
<1>2. at2 \in Stacks(doc) /\ at2[Len(o) + 1] = p + 1 /\ \A k \in DOMAIN o : at2[k] = at[k]
  BY <1>1 DEF Stacks, Places
<1>3. DOMAIN o2 = 1 .. Len(o) + 1 /\ o2[Len(o) + 1] = doc[p + 1] /\ \A k \in DOMAIN o : o2[k] = o[k]
  BY <1>1
<1>4. p + 1 \in StartTags(doc) /\ p + 1 \in Places(doc)
  BY <1>1 DEF StartTags, Places
<1>5. \A i \in StartTags(doc) : i \in Nat /\ ends[i] \in Nat
  BY <1>1 DEF StartTags, Partial, Places
<1>6. ends[p + 1] = 0
  BY <1>4, <1>5 DEF Nested
<1> HIDE DEF at2, o2
<1>7. \A k \in DOMAIN o2 :
          /\ at2[k] \in 1 .. p + 1 /\ doc[at2[k]] = o2[k] /\ ends[at2[k]] = 0
          /\ \A l \in DOMAIN o2 : k < l => at2[k] < at2[l]
  <2>1. \A k \in DOMAIN o2 : k = Len(o) + 1 \/ (k \in DOMAIN o /\ k < Len(o) + 1)
    BY <1>1, <1>3
  <2>2. \A k \in DOMAIN o : at[k] \in 1 .. p /\ doc[at[k]] = o[k] /\ ends[at[k]] = 0
    BY DEF Nested
  <2>3. \A k \in DOMAIN o2 : at2[k] \in 1 .. p + 1 /\ doc[at2[k]] = o2[k] /\ ends[at2[k]] = 0
    BY <1>2, <1>3, <1>6, <2>1, <2>2
  <2>4. ASSUME NEW k \in DOMAIN o2, NEW l \in DOMAIN o2, k < l PROVE at2[k] < at2[l]
    <3>1. k \in DOMAIN o /\ at2[k] = at[k] /\ at[k] \in 1 .. p
      BY <1>1, <1>2, <1>3, <2>1, <2>2, <2>4
    <3>2. CASE l \in DOMAIN o
      BY <1>2, <2>4, <3>1, <3>2 DEF Nested
    <3>3. CASE l = Len(o) + 1
      BY <1>2, <3>1, <3>3
    <3>4. QED
      BY <2>1, <3>2, <3>3
  <2>5. QED
    BY <2>3, <2>4
<1>8. \A i \in StartTags(doc) :
          /\ i <= p + 1 => ends[i] # 0 \/ \E k \in DOMAIN o2 : at2[k] = i
          /\ ends[i] # 0 => i < ends[i] /\ ends[i] <= p + 1
          /\ ends[i] # 0 => ends[i] \notin StartTags(doc) /\ doc[ends[i]] = Closing[doc[i]]
  <2> SUFFICES ASSUME NEW i \in StartTags(doc)
               PROVE  /\ i <= p + 1 => ends[i] # 0 \/ \E k \in DOMAIN o2 : at2[k] = i
                      /\ ends[i] # 0 => i < ends[i] /\ ends[i] <= p + 1
                      /\ ends[i] # 0 =>
                            ends[i] \notin StartTags(doc) /\ doc[ends[i]] = Closing[doc[i]]
    OBVIOUS
  <2>1. ends[i] # 0 => i < ends[i] /\ ends[i] <= p + 1
    BY <1>5 DEF Nested
  <2>2. ends[i] # 0 => ends[i] \notin StartTags(doc) /\ doc[ends[i]] = Closing[doc[i]]
    BY DEF Nested
  <2>3. ASSUME i <= p, ends[i] = 0 PROVE \E k \in DOMAIN o2 : at2[k] = i
    <3>1. PICK k \in DOMAIN o : at[k] = i
      BY <2>3 DEF Nested
    <3>2. k \in DOMAIN o2 /\ at2[k] = i
      BY <1>1, <1>2, <1>3, <3>1
    <3>3. QED
      BY <3>2
  <2>4. ASSUME i = p + 1 PROVE \E k \in DOMAIN o2 : at2[k] = i
    <3>1. Len(o) + 1 \in DOMAIN o2 /\ at2[Len(o) + 1] = i
      BY <1>1, <1>2, <1>3, <2>4
    <3>2. QED
      BY <3>1
  <2>5. QED
    BY <1>5, <2>1, <2>2, <2>3, <2>4
<1>9. \A j \in 1 .. p + 1 : j \in StartTags(doc) \/ \E i \in StartTags(doc) : ends[i] = j
  BY <1>4 DEF Nested
<1>10. Nested(doc, p + 1, o2, at2, ends)
  BY <1>7, <1>8, <1>9 DEF Nested
<1>11. QED
  BY <1>2, <1>10 DEF at2, o2

\* The end tag of the innermost open element closes it.
LEMMA ReadEnd ==
    ASSUME NEW doc \in Seq(Tokens), NEW p \in Nat, p < Len(doc), NEW o \in Seq(Names),
           NEW at \in Stacks(doc), NEW ends \in Partial(doc), o # <<>>,
           Nested(doc, p, o, at, ends), doc[p + 1] = Closing[o[Len(o)]]
    PROVE  LET ends2 == [ends EXCEPT ![at[Len(o)]] = p + 1]
           IN  ends2 \in Partial(doc) /\ Nested(doc, p + 1, SubSeq(o, 1, Len(o) - 1), at, ends2)
<1> DEFINE top   == at[Len(o)]
           ends2 == [ends EXCEPT ![top] = p + 1]
           o2    == SubSeq(o, 1, Len(o) - 1)
<1>1. /\ Len(doc) \in Nat /\ Len(o) \in Nat /\ Len(o) > 0
      /\ DOMAIN o = 1 .. Len(o) /\ o[Len(o)] \in Names /\ DOMAIN doc = 1 .. Len(doc)
  OBVIOUS
<1>2. DOMAIN o2 = 1 .. Len(o) - 1 /\ \A k \in DOMAIN o2 : o2[k] = o[k] /\ k \in DOMAIN o
  BY <1>1
<1>3. top \in 1 .. p /\ doc[top] = o[Len(o)] /\ ends[top] = 0 /\ top \in StartTags(doc)
  BY <1>1 DEF Nested, StartTags
<1>4. p + 1 \notin StartTags(doc)
  BY <1>1 DEF StartTags, Closing, Names
<1>5. \A i \in StartTags(doc) : i \in Nat /\ ends[i] \in Nat
  BY <1>1 DEF StartTags, Partial, Places
<1>6. /\ ends2 \in Partial(doc) /\ ends2[top] = p + 1
      /\ \A i \in StartTags(doc) : i # top => ends2[i] = ends[i]
  BY <1>1, <1>3 DEF Partial, Places
<1> HIDE DEF top, ends2, o2
<1>7. \A k \in DOMAIN o2 : at[k] \in Nat /\ at[k] < top
  <2> SUFFICES ASSUME NEW k \in DOMAIN o2 PROVE at[k] \in Nat /\ at[k] < top
    OBVIOUS
  <2>1. k \in DOMAIN o /\ Len(o) \in DOMAIN o /\ k < Len(o)
    BY <1>1, <1>2
  <2>2. QED
    BY <2>1 DEF Nested, top
<1>8. \A k \in DOMAIN o2 :
          /\ at[k] \in 1 .. p + 1 /\ doc[at[k]] = o2[k] /\ ends2[at[k]] = 0
          /\ \A l \in DOMAIN o2 : k < l => at[k] < at[l]
  <2> SUFFICES ASSUME NEW k \in DOMAIN o2
               PROVE  /\ at[k] \in 1 .. p + 1 /\ doc[at[k]] = o2[k] /\ ends2[at[k]] = 0
                      /\ \A l \in DOMAIN o2 : k < l => at[k] < at[l]
    OBVIOUS
  <2>1. at[k] \in 1 .. p /\ doc[at[k]] = o[k] /\ ends[at[k]] = 0 /\ o[k] \in Names
    BY <1>2 DEF Nested
  <2>2. at[k] \in StartTags(doc) /\ at[k] # top
    BY <1>1, <1>3, <1>7, <2>1 DEF StartTags
  <2>3. QED
    BY <1>2, <1>6, <2>1, <2>2 DEF Nested
<1>9. \A i \in StartTags(doc) :
          /\ i <= p + 1 => ends2[i] # 0 \/ \E k \in DOMAIN o2 : at[k] = i
          /\ ends2[i] # 0 => i < ends2[i] /\ ends2[i] <= p + 1
          /\ ends2[i] # 0 => ends2[i] \notin StartTags(doc) /\ doc[ends2[i]] = Closing[doc[i]]
  <2> SUFFICES ASSUME NEW i \in StartTags(doc)
               PROVE  /\ i <= p + 1 => ends2[i] # 0 \/ \E k \in DOMAIN o2 : at[k] = i
                      /\ ends2[i] # 0 => i < ends2[i] /\ ends2[i] <= p + 1
                      /\ ends2[i] # 0 =>
                            ends2[i] \notin StartTags(doc) /\ doc[ends2[i]] = Closing[doc[i]]
    OBVIOUS
  <2>1. CASE i = top
    BY <1>3, <1>4, <1>6, <2>1
  <2>2. CASE i # top
    <3>1. ends2[i] = ends[i]
      BY <1>6, <2>2
    <3>2. i <= p => ends[i] # 0 \/ \E k \in DOMAIN o2 : at[k] = i
      BY <1>1, <1>2, <2>2 DEF Nested, top
    <3>3. i # p + 1
      BY <1>4
    <3>4. QED
      BY <1>5, <3>1, <3>2, <3>3 DEF Nested
  <2>3. QED
    BY <2>1, <2>2
<1>10. \A i, k \in StartTags(doc) :
          i < k /\ ends2[i] # 0 => ends2[i] < k \/ (ends2[k] # 0 /\ ends2[k] < ends2[i])
  <2> SUFFICES ASSUME NEW i \in StartTags(doc), NEW k \in StartTags(doc), i < k, ends2[i] # 0
               PROVE  ends2[i] < k \/ (ends2[k] # 0 /\ ends2[k] < ends2[i])
    OBVIOUS
  <2>1. CASE i = top
    <3>1. ends2[i] = p + 1 /\ ends2[k] = ends[k]
      BY <1>5, <1>6, <2>1
    <3>2. CASE k <= p
      <4>1. ends[k] # 0
        <5>1. SUFFICES ASSUME NEW l \in DOMAIN o, at[l] = k PROVE FALSE
          BY <3>2 DEF Nested
        <5>2. l = Len(o) \/ at[l] < top
          BY <1>1, <5>1 DEF Nested, top
        <5>3. QED
          BY <1>3, <1>5, <2>1, <5>1, <5>2 DEF top
      <4>2. QED
        BY <1>5, <3>1, <4>1 DEF Nested
    <3>3. CASE p < k
      BY <1>4, <1>5, <3>1, <3>3
    <3>4. QED
      BY <1>5, <3>2, <3>3
  <2>2. CASE i # top /\ k = top
    <3>1. ends2[i] = ends[i] /\ ends[i] < k
      BY <1>3, <1>6, <2>2 DEF Nested
    <3>2. QED
      BY <3>1
  <2>3. CASE i # top /\ k # top
    BY <1>6, <2>3 DEF Nested
  <2>4. QED
    BY <2>1, <2>2, <2>3
<1>11. \A j \in 1 .. p + 1 : j \in StartTags(doc) \/ \E i \in StartTags(doc) : ends2[i] = j
  <2> SUFFICES ASSUME NEW j \in 1 .. p + 1, j \notin StartTags(doc)
               PROVE  \E i \in StartTags(doc) : ends2[i] = j
    OBVIOUS
  <2>1. CASE j = p + 1
    BY <1>3, <1>6, <2>1
  <2>2. CASE j \in 1 .. p
    <3>1. PICK i \in StartTags(doc) : ends[i] = j
      BY <2>2 DEF Nested
    <3>2. i # top
      BY <1>3, <2>2, <3>1
    <3>3. QED
      BY <1>6, <3>1, <3>2
  <2>3. QED
    BY <2>1, <2>2
<1>12. Nested(doc, p + 1, o2, at, ends2)
  BY <1>8, <1>9, <1>10, <1>11 DEF Nested
<1>13. QED
  BY <1>6, <1>12 DEF top, ends2, o2

\* An end tag begins no item, and what began before the element it closes, or in
\* it, stays outermost or not.
LEMMA BegunEnd ==
    ASSUME NEW doc \in Seq(Tokens), NEW p \in Nat, p < Len(doc), NEW o \in Seq(Names),
           NEW at \in Stacks(doc), NEW ends \in Partial(doc), o # <<>>,
           Nested(doc, p, o, at, ends), doc[p + 1] \notin Names
    PROVE  Begun(doc, p + 1, [ends EXCEPT ![at[Len(o)]] = p + 1]) = Begun(doc, p, ends)
<1> DEFINE top   == at[Len(o)]
           ends2 == [ends EXCEPT ![top] = p + 1]
<1>1. /\ Len(doc) \in Nat /\ Len(o) \in Nat /\ Len(o) > 0 /\ DOMAIN doc = 1 .. Len(doc)
      /\ DOMAIN o = 1 .. Len(o)
  OBVIOUS
<1>2. top \in 1 .. p /\ ends[top] = 0
  BY <1>1 DEF Nested
<1>3. \A i \in Items(doc) : i \in Nat /\ i \in StartTags(doc) /\ i # p + 1
  BY <1>1 DEF Items, StartTags, Names
<1>4. \A k \in Items(doc) : ends2[k] = IF k = top THEN p + 1 ELSE ends[k]
  BY <1>3 DEF Partial
<1> HIDE DEF top, ends2
<1>5. \A i, k \in Items(doc) :
          i <= p => ((ends2[k] # 0 /\ ends2[k] < i) <=> (ends[k] # 0 /\ ends[k] < i))
  BY <1>2, <1>3, <1>4
<1>6. Begun(doc, p + 1, ends2) = Begun(doc, p, ends)
  BY <1>3, <1>5 DEF Begun
<1>7. QED
  BY <1>6 DEF top, ends2

\* A start tag begins an outermost item if it is an item and no item is open.
LEMMA BegunStart ==
    ASSUME NEW doc \in Seq(Tokens), NEW p \in Nat, p < Len(doc), NEW o \in Seq(Names),
           NEW at \in Stacks(doc), NEW ends \in Partial(doc),
           Nested(doc, p, o, at, ends)
    PROVE  Begun(doc, p + 1, ends) =
               IF doc[p + 1] = "item" /\ \A k \in DOMAIN o : o[k] # "item"
               THEN Begun(doc, p, ends) \cup {p + 1} ELSE Begun(doc, p, ends)
<1>1. /\ Len(doc) \in Nat /\ DOMAIN doc = 1 .. Len(doc) /\ p + 1 \in DOMAIN doc
  OBVIOUS
<1>2. \A i \in Items(doc) : i \in Nat /\ i \in StartTags(doc) /\ ends[i] \in Nat
  BY <1>1 DEF Items, StartTags, Names, Partial, Places
<1>3. (\A k \in DOMAIN o : o[k] # "item") <=>
          \A k \in Items(doc) : k < p + 1 => ends[k] # 0 /\ ends[k] < p + 1
  <2>1. ASSUME \A k \in DOMAIN o : o[k] # "item", NEW k \in Items(doc), k < p + 1
        PROVE  ends[k] # 0 /\ ends[k] < p + 1
    <3>1. \A l \in DOMAIN o : at[l] # k
      BY <2>1 DEF Nested, Items
    <3>2. QED
      BY <1>2, <2>1, <3>1 DEF Nested
  <2>2. ASSUME NEW k \in DOMAIN o, o[k] = "item"
        PROVE  at[k] \in Items(doc) /\ at[k] < p + 1 /\ ends[at[k]] = 0
    BY <1>1, <2>2 DEF Nested, Items
  <2>3. QED
    BY <2>1, <2>2
<1>4. p + 1 \in Items(doc) <=> doc[p + 1] = "item"
  BY <1>1 DEF Items
<1>5. \A i \in Items(doc) : i <= p + 1 <=> (i <= p \/ i = p + 1)
  BY <1>2
<1>6. \A i : i \in Begun(doc, p + 1, ends) <=>
          \/ i \in Begun(doc, p, ends)
          \/ i = p + 1 /\ doc[p + 1] = "item" /\ \A k \in DOMAIN o : o[k] # "item"
  BY <1>3, <1>4, <1>5 DEF Begun
<1> DEFINE new == doc[p + 1] = "item" /\ \A k \in DOMAIN o : o[k] # "item"
           now == Begun(doc, p + 1, ends)
           old == Begun(doc, p, ends)
<1>7. \A i : i \in now <=> (i \in old \/ (i = p + 1 /\ new))
  BY <1>6, Zenon
<1> HIDE DEF new, now, old
<1>8. now = IF new THEN old \cup {p + 1} ELSE old
  BY <1>7
<1>9. QED
  BY <1>8 DEF new, now, old

\* When all is read and nothing is open, the document is well-formed.
LEMMA ReadAll ==
    ASSUME NEW doc \in Seq(Tokens), NEW at \in Stacks(doc), NEW ends \in Partial(doc),
           Nested(doc, Len(doc), <<>>, at, ends)
    PROVE  ends \in Nestings(doc) /\ Begun(doc, Len(doc), ends) = ProductsOf(doc, ends)
<1>1. Len(doc) \in Nat /\ DOMAIN doc = 1 .. Len(doc)
  OBVIOUS
<1>2. \A i \in StartTags(doc) : i \in 1 .. Len(doc) /\ ends[i] \in Nat /\ ends[i] # 0
  BY <1>1 DEF Nested, StartTags, Partial, Places
<1>3. \A i \in StartTags(doc) :
          ends[i] \in DOMAIN doc \ StartTags(doc) /\ i < ends[i] /\ doc[ends[i]] = Closing[doc[i]]
  BY <1>1, <1>2 DEF Nested
<1>4. ends \in [StartTags(doc) -> DOMAIN doc \ StartTags(doc)]
  BY <1>3 DEF Partial
<1>5. \A i, k \in StartTags(doc) : i < k => ends[i] < k \/ ends[k] < ends[i]
  BY <1>2 DEF Nested
<1>6. \A j \in DOMAIN doc \ StartTags(doc) : \E i \in StartTags(doc) : ends[i] = j
  BY <1>1 DEF Nested
<1>7. \A i \in Items(doc) : i \in StartTags(doc)
  BY DEF Items, StartTags, Names
<1>8. Begun(doc, Len(doc), ends) = ProductsOf(doc, ends)
  BY <1>2, <1>7 DEF Begun, ProductsOf
<1>9. QED
  BY <1>3, <1>4, <1>5, <1>6, <1>8 DEF Nestings

\* Reading a token keeps the matching, whatever the token.
LEMMA ReadNested ==
    ASSUME TypeOK, StackInv, CanRead, Read,
           NEW at \in Stacks(Stream), NEW ends \in Partial(Stream),
           Nested(Stream, pos, open, at, ends)
    PROVE  \E at2 \in Stacks(Stream), ends2 \in Partial(Stream) :
               /\ Nested(Stream, pos + 1, open', at2, ends2)
               /\ Begun(Stream, pos + 1, ends2) =
                     IF Token = "item" /\ NoItemIn(Len(open))
                     THEN Begun(Stream, pos, ends) \cup {pos + 1}
                     ELSE Begun(Stream, pos, ends)
               /\ \A k \in 1 .. Len(open) : at2[k] = at[k]
               /\ Token \in Names => at2[Len(open) + 1] = pos + 1
<1>1. Stream \in Seq(Tokens) /\ pos \in Nat /\ pos < Len(Stream) /\ open \in Seq(Names)
  BY StreamTyped DEF TypeOK, CanRead, AtEnd
<1>2. DOMAIN open = 1 .. Len(open) /\ Len(open) \in Nat /\ Len(open) <= pos
  BY <1>1 DEF StackInv
<1>3. CASE Token \in Names
  <2> DEFINE at2 == [at EXCEPT ![Len(open) + 1] = pos + 1]
  <2>1. open' = Append(open, Stream[pos + 1]) /\ Stream[pos + 1] \in Names
    BY <1>3 DEF Read, Token
  <2>2. at2 \in Stacks(Stream) /\ Nested(Stream, pos + 1, open', at2, ends)
    BY <1>1, <1>2, <2>1, ReadStart
  <2>3. Begun(Stream, pos + 1, ends) =
            IF Token = "item" /\ NoItemIn(Len(open))
            THEN Begun(Stream, pos, ends) \cup {pos + 1} ELSE Begun(Stream, pos, ends)
    BY <1>1, <1>2, BegunStart DEF Token, NoItemIn
  <2>4. at2[Len(open) + 1] = pos + 1 /\ \A k \in 1 .. Len(open) : at2[k] = at[k]
    BY <1>1, <1>2 DEF Stacks, Places
  <2> HIDE DEF at2
  <2>5. QED
    BY <2>2, <2>3, <2>4
<1>4. CASE Token \notin Names
  <2> DEFINE ends2 == [ends EXCEPT ![at[Len(open)]] = pos + 1]
  <2>1. open # <<>> /\ Stream[pos + 1] = Closing[open[Len(open)]]
    BY <1>4 DEF CanRead, Fits, Token, Last
  <2>2. open' = SubSeq(open, 1, Len(open) - 1)
    BY <1>4 DEF Read, Front
  <2>3. ends2 \in Partial(Stream) /\ Nested(Stream, pos + 1, open', at, ends2)
    BY <1>1, <2>1, <2>2, ReadEnd
  <2>4. Begun(Stream, pos + 1, ends2) = Begun(Stream, pos, ends)
    BY <1>1, <1>4, <2>1, BegunEnd DEF Token
  <2>5. Token # "item"
    BY <1>4 DEF Names
  <2> HIDE DEF ends2
  <2>6. QED
    BY <1>4, <2>3, <2>4, <2>5
<1>5. QED
  BY <1>3, <1>4

\* What reading does to the stack.
LEMMA ReadOpen ==
    ASSUME TypeOK, CanRead, Read
    PROVE  /\ Len(open) \in Nat
           /\ Token \in Names =>
                 /\ Len(open') = Len(open) + 1 /\ open'[Len(open) + 1] = Token
                 /\ \A k \in 1 .. Len(open) : open'[k] = open[k]
           /\ Token \notin Names =>
                 /\ Len(open) > 0 /\ Len(open') = Len(open) - 1
                 /\ \A k \in 1 .. Len(open) - 1 : open'[k] = open[k]
<1>1. open \in Seq(Names) /\ Len(open) \in Nat
  BY DEF TypeOK
<1>2. CASE Token \in Names
  BY <1>1, <1>2 DEF Read
<1>3. CASE Token \notin Names
  <2>1. open # <<>>
    BY <1>3 DEF CanRead, Fits
  <2>2. PICK n \in Nat : Len(open) = n + 1
    <3>1. Len(open) > 0 /\ Len(open) - 1 \in Nat /\ Len(open) = (Len(open) - 1) + 1
      BY <1>1, <2>1
    <3>2. QED
      BY <3>1
  <2>3. open' = SubSeq(open, 1, n)
    BY <1>3, <2>2 DEF Read, Front
  <2>4. \A k \in 1 .. n : open[k] \in Names
    BY <1>1, <2>2
  <2>5. /\ Len(open') = IF 1 <= n THEN n - 1 + 1 ELSE 0
        /\ \A k \in 1 .. n - 1 + 1 : open'[k] = open[1 + k - 1]
    BY <2>3, <2>4, SubSeqProperties
  <2>6. Len(open') = n
    BY <2>5
  <2>7. \A k \in 1 .. n : open'[k] = open[k]
    <3>1. \A k \in 1 .. n : 1 + k - 1 = k /\ k \in 1 .. n - 1 + 1
      OBVIOUS
    <3>2. QED
      BY <2>5, <3>1
  <2>8. QED
    BY <1>1, <1>3, <2>2, <2>6, <2>7
<1>4. QED
  BY <1>1, <1>2, <1>3

\* A step that reads nothing keeps the matching.
LEMMA NestFrame ==
    ASSUME NestInv, UNCHANGED <<resp, pos, open, item, outer, sent>>,
           (pc' \in {"fetch", "loop"} /\ ~broken') \/ status' \in {"nil", "delete"} =>
               (pc \in {"fetch", "loop"} /\ ~broken) \/ status \in {"nil", "delete"},
           pc' = "element" => pc = "element",
           pc' = "send" /\ ~broken' => pc = "send",
           pc' \in {"element", "send"} /\ ~broken' => pc \in {"element", "send"} /\ ~broken
    PROVE  NestInv'
<1>1. PICK at \in Stacks(Stream), ends \in Partial(Stream) :
          Nested(Stream, pos, open, at, ends) /\ OuterInv(at, Begun(Stream, pos, ends))
  BY DEF NestInv
<1> DEFINE begun == Begun(Stream, pos, ends)
<1>2. Stream' = Stream
  BY DEF Stream
<1>3. Nested(Stream', pos', open', at, ends) /\ Begun(Stream', pos', ends) = begun
  BY <1>1, <1>2
<1>4. \A b : OuterInv(at, b) /\ (pc' = "send" /\ ~broken' => ~broken) => OuterInv(at, b)'
  BY DEF OuterInv, NoItemIn, Decoded
<1>5. OuterInv(at, begun)
  BY <1>1
<1>6. QED
  BY <1>1, <1>2, <1>3, <1>4 DEF NestInv

\* Every step keeps the matching, and the outermost items.
LEMMA NestStep == IInv /\ [Next]_vars => NestInv'
<1> SUFFICES ASSUME IInv, [Next]_vars PROVE NestInv'
  OBVIOUS
<1> USE DEF IInv, decoder, contexts, results, StatusInv
<1>1. CASE Fetch
  BY <1>1, NestFrame DEF Fetch, RequestFails, NotOK, FetchOk, Refused, FetchReturns
<1>2. CASE Skip \/ StartItem \/ DecodeElement
  <2>1. CanRead /\ Read /\ resp' = resp /\ sent' = sent /\ broken' = broken /\ ~broken
    BY <1>2 DEF Skip, StartItem, DecodeElement, CanRead
  <2>2. Stream' = Stream /\ pos' = pos + 1 /\ Decoded' = Decoded
    BY <2>1 DEF Stream, Read, Decoded
  <2>3. status' = status /\ status = "none"
    BY <1>2 DEF Skip, StartItem, DecodeElement
  <2>4. PICK at \in Stacks(Stream), ends \in Partial(Stream) :
            Nested(Stream, pos, open, at, ends) /\ OuterInv(at, Begun(Stream, pos, ends))
    BY DEF NestInv
  <2>5. PICK at2 \in Stacks(Stream), ends2 \in Partial(Stream) :
            /\ Nested(Stream, pos + 1, open', at2, ends2)
            /\ Begun(Stream, pos + 1, ends2) =
                  IF Token = "item" /\ NoItemIn(Len(open))
                  THEN Begun(Stream, pos, ends) \cup {pos + 1}
                  ELSE Begun(Stream, pos, ends)
            /\ \A k \in 1 .. Len(open) : at2[k] = at[k]
            /\ Token \in Names => at2[Len(open) + 1] = pos + 1
    BY <2>1, <2>4, ReadNested
  <2>6. PICK begun : begun = Begun(Stream, pos, ends) /\ OuterInv(at, begun)
    BY <2>4
  <2>7. PICK begun2 : /\ begun2 = Begun(Stream, pos + 1, ends2)
                      /\ begun2 = IF Token = "item" /\ NoItemIn(Len(open))
                                  THEN begun \cup {pos + 1} ELSE begun
    BY <2>5, <2>6
  <2>8. ASSUME OuterInv(at2, begun2)' PROVE NestInv'
    <3>1. Nested(Stream', pos', open', at2, ends2) /\ Begun(Stream', pos', ends2) = begun2
      BY <2>2, <2>5, <2>7
    <3>2. at2 \in Stacks(Stream') /\ ends2 \in Partial(Stream')
      BY <2>2
    <3>3. QED
      BY <2>8, <3>1, <3>2 DEF NestInv
  <2>9. CASE Skip
    <3>1. pc = "loop" /\ pc' = "loop" /\ Token # "item"
      BY <2>9 DEF Skip
    <3>2. NoItemIn(Len(open)) /\ begun = Decoded /\ begun2 = begun
      BY <2>1, <2>6, <2>7, <3>1 DEF OuterInv
    <3>3. NoItemIn(Len(open))'
      BY <2>1, <3>1, <3>2, ReadOpen DEF NoItemIn
    <3>4. OuterInv(at2, begun2)'
      BY <2>2, <3>1, <3>2, <3>3 DEF OuterInv
    <3>5. QED
      BY <2>8, <3>4
  <2>10. CASE StartItem
    <3>1. /\ pc = "loop" /\ pc' = "element" /\ Token = "item" /\ Token \in Names
          /\ outer' = Len(open) /\ item' = pos + 1
      BY <2>10 DEF StartItem, Names
    <3>2. NoItemIn(Len(open)) /\ begun2 = Decoded \cup {pos + 1}
      BY <2>1, <2>6, <2>7, <3>1 DEF OuterInv
    <3>3. NoItemIn(outer)' /\ outer' < Len(open') /\ open'[outer' + 1] = "item"
      BY <2>1, <3>1, <3>2, ReadOpen DEF NoItemIn
    <3>4. at2[outer' + 1] = item'
      BY <2>5, <3>1
    <3>5. OuterInv(at2, begun2)'
      BY <2>2, <2>3, <3>1, <3>2, <3>3, <3>4 DEF OuterInv
    <3>6. QED
      BY <2>8, <3>5
  <2>11. CASE DecodeElement
    <3>1. /\ pc = "element" /\ pc' = IF Len(open') = outer THEN "send" ELSE "element"
          /\ outer' = outer /\ item' = item
      BY <2>11 DEF DecodeElement, AfterItem
    <3>2. /\ NoItemIn(outer) /\ outer < Len(open) /\ open[outer + 1] = "item"
          /\ at[outer + 1] = item /\ begun = Decoded \cup {item}
      BY <2>1, <2>6, <3>1 DEF OuterInv
    <3>3. outer \in Nat /\ Len(open) \in Nat
      BY StreamTyped DEF TypeOK
    <3>4. begun2 = begun
      BY <2>7, <3>2, <3>3 DEF NoItemIn
    <3>5. /\ Len(open') \in Nat /\ outer <= Len(open')
          /\ \A k \in 1 .. outer : open'[k] = open[k]
          /\ outer < Len(open') => open'[outer + 1] = "item" /\ at2[outer + 1] = item
      BY <2>1, <2>5, <3>2, <3>3, ReadOpen
    <3>6. NoItemIn(outer)'
      BY <3>1, <3>2, <3>5 DEF NoItemIn
    <3>7. pc' = "send" => NoItemIn(Len(open))'
      BY <3>1, <3>2, <3>5 DEF NoItemIn
    <3>8. pc' = "element" =>
              outer' < Len(open') /\ open'[outer' + 1] = "item" /\ at2[outer' + 1] = item'
      BY <3>1, <3>3, <3>5
    <3>9. OuterInv(at2, begun2)'
      BY <2>2, <2>3, <3>1, <3>2, <3>4, <3>6, <3>7, <3>8 DEF OuterInv
    <3>10. QED
      BY <2>8, <3>9
  <2>12. QED
    BY <1>2, <2>9, <2>10, <2>11
<1>3. CASE ElementFails
  BY <1>3, NestFrame DEF ElementFails
<1>4. CASE Send
  <2>1. PICK at \in Stacks(Stream), ends \in Partial(Stream) :
            Nested(Stream, pos, open, at, ends) /\ OuterInv(at, Begun(Stream, pos, ends))
    BY DEF NestInv
  <2>2. Stream' = Stream /\ pos' = pos /\ open' = open /\ broken' = broken
    BY <1>4 DEF Send, Stream
  <2>3. Decoded' = Decoded \cup {item}
    <3> DEFINE S == [at : 1 .. Len(Stream), ok : BOOLEAN]
    <3>1. sent \in Seq(S) /\ Result \in S /\ Result.at = item /\ sent' = Append(sent, Result)
      BY <1>4, StreamTyped DEF Send, Result, StackInv, TypeOK
    <3> HIDE DEF S
    <3>2. /\ DOMAIN sent' = 1 .. Len(sent) + 1 /\ DOMAIN sent = 1 .. Len(sent) /\ Len(sent) \in Nat
          /\ \A k \in 1 .. Len(sent) : sent'[k] = sent[k]
          /\ sent'[Len(sent) + 1] = Result
      BY <3>1, AppendProperties
    <3>3. \A k \in DOMAIN sent' : k \in DOMAIN sent \/ k = Len(sent) + 1
      BY <3>2
    <3>4. QED
      BY <3>1, <3>2, <3>3 DEF Decoded
  <2>4. PICK begun : begun = Begun(Stream, pos, ends) /\ OuterInv(at, begun)
    BY <2>1
  <2>5. ~broken => NoItemIn(Len(open)) /\ begun = Decoded \cup {item}
    BY <1>4, <2>4 DEF OuterInv, Send
  <2>6. OuterInv(at, begun)'
    BY <1>4, <2>2, <2>3, <2>5 DEF OuterInv, NoItemIn, Send
  <2>7. Nested(Stream', pos', open', at, ends) /\ Begun(Stream', pos', ends) = begun
    BY <2>1, <2>2, <2>4
  <2>8. QED
    BY <2>1, <2>2, <2>6, <2>7 DEF NestInv
<1>5. CASE SendCancelled
  BY <1>5, NestFrame DEF SendCancelled, DecodeReturns
<1>6. CASE DecodeEnds
  BY <1>6, NestFrame DEF DecodeEnds, DecodeReturns, IsEOF
<1>7. CASE DecodeFails
  BY <1>7, NestFrame DEF DecodeFails, DecodeReturns
<1>8. CASE StoreFails
  BY <1>8, NestFrame DEF StoreFails
<1>9. CASE ParseEnds
  BY <1>9, NestFrame DEF ParseEnds
<1>10. CASE DeleteOldProducts
  BY <1>10, NestFrame DEF DeleteOldProducts
<1>11. CASE FinishRun \/ FinishFails
  BY <1>11, NestFrame DEF FinishRun, FinishFails, Return
<1>12. CASE Expire \/ Cancel
  BY <1>12, NestFrame DEF Expire, Cancel, Abandon
<1>13. CASE UNCHANGED vars
  BY <1>13, NestFrame DEF vars
<1>14. QED
  BY <1>1, <1>2, <1>3, <1>4, <1>5, <1>6, <1>7, <1>8, <1>9, <1>10, <1>11, <1>12, <1>13
     DEF Next, Decode, Finish

\* Every step keeps the results in the order of the document.
LEMMA OrderStep == IInv /\ [Next]_vars => OrderInv'
<1> SUFFICES ASSUME IInv, [Next]_vars PROVE OrderInv'
  OBVIOUS
<1>1. /\ pos \in Nat /\ item \in Nat /\ item <= pos
      /\ \A k \in DOMAIN sent : sent[k].at \in Nat
  <2>1. TypeOK /\ Len(Stream) \in Nat
    BY StreamTyped DEF IInv
  <2>2. pos \in Nat /\ item \in Nat /\ item <= pos
    BY <2>1 DEF TypeOK
  <2> DEFINE S == [at : 1 .. Len(Stream), ok : BOOLEAN]
  <2>3. sent \in Seq(S)
    BY <2>1 DEF TypeOK
  <2>4. \A r \in S : r.at \in Nat
    BY <2>1
  <2> HIDE DEF S
  <2>5. \A k \in DOMAIN sent : sent[k] \in S
    BY <2>3
  <2>6. QED
    BY <2>2, <2>4, <2>5
<1>2. ASSUME sent' = sent, pos' \in Nat, pos <= pos',
             pc' \in {"element", "send"} =>
                 (pc \in {"element", "send"} /\ item' = item) \/ item' = pos + 1
      PROVE  OrderInv'
  BY <1>1, <1>2 DEF IInv, OrderInv
<1>3. CASE Send
  <2> DEFINE S == [at : 1 .. Len(Stream), ok : BOOLEAN]
  <2>1. sent \in Seq(S) /\ Result \in S /\ Result.at = item /\ sent' = Append(sent, Result)
    BY <1>3, StreamTyped DEF Send, Result, IInv, StackInv, TypeOK
  <2> HIDE DEF S
  <2>2. /\ DOMAIN sent' = 1 .. Len(sent) + 1 /\ DOMAIN sent = 1 .. Len(sent) /\ Len(sent) \in Nat
        /\ \A k \in 1 .. Len(sent) : sent'[k] = sent[k]
        /\ sent'[Len(sent) + 1] = Result
    BY <2>1, AppendProperties
  <2>3. \A k \in DOMAIN sent' : (k \in DOMAIN sent /\ k < Len(sent) + 1) \/ k = Len(sent) + 1
    BY <2>2
  <2>4. \A k \in DOMAIN sent : sent'[k].at = sent[k].at /\ sent[k].at < item
    BY <1>3, <2>2 DEF Send, IInv, OrderInv
  <2>5. pc' = "loop" /\ pos' = pos
    BY <1>3 DEF Send
  <2>6. \A k, l \in DOMAIN sent' : k < l => sent'[k].at < sent'[l].at
    BY <2>1, <2>2, <2>3, <2>4 DEF IInv, OrderInv
  <2>7. \A k \in DOMAIN sent' : sent'[k].at <= pos
    BY <1>1, <2>1, <2>2, <2>3, <2>4
  <2>8. QED
    BY <2>5, <2>6, <2>7 DEF OrderInv
<1>4. CASE Fetch
  BY <1>1, <1>2, <1>4 DEF Fetch, RequestFails, NotOK, FetchOk, Refused, FetchReturns, decoder
<1>5. CASE Skip \/ StartItem \/ DecodeElement
  BY <1>1, <1>2, <1>5 DEF Skip, StartItem, DecodeElement, Read
<1>6. CASE ElementFails \/ SendCancelled \/ DecodeEnds \/ DecodeFails
  BY <1>1, <1>2, <1>6
     DEF ElementFails, SendCancelled, DecodeEnds, DecodeFails, DecodeReturns, decoder
<1>7. CASE StoreFails \/ Finish \/ Expire \/ Cancel \/ UNCHANGED vars
  BY <1>1, <1>2, <1>7 DEF StoreFails, Finish, ParseEnds, DeleteOldProducts, FinishRun,
     FinishFails, Return, Expire, Cancel, decoder, vars
<1>8. QED
  BY <1>3, <1>4, <1>5, <1>6, <1>7 DEF Next, Decode

-----------------------------------------------------------------------------
(* What follows.                                                           *)

\* The invariant that the theorems below follow from.
THEOREM Invariance == Spec => []IInv
<1>1. Init => IInv
  <2> SUFFICES ASSUME Init PROVE IInv
    OBVIOUS
  <2>1. Len(Stream) \in Nat
    BY FeedAssumption DEF Init, Response, Stream
  <2>2. open \in Seq(Names) /\ sent \in Seq([at : 1 .. Len(Stream), ok : BOOLEAN])
    BY DEF Init
  <2>3. TypeOK
    <3>1. pos \in 0 .. Len(Stream) /\ item \in 0 .. pos /\ outer \in 0 .. Len(Stream)
      BY <2>1 DEF Init
    <3>2. \A flag \in {broken, expired, cancelled, groupErr} : flag \in BOOLEAN
      BY Zenon DEF Init
    <3>3. QED
      BY <2>2, <3>1, <3>2 DEF Init, TypeOK
  <2>4. Len(open) = 0 /\ DOMAIN sent = {}
    BY DEF Init
  <2>5. NestInv
    <3> DEFINE at   == [k \in Places(Stream) |-> 0]
               ends == [i \in StartTags(Stream) |-> 0]
    <3>1. at \in Stacks(Stream) /\ ends \in Partial(Stream)
      BY <2>1 DEF Stacks, Partial, Places
    <3>2. \A i \in StartTags(Stream) : ends[i] = 0 /\ i \in Nat /\ ~(i <= 0)
      BY <2>1, StreamTyped, <2>3 DEF StartTags
    <3>3. DOMAIN open = {} /\ pos = 0 /\ sent = <<>> /\ pc = "fetch" /\ status = "none"
      BY DEF Init
    <3> HIDE DEF at, ends
    <3>4. Nested(Stream, pos, open, at, ends)
      BY <3>2, <3>3 DEF Nested
    <3>5. Begun(Stream, pos, ends) = {}
      BY <2>1, <2>3, <3>3, StreamTyped DEF Begun, Items
    <3>6. Decoded = {} /\ NoItemIn(Len(open))
      BY <2>4 DEF Decoded, NoItemIn
    <3>7. QED
      BY <3>1, <3>3, <3>4, <3>5, <3>6 DEF NestInv, OuterInv
  <2>6. QED
    BY <2>3, <2>4, <2>5
       DEF Init, IInv, StackInv, StatusInv, BodyInv, SentInv, EndInv, OrderInv
<1>2. IInv /\ [Next]_vars => IInv'
  BY TypingStep, StatusStep, BodyStep, SentStep, EndStep, NestStep, OrderStep DEF IInv
<1>3. QED
  BY <1>1, <1>2, PTL DEF Spec

\* Type correctness of Parse, the response and the xml.Decoder, for documents of
\* any length.
THEOREM TypeCorrect == Spec => []TypeOK
  BY Invariance, PTL DEF IInv

\* Whatever the document, the server and the database do: a result with an error
\* is the last of its run, which fails.
THEOREM ErrorsAreLast == Spec => []BadIsLast
<1>1. IInv => BadIsLast
  BY DEF IInv, SentInv, EndInv, BadIsLast
<1>2. QED
  BY <1>1, Invariance, PTL

\* A command is acknowledged only for a run recorded as a success.
THEOREM NilMeansRecorded == Spec => []NilIsRecorded
<1>1. IInv => NilIsRecorded
  BY DEF IInv, StatusInv, NilIsRecorded
<1>2. QED
  BY <1>1, Invariance, PTL

\* Only a body that FetchFile refused can be left open.
THEOREM OnlyRefusedHeld == Spec => []HeldOnlyIfRefused
<1>1. IInv => HeldOnlyIfRefused
  BY DEF IInv, BodyInv, HeldOnlyIfRefused
<1>2. QED
  BY <1>1, Invariance, PTL

\* Nothing is deleted as outdated, and no run is a success, unless the feed was
\* read to its end, was well-formed, and gave a product for each outermost item.
THEOREM DeletesNeedWholeFeeds == Spec => []WholeFeedOnly
<1>1. IInv => WholeFeedOnly
  <2> SUFFICES ASSUME IInv, pc = "delete" \/ row = "ok"
               PROVE  /\ resp.end = "eof"
                      /\ \A k \in DOMAIN sent : sent[k].ok
                      /\ \A k, l \in DOMAIN sent : k < l => sent[k].at < sent[l].at
                      /\ \E ends \in Nestings(Stream) :
                             {sent[k].at : k \in DOMAIN sent} = ProductsOf(Stream, ends)
    BY Zenon DEF WholeFeedOnly
  <2>1. status = "nil"
    BY DEF IInv, StatusInv
  <2>2. /\ resp.end = "eof" /\ pos = Len(Stream) /\ open = <<>>
        /\ \A k \in DOMAIN sent : sent[k].ok
    BY <2>1 DEF IInv, EndInv
  <2>3. PICK at \in Stacks(Stream), ends \in Partial(Stream) :
            Nested(Stream, pos, open, at, ends) /\ OuterInv(at, Begun(Stream, pos, ends))
    BY DEF IInv, NestInv
  <2>4. ends \in Nestings(Stream) /\ Begun(Stream, pos, ends) = ProductsOf(Stream, ends)
    BY <2>2, <2>3, ReadAll, StreamTyped DEF IInv
  <2>5. Begun(Stream, pos, ends) = Decoded
    BY <2>1, <2>3 DEF OuterInv
  <2>6. QED
    BY <2>2, <2>4, <2>5 DEF Decoded, IInv, OrderInv
<1>2. QED
  BY <1>1, Invariance, PTL
-----------------------------------------------------------------------------
(* Progress: what FeedEnds needs but fairness itself.                      *)

\* The request is over as soon as its context is.
RequestReady == pc = "fetch" /\ (expired \/ cancelled)

\* There is a token, the end, or an error: the decoder does not wait for bytes.
DecodeReady ==
    \/ pc = "send"
    \/ pc = "loop" /\ (CanRead \/ IsEOF \/ TokenFails)
    \/ pc = "element" /\ (CanRead \/ TokenFails)

FinishReady == pc \in {"wait", "delete", "finish"}

\* The timer of the http.Client is running.
TimerRuns == HasTimeout /\ ~expired /\ (pc = "fetch" \/ conn = "held")

\* No timeout is configured, and the server sends nothing.
ServerSilent ==
    /\ ~HasTimeout /\ ~cancelled
    /\ \/ pc = "fetch"
       \/ pc \in {"loop", "element"} /\ AtEnd /\ resp.end = "stall"

\* Whatever Parse waits for, a timer ends it: until it has returned it can go on,
\* or the timer runs.  Without a timeout (HTTP_TIMEOUT=0, main.go:64) only a
\* silent server holds it up.  A body nobody closed is under the timer too
\* (fetcher.go:47-67).
NobodyStuck ==
    /\ pc # "done" => \/ RequestReady \/ DecodeReady \/ FinishReady
                      \/ TimerRuns \/ ServerSilent
    /\ pc = "done" /\ conn = "held" /\ HasTimeout => TimerRuns

\* A connection in use is one whose request is neither cancelled nor out of time,
\* and from the response to the return of Parse there is one.
WaitInv ==
    /\ expired \/ cancelled => conn # "held"
    /\ pc = "fetch" => conn = "none"
    /\ pc \in {"loop", "element", "send", "wait", "delete"} /\ ~expired /\ ~cancelled
           => conn = "held"
    /\ pc = "element" => ~broken

\* Every step keeps the connection under its timer.
LEMMA WaitStep == IInv /\ WaitInv /\ [Next]_vars => WaitInv'
<1> SUFFICES ASSUME IInv, WaitInv, [Next]_vars PROVE WaitInv'
  OBVIOUS
<1> USE DEF WaitInv, decoder, contexts, results
<1>1. CASE Fetch
  BY <1>1 DEF Fetch, RequestFails, NotOK, FetchOk, Refused, FetchReturns
<1>2. CASE Skip \/ StartItem \/ DecodeElement \/ ElementFails \/ Send
  BY <1>2 DEF Skip, StartItem, DecodeElement, AfterItem, ElementFails, Send, CanRead
<1>3. CASE SendCancelled \/ DecodeEnds \/ DecodeFails
  BY <1>3 DEF SendCancelled, DecodeEnds, DecodeFails, DecodeReturns
<1>4. CASE StoreFails \/ ParseEnds \/ DeleteOldProducts
  BY <1>4 DEF StoreFails, ParseEnds, DeleteOldProducts
<1>5. CASE FinishRun \/ FinishFails
  BY <1>5 DEF FinishRun, FinishFails, Return
<1>6. CASE Expire \/ Cancel
  BY <1>6 DEF Expire, Cancel, Abandon, IInv, TypeOK
<1>7. CASE UNCHANGED vars
  BY <1>7 DEF vars
<1>8. QED
  BY <1>1, <1>2, <1>3, <1>4, <1>5, <1>6, <1>7 DEF Next, Decode, Finish

\* For every document, every answer of the server and every fault: Parse is never
\* stuck, and with a timeout neither is a connection.
THEOREM NeverStuck == Spec => []NobodyStuck
<1>1. Init => WaitInv
  BY DEF Init, WaitInv
<1>2. Spec => [](IInv /\ WaitInv)
  BY <1>1, WaitStep, Invariance, PTL DEF Spec
<1>3. ASSUME IInv, WaitInv PROVE NobodyStuck
  <2> USE <1>3 DEF WaitInv
  <2>0. resp.end \in {"eof", "cut", "stall"}
    BY FeedAssumption DEF IInv, TypeOK, Response
  <2>1. CASE pc = "fetch"
    BY <2>1 DEF NobodyStuck, RequestReady, TimerRuns, ServerSilent
  <2>2. CASE pc \in {"loop", "element"}
    <3>1. CASE CanRead \/ TokenFails
      BY <2>2, <3>1 DEF NobodyStuck, DecodeReady
    <3>2. CASE ~CanRead /\ ~TokenFails
      <4>1. AtEnd /\ ~broken /\ ~expired /\ ~cancelled
        BY <3>2 DEF CanRead, TokenFails
      <4>2. resp.end = "stall" \/ (resp.end = "eof" /\ open = <<>>)
        BY <2>0, <3>2, <4>1 DEF TokenFails
      <4>3. pc = "element" => open # <<>>
        <5>1. PICK at \in Stacks(Stream), ends \in Partial(Stream) :
                  OuterInv(at, Begun(Stream, pos, ends))
          BY DEF IInv, NestInv
        <5>2. QED
          BY <5>1 DEF OuterInv, IInv, TypeOK
      <4>4. conn = "held"
        BY <2>2, <4>1
      <4>5. QED
        BY <2>2, <4>1, <4>2, <4>3, <4>4
           DEF NobodyStuck, DecodeReady, IsEOF, TimerRuns, ServerSilent
    <3>3. QED
      BY <3>1, <3>2
  <2>3. CASE pc = "send"
    BY <2>3 DEF NobodyStuck, DecodeReady
  <2>4. CASE pc \in {"wait", "delete", "finish"}
    BY <2>4 DEF NobodyStuck, FinishReady
  <2>5. CASE pc = "done"
    BY <2>5 DEF NobodyStuck, TimerRuns
  <2>6. QED
    BY <2>1, <2>2, <2>3, <2>4, <2>5 DEF IInv, TypeOK
<1>4. QED
  BY <1>2, <1>3, PTL

\* How many steps of Parse are left where it is, besides the tokens to read.
PhaseSteps == CASE pc = "done"   -> 0
                [] pc = "finish" -> 1
                [] pc = "delete" -> 2
                [] pc = "wait"   -> 3
                [] pc = "loop"   -> 4
                [] OTHER         -> 5

\* What happens once: the decoder breaks, the timer fires, the context is done,
\* a batch fails.
Left(flag) == IF flag THEN 0 ELSE 1
FlagSteps == Left(broken) + Left(expired) + Left(cancelled) + Left(groupErr)

TokensLeft == Len(Stream) - pos
Remaining  == 2 * TokensLeft + PhaseSteps + FlagSteps

\* Parse takes a bounded number of steps for its document, whatever the server,
\* the timer, the database and a shutdown do and when: in particular an error of
\* the xml.Decoder, after which the loop goes on (decoder.go:36-48), does not
\* send it in circles.
EndsInTime ==
    /\ [](Remaining \in 0 .. 2 * Len(Stream) + 9)
    /\ [][Remaining' < Remaining]_vars

\* The parts of the count are numbers.
LEMMA RemainingTyped ==
    ASSUME TypeOK
    PROVE  /\ Len(Stream) \in Nat /\ TokensLeft \in 0 .. Len(Stream)
           /\ PhaseSteps \in 0 .. 5 /\ FlagSteps \in 0 .. 4
<1>1. Len(Stream) \in Nat /\ pos \in 0 .. Len(Stream)
  BY StreamTyped DEF TypeOK
<1>2. TokensLeft \in 0 .. Len(Stream)
  BY <1>1 DEF TokensLeft
<1>3. PhaseSteps \in 0 .. 5
  BY DEF PhaseSteps
<1>4. \A flag : Left(flag) \in 0 .. 1
  BY DEF Left
<1>5. FlagSteps \in 0 .. 4
  BY <1>4 DEF FlagSteps
<1>6. QED
  BY <1>1, <1>2, <1>3, <1>5

\* A token costs more than the phase it leads to; what reads none leaves a phase
\* or a flag behind.
LEMMA CountLess ==
    ASSUME NEW t1 \in Nat, NEW p1 \in Nat, NEW f1 \in Nat,
           NEW t2 \in Nat, NEW p2 \in Nat, NEW f2 \in Nat, f2 <= f1,
           \/ t2 + 1 = t1 /\ p2 <= p1 + 1
           \/ t2 = t1 /\ p2 <= p1 /\ (p2 < p1 \/ f2 < f1)
    PROVE  2 * t2 + p2 + f2 < 2 * t1 + p1 + f1
  OBVIOUS

\* One flag more is set, and none is taken back.
LEMMA FlagsLess ==
    ASSUME NEW a1 \in Nat, NEW b1 \in Nat, NEW c1 \in Nat, NEW d1 \in Nat,
           NEW a2 \in Nat, NEW b2 \in Nat, NEW c2 \in Nat, NEW d2 \in Nat,
           a2 <= a1, b2 <= b1, c2 <= c1, d2 <= d1,
           a2 < a1 \/ b2 < b1 \/ c2 < c1 \/ d2 < d1
    PROVE  a2 + b2 + c2 + d2 < a1 + b1 + c1 + d1
  OBVIOUS

\* Every step leaves less to do.
LEMMA StepsDecrease == IInv /\ TypeOK' /\ WaitInv /\ Next => Remaining' < Remaining
<1>t. TypeOK => TokensLeft \in Nat /\ PhaseSteps \in Nat /\ FlagSteps \in Nat
  BY RemainingTyped
<1>p. TypeOK' => (TokensLeft \in Nat /\ PhaseSteps \in Nat /\ FlagSteps \in Nat)'
  BY <1>t, PTL
<1> SUFFICES ASSUME IInv, TypeOK', WaitInv, Next PROVE Remaining' < Remaining
  OBVIOUS
<1>r. /\ TokensLeft \in Nat /\ PhaseSteps \in Nat /\ FlagSteps \in Nat
      /\ TokensLeft' \in Nat /\ PhaseSteps' \in Nat /\ FlagSteps' \in Nat
  BY <1>t, <1>p DEF IInv
<1>f. \A a, b : Left(a) \in Nat /\ ((a => b) => Left(b) <= Left(a))
                /\ (~a /\ b => Left(b) < Left(a))
  BY DEF Left
<1> USE DEF decoder, contexts, results
<1>1. CASE Skip \/ StartItem \/ DecodeElement
  <2>1. pos \in Nat /\ pos' = pos + 1 /\ UNCHANGED resp /\ UNCHANGED <<broken, contexts>>
    BY <1>1, ReadTyped DEF Skip, StartItem, DecodeElement, IInv, Read
  <2>2. TokensLeft' + 1 = TokensLeft /\ FlagSteps' = FlagSteps
    BY <2>1, RemainingTyped DEF TokensLeft, FlagSteps, Stream, IInv
  <2>3. PhaseSteps' <= PhaseSteps + 1
    BY <1>1 DEF Skip, StartItem, DecodeElement, AfterItem, PhaseSteps
  <2>4. FlagSteps' <= FlagSteps
    BY <1>r, <2>2
  <2>5. QED
    BY <1>r, <2>2, <2>3, <2>4, CountLess DEF Remaining
<1>2. ASSUME UNCHANGED <<resp, pos>>, FlagSteps' <= FlagSteps, PhaseSteps' <= PhaseSteps,
             FlagSteps' < FlagSteps \/ PhaseSteps' < PhaseSteps
      PROVE  Remaining' < Remaining
  <2>1. TokensLeft' = TokensLeft
    BY <1>2 DEF TokensLeft, Stream
  <2>2. QED
    BY <1>r, <1>2, <2>1, CountLess DEF Remaining
<1>3. ASSUME UNCHANGED <<resp, pos, broken, expired, cancelled, groupErr>>,
             PhaseSteps' < PhaseSteps
      PROVE  Remaining' < Remaining
  <2>1. FlagSteps' = FlagSteps
    BY <1>3 DEF FlagSteps
  <2>2. QED
    BY <1>r, <1>2, <1>3, <2>1
<1>4. ASSUME UNCHANGED <<resp, pos>>, PhaseSteps' = PhaseSteps, FlagSteps' < FlagSteps
      PROVE  Remaining' < Remaining
  BY <1>r, <1>2, <1>4
<1>5. CASE Fetch
  BY <1>3, <1>5 DEF Fetch, RequestFails, NotOK, FetchOk, Refused, FetchReturns, PhaseSteps
<1>6. CASE ElementFails
  <2>1. ~broken /\ broken' /\ UNCHANGED <<resp, pos, expired, cancelled, groupErr>>
    BY <1>6 DEF ElementFails, WaitInv
  <2>2. FlagSteps' < FlagSteps
    BY <1>f, <2>1, FlagsLess DEF FlagSteps
  <2>3. PhaseSteps' = PhaseSteps
    BY <1>6 DEF ElementFails, PhaseSteps
  <2>4. QED
    BY <1>4, <2>1, <2>2, <2>3
<1>7. CASE Send \/ SendCancelled \/ DecodeEnds \/ DecodeFails
  BY <1>3, <1>7 DEF Send, SendCancelled, DecodeEnds, DecodeFails, DecodeReturns, PhaseSteps
<1>8. CASE ParseEnds \/ DeleteOldProducts
  BY <1>3, <1>8 DEF ParseEnds, DeleteOldProducts, PhaseSteps
<1>9. CASE FinishRun \/ FinishFails
  BY <1>3, <1>9 DEF FinishRun, FinishFails, Return, PhaseSteps
<1>10. CASE StoreFails \/ Expire \/ Cancel
  <2>1. /\ UNCHANGED <<resp, pos, pc, broken>>
        /\ \/ ~groupErr /\ groupErr' /\ UNCHANGED <<expired, cancelled>>
           \/ ~expired /\ expired' /\ UNCHANGED <<groupErr, cancelled>>
           \/ ~cancelled /\ cancelled' /\ UNCHANGED <<expired, groupErr>>
    BY <1>10 DEF StoreFails, Expire, Cancel
  <2>2. FlagSteps' < FlagSteps
    BY <1>f, <2>1, FlagsLess DEF FlagSteps
  <2>3. PhaseSteps' = PhaseSteps
    BY <2>1 DEF PhaseSteps
  <2>4. QED
    BY <1>4, <2>1, <2>2, <2>3
<1>11. QED
  BY <1>1, <1>5, <1>6, <1>7, <1>8, <1>9, <1>10 DEF Next, Decode, Finish

\* For every document: Parse ends within two steps for each token and nine more.
\* With NeverStuck this is what FeedEnds rests on.
THEOREM BoundedWork == Spec => EndsInTime
<1>1. Init => WaitInv
  BY DEF Init, WaitInv
<1>2. Spec => [](IInv /\ WaitInv)
  BY <1>1, WaitStep, Invariance, PTL DEF Spec
<1>3. IInv => Remaining \in 0 .. 2 * Len(Stream) + 9
  <2> SUFFICES ASSUME IInv PROVE Remaining \in 0 .. 2 * Len(Stream) + 9
    OBVIOUS
  <2>1. /\ Len(Stream) \in Nat /\ TokensLeft \in 0 .. Len(Stream)
        /\ PhaseSteps \in 0 .. 5 /\ FlagSteps \in 0 .. 4
    BY RemainingTyped DEF IInv
  <2>2. QED
    BY <2>1 DEF Remaining
<1>4. IInv /\ IInv' /\ WaitInv /\ [Next]_vars => [Remaining' < Remaining]_vars
  BY StepsDecrease DEF IInv
<1>5. QED
  BY <1>2, <1>3, <1>4, PTL DEF Spec, EndsInTime

-----------------------------------------------------------------------------
(* Errors have causes: the converse of WholeFeedOnly.                      *)

\* What may be wrong with the feed itself: it breaks off, or is not well-formed.
FeedIsBad == resp.end = "cut" \/ Nestings(Stream) = {}

\* The decoder gives a feed up only if it is bad or its time is over
\* (decoder.go:24-46); every other error comes from the step it names, and a batch
\* or the final UPDATE fails only with the database or with Parse's context
\* (parser.go:98-118, 247-256).
ErrorsHaveCauses ==
    /\ broken \/ status = "decode" => FeedIsBad \/ expired \/ cancelled
    /\ status = "fetch" =>
          \/ resp.status = "other" \/ ~Accepted
          \/ "network" \in Faults \/ expired \/ cancelled
    /\ groupErr \/ status \in {"ctx", "store", "delete"} => "database" \in Faults \/ cancelled
    /\ row = "failed" => status # "nil"
    /\ ret = "error" /\ status = "nil" => "database" \in Faults \/ cancelled

\* A feed that the server sends whole, well-formed and as a supported type, within
\* the timeout and with nothing else failing, is imported: Parse never returns an
\* error for it, so its command is never dropped.
GoodFeedSucceeds ==
    resp.status = "ok" /\ Accepted /\ ~FeedIsBad /\ ~expired /\ ~cancelled
      /\ Faults \subseteq {"shutdown"} => ret # "error" /\ row # "failed"

\* The elements that a document has open after its first p tokens, by the nesting m,
\* are those of the stack o.
Holds(doc, p, o, at, m) ==
    /\ \A k \in DOMAIN o :
          /\ at[k] \in StartTags(doc) /\ doc[at[k]] = o[k]
          /\ at[k] <= p /\ p < m[at[k]]
          /\ \A l \in DOMAIN o : k < l => at[k] < at[l]
    /\ \A i \in StartTags(doc) : i <= p /\ p < m[i] => \E k \in DOMAIN o : at[k] = i

\* In a well-formed document the decoder's stack is what is open.
StackFits ==
    \A m \in Nestings(Stream) : \E at \in Stacks(Stream) : Holds(Stream, pos, open, at, m)

\* What an element of a nesting is.
LEMMA NestingFacts ==
    ASSUME NEW doc \in Seq(Tokens), NEW m \in Nestings(doc)
    PROVE  /\ \A i \in StartTags(doc) :
                 /\ i \in 1 .. Len(doc) /\ m[i] \in 1 .. Len(doc) /\ i < m[i]
                 /\ m[i] \notin StartTags(doc) /\ doc[m[i]] = Closing[doc[i]]
           /\ \A i, k \in StartTags(doc) : i < k => m[i] < k \/ m[k] < m[i]
           /\ \A j \in 1 .. Len(doc) : j \notin StartTags(doc) =>
                 \E i \in StartTags(doc) : m[i] = j
<1>1. DOMAIN doc = 1 .. Len(doc)
  OBVIOUS
<1>2. \A i \in StartTags(doc) : m[i] \in DOMAIN doc \ StartTags(doc) /\ i \in DOMAIN doc
  BY DEF Nestings, StartTags
<1>3. QED
  BY <1>1, <1>2 DEF Nestings

\* A start tag opens an element that its nesting closes later.
LEMMA HoldsStart ==
    ASSUME NEW doc \in Seq(Tokens), NEW p \in Nat, p < Len(doc), NEW o \in Seq(Names),
           Len(o) <= p, NEW at \in Stacks(doc), NEW m \in Nestings(doc),
           Holds(doc, p, o, at, m), doc[p + 1] \in Names
    PROVE  LET at2 == [at EXCEPT ![Len(o) + 1] = p + 1]
           IN  at2 \in Stacks(doc) /\ Holds(doc, p + 1, Append(o, doc[p + 1]), at2, m)
<1> DEFINE n   == Len(o) + 1
           at2 == [at EXCEPT ![n] = p + 1]
           o2  == Append(o, doc[p + 1])
<1>1. /\ Len(doc) \in Nat /\ n \in Nat /\ DOMAIN o = 1 .. n - 1 /\ DOMAIN doc = 1 .. Len(doc)
      /\ p + 1 \in DOMAIN doc
  OBVIOUS
<1>2. /\ DOMAIN o2 = 1 .. n /\ o2[n] = doc[p + 1]
      /\ \A k \in DOMAIN o : o2[k] = o[k] /\ k # n
  BY <1>1
<1>3. at2 \in Stacks(doc) /\ at2[n] = p + 1 /\ \A k \in DOMAIN o : at2[k] = at[k]
  BY <1>1 DEF Stacks, Places
<1>4. p + 1 \in StartTags(doc) /\ p + 1 < m[p + 1]
  BY <1>1, NestingFacts DEF StartTags
<1>5. \A i \in StartTags(doc) : i \in Nat /\ m[i] \in Nat /\ m[i] # p + 1
  BY <1>4, NestingFacts
<1> HIDE DEF n, at2, o2
<1>6. \A k \in DOMAIN o : /\ at[k] \in StartTags(doc) /\ doc[at[k]] = o[k] /\ at[k] <= p /\ p < m[at[k]]
                          /\ \A l \in DOMAIN o : k < l => at[k] < at[l]
  BY DEF Holds
<1>7. \A k \in DOMAIN o2 : k = n \/ (k \in DOMAIN o /\ k < n)
  BY <1>1, <1>2
<1>8. \A k \in DOMAIN o2 : /\ at2[k] \in StartTags(doc) /\ doc[at2[k]] = o2[k]
                           /\ at2[k] <= p + 1 /\ p + 1 < m[at2[k]]
  <2> SUFFICES ASSUME NEW k \in DOMAIN o2
               PROVE  /\ at2[k] \in StartTags(doc) /\ doc[at2[k]] = o2[k]
                      /\ at2[k] <= p + 1 /\ p + 1 < m[at2[k]]
    OBVIOUS
  <2>1. CASE k = n
    BY <1>2, <1>3, <1>4, <2>1
  <2>2. CASE k \in DOMAIN o
    BY <1>2, <1>3, <1>5, <1>6, <2>2
  <2>3. QED
    BY <1>7, <2>1, <2>2
<1>9. ASSUME NEW k \in DOMAIN o2, NEW l \in DOMAIN o2, k < l PROVE at2[k] < at2[l]
  <2>1. k \in DOMAIN o /\ at2[k] = at[k]
    BY <1>1, <1>2, <1>3, <1>7, <1>9
  <2>2. CASE l \in DOMAIN o
    BY <1>3, <1>6, <1>9, <2>1, <2>2
  <2>3. CASE l = n
    BY <1>3, <1>5, <1>6, <2>1, <2>3
  <2>4. QED
    BY <1>7, <2>2, <2>3
<1>10. ASSUME NEW i \in StartTags(doc), i <= p + 1, p + 1 < m[i]
       PROVE  \E k \in DOMAIN o2 : at2[k] = i
  <2>1. CASE i = p + 1
    <3>1. n \in DOMAIN o2 /\ at2[n] = i
      BY <1>1, <1>2, <1>3, <2>1 DEF n
    <3>2. QED
      BY <3>1
  <2>2. CASE i # p + 1
    <3>1. i <= p /\ p < m[i]
      BY <1>5, <1>10, <2>2
    <3>2. PICK k \in DOMAIN o : at[k] = i
      BY <3>1 DEF Holds
    <3>3. k \in DOMAIN o2 /\ at2[k] = i
      BY <1>1, <1>2, <1>3, <3>2
    <3>4. QED
      BY <3>3
  <2>3. QED
    BY <2>1, <2>2
<1>11. Holds(doc, p + 1, o2, at2, m)
  BY <1>8, <1>9, <1>10 DEF Holds
<1>12. QED
  BY <1>3, <1>11 DEF at2, o2, n

\* Any other token of a well-formed document is the end tag of the innermost open
\* element, which it closes.
LEMMA HoldsEnd ==
    ASSUME NEW doc \in Seq(Tokens), NEW p \in Nat, p < Len(doc), NEW o \in Seq(Names),
           NEW at \in Stacks(doc), NEW m \in Nestings(doc),
           Holds(doc, p, o, at, m), doc[p + 1] \notin Names
    PROVE  /\ o # <<>> /\ doc[p + 1] = Closing[o[Len(o)]]
           /\ Holds(doc, p + 1, SubSeq(o, 1, Len(o) - 1), at, m)
<1> DEFINE n == Len(o)
<1>1. /\ Len(doc) \in Nat /\ n \in Nat /\ DOMAIN o = 1 .. n /\ DOMAIN doc = 1 .. Len(doc)
      /\ p + 1 \in 1 .. Len(doc)
  OBVIOUS
<1>2. p + 1 \notin StartTags(doc)
  BY DEF StartTags
<1>3. PICK i \in StartTags(doc) : m[i] = p + 1
  BY <1>1, <1>2, NestingFacts
<1>4. \A j \in StartTags(doc) : j \in Nat /\ m[j] \in Nat /\ j < m[j]
  BY NestingFacts
<1>5. i <= p /\ p < m[i]
  BY <1>3, <1>4
<1>6. PICK k \in DOMAIN o : at[k] = i
  BY <1>5 DEF Holds
<1>7. n \in DOMAIN o /\ o # <<>>
  BY <1>1, <1>6
<1>8. \A l \in DOMAIN o : /\ at[l] \in StartTags(doc) /\ doc[at[l]] = o[l] /\ at[l] <= p /\ p < m[at[l]]
                          /\ \A j \in DOMAIN o : l < j => at[l] < at[j]
  BY DEF Holds
<1>9. k = n
  <2>1. SUFFICES ASSUME k < n PROVE FALSE
    BY <1>1
  <2>2. i < at[n] /\ at[n] \in StartTags(doc)
    BY <1>6, <1>7, <1>8, <2>1
  <2>3. m[i] < at[n] \/ m[at[n]] < m[i]
    BY <2>2, NestingFacts
  <2>4. QED
    BY <1>3, <1>4, <1>7, <1>8, <2>2, <2>3
<1>10. doc[p + 1] = Closing[o[n]]
  BY <1>3, <1>6, <1>8, <1>9, NestingFacts
<1> DEFINE o2 == SubSeq(o, 1, n - 1)
<1>11. DOMAIN o2 = 1 .. n - 1 /\ \A l \in DOMAIN o2 : o2[l] = o[l] /\ l \in DOMAIN o /\ l < n
  BY <1>1, <1>7
<1> HIDE DEF n, o2
<1>12. ASSUME NEW l \in DOMAIN o2
       PROVE  /\ at[l] \in StartTags(doc) /\ doc[at[l]] = o2[l]
              /\ at[l] <= p + 1 /\ p + 1 < m[at[l]]
              /\ \A j \in DOMAIN o2 : l < j => at[l] < at[j]
  <2>1. l \in DOMAIN o /\ o2[l] = o[l] /\ at[l] < i
    BY <1>6, <1>7, <1>8, <1>9, <1>11
  <2>2. m[at[l]] < i \/ m[i] < m[at[l]]
    BY <1>8, <2>1, NestingFacts
  <2>3. p + 1 < m[at[l]]
    BY <1>3, <1>4, <1>5, <1>8, <2>1, <2>2
  <2>4. QED
    BY <1>4, <1>8, <1>11, <2>1, <2>3
<1>13. ASSUME NEW j \in StartTags(doc), j <= p + 1, p + 1 < m[j]
       PROVE  \E l \in DOMAIN o2 : at[l] = j
  <2>1. j <= p /\ p < m[j]
    BY <1>2, <1>4, <1>13
  <2>2. PICK l \in DOMAIN o : at[l] = j
    BY <2>1 DEF Holds
  <2>3. l # n
    BY <1>3, <1>4, <1>6, <1>9, <1>13, <2>2
  <2>4. QED
    BY <1>1, <1>11, <2>2, <2>3
<1>14. Holds(doc, p + 1, o2, at, m)
  BY <1>12, <1>13 DEF Holds
<1>15. QED
  BY <1>7, <1>10, <1>14 DEF n, o2

\* At the end of a well-formed document nothing is open.
LEMMA HoldsAll ==
    ASSUME NEW doc \in Seq(Tokens), NEW o \in Seq(Names), NEW at, NEW m \in Nestings(doc),
           Holds(doc, Len(doc), o, at, m)
    PROVE  o = <<>>
<1>1. SUFFICES ASSUME o # <<>> PROVE FALSE
  OBVIOUS
<1>2. 1 \in DOMAIN o
  BY <1>1
<1>3. at[1] \in StartTags(doc) /\ Len(doc) < m[at[1]]
  BY <1>2 DEF Holds
<1>4. QED
  BY <1>3, NestingFacts

\* Every step keeps the stack as the document has it.
LEMMA FitsStep == IInv /\ StackFits /\ [Next]_vars => StackFits'
<1> SUFFICES ASSUME IInv, StackFits, [Next]_vars PROVE StackFits'
  OBVIOUS
<1> USE DEF decoder, contexts, results
<1>1. ASSUME UNCHANGED <<resp, pos, open>> PROVE StackFits'
  <2>1. Stream' = Stream
    BY <1>1 DEF Stream
  <2>2. QED
    BY <1>1, <2>1 DEF StackFits
<1>2. CASE Skip \/ StartItem \/ DecodeElement
  <2>1. CanRead /\ Read /\ resp' = resp
    BY <1>2 DEF Skip, StartItem, DecodeElement
  <2>2. Stream' = Stream /\ pos' = pos + 1
    BY <2>1 DEF Stream, Read
  <2>3. /\ Stream \in Seq(Tokens) /\ pos \in Nat /\ pos < Len(Stream)
        /\ open \in Seq(Names) /\ Len(open) <= pos
    BY <2>1, StreamTyped DEF IInv, TypeOK, StackInv, CanRead, AtEnd
  <2>4. SUFFICES ASSUME NEW m \in Nestings(Stream)
                 PROVE  \E at2 \in Stacks(Stream) : Holds(Stream, pos + 1, open', at2, m)
    BY <2>2 DEF StackFits
  <2>5. PICK at \in Stacks(Stream) : Holds(Stream, pos, open, at, m)
    BY DEF StackFits
  <2>6. CASE Token \in Names
    <3>1. open' = Append(open, Stream[pos + 1]) /\ Stream[pos + 1] \in Names
      BY <2>1, <2>6 DEF Read, Token
    <3> DEFINE at2 == [at EXCEPT ![Len(open) + 1] = pos + 1]
    <3>2. at2 \in Stacks(Stream) /\ Holds(Stream, pos + 1, open', at2, m)
      BY <2>3, <2>5, <3>1, HoldsStart
    <3>3. QED
      BY <3>2
  <2>7. CASE Token \notin Names
    <3>1. open' = SubSeq(open, 1, Len(open) - 1) /\ Stream[pos + 1] \notin Names
      BY <2>1, <2>7 DEF Read, Token, Front
    <3>2. Holds(Stream, pos + 1, open', at, m)
      BY <2>3, <2>5, <3>1, HoldsEnd
    <3>3. QED
      BY <3>2
  <2>8. QED
    BY <2>6, <2>7
<1>3. CASE Fetch
  BY <1>1, <1>3 DEF Fetch, RequestFails, NotOK, FetchOk, Refused, FetchReturns
<1>4. CASE ElementFails \/ Send \/ SendCancelled \/ DecodeEnds \/ DecodeFails
  BY <1>1, <1>4 DEF ElementFails, Send, SendCancelled, DecodeEnds, DecodeFails, DecodeReturns
<1>5. CASE StoreFails \/ Finish
  BY <1>1, <1>5 DEF StoreFails, Finish, ParseEnds, DeleteOldProducts, FinishRun, FinishFails,
                    Return
<1>6. CASE Expire \/ Cancel
  BY <1>1, <1>6 DEF Expire, Cancel
<1>7. CASE UNCHANGED vars
  BY <1>1, <1>7 DEF vars
<1>8. QED
  BY <1>2, <1>3, <1>4, <1>5, <1>6, <1>7 DEF Next, Decode

\* The xml.Decoder fails for the first time only on a bad feed or out of time: every
\* token of a well-formed document fits, and at its end nothing is open.
LEMMA FailureHasCause ==
    ASSUME IInv, StackFits, TokenFails, ~broken
    PROVE  FeedIsBad \/ expired \/ cancelled
<1>1. SUFFICES ASSUME ~expired, ~cancelled, resp.end # "cut", Nestings(Stream) # {} PROVE FALSE
  BY DEF FeedIsBad
<1>2. PICK m \in Nestings(Stream) : TRUE
  BY <1>1
<1>3. PICK at \in Stacks(Stream) : Holds(Stream, pos, open, at, m)
  BY <1>2 DEF StackFits
<1>4. /\ Stream \in Seq(Tokens) /\ pos \in Nat /\ pos <= Len(Stream) /\ Len(Stream) \in Nat
      /\ open \in Seq(Names)
  BY StreamTyped DEF IInv, TypeOK
<1>5. CASE ~AtEnd /\ ~Fits(Token)
  <2>1. pos < Len(Stream) /\ Stream[pos + 1] \notin Names
    BY <1>4, <1>5 DEF AtEnd, Fits, Token
  <2>2. open # <<>> /\ Stream[pos + 1] = Closing[open[Len(open)]]
    BY <1>2, <1>3, <1>4, <2>1, HoldsEnd
  <2>3. QED
    BY <1>5, <2>2 DEF Fits, Token, Last
<1>6. CASE AtEnd /\ open # <<>>
  BY <1>2, <1>3, <1>4, <1>6, HoldsAll DEF AtEnd
<1>7. QED
  BY <1>1, <1>5, <1>6 DEF TokenFails

\* Every step that records an error has its cause.
LEMMA CauseStep == IInv /\ StackFits /\ ErrorsHaveCauses /\ [Next]_vars => ErrorsHaveCauses'
<1> SUFFICES ASSUME IInv, StackFits, ErrorsHaveCauses, [Next]_vars PROVE ErrorsHaveCauses'
  OBVIOUS
<1> USE DEF decoder, contexts, results
<1>1. resp' = resp => FeedIsBad' = FeedIsBad /\ Accepted' = Accepted
  BY DEF FeedIsBad, Accepted, Stream
<1>2. CASE Fetch
  BY <1>1, <1>2 DEF Fetch, RequestFails, NotOK, FetchOk, Refused, FetchReturns,
                    ErrorsHaveCauses, IInv, StatusInv
<1>3. CASE Skip \/ StartItem \/ DecodeElement \/ Send
  BY <1>1, <1>3 DEF Skip, StartItem, DecodeElement, Send, ErrorsHaveCauses
<1>4. CASE ElementFails \/ DecodeFails
  <2>1. TokenFails /\ resp' = resp
    BY <1>4 DEF ElementFails, DecodeFails, DecodeReturns
  <2>2. FeedIsBad \/ expired \/ cancelled
    BY <2>1, FailureHasCause DEF ErrorsHaveCauses
  <2>3. QED
    BY <1>1, <1>4, <2>1, <2>2 DEF ElementFails, DecodeFails, DecodeReturns, ErrorsHaveCauses,
                                  IInv, StatusInv
<1>5. CASE SendCancelled \/ DecodeEnds
  BY <1>1, <1>5 DEF SendCancelled, DecodeEnds, DecodeReturns, ErrorsHaveCauses, IInv, StatusInv
<1>6. CASE StoreFails \/ ParseEnds \/ DeleteOldProducts
  BY <1>1, <1>6 DEF StoreFails, ParseEnds, DeleteOldProducts, ErrorsHaveCauses, IInv, StatusInv
<1>7. CASE FinishRun \/ FinishFails
  BY <1>1, <1>7 DEF FinishRun, FinishFails, Return, ErrorsHaveCauses
<1>8. CASE Expire \/ Cancel
  BY <1>1, <1>8 DEF Expire, Cancel, ErrorsHaveCauses
<1>9. CASE UNCHANGED vars
  BY <1>1, <1>9 DEF vars, ErrorsHaveCauses
<1>10. QED
  BY <1>2, <1>3, <1>4, <1>5, <1>6, <1>7, <1>8, <1>9 DEF Next, Decode, Finish

\* What Parse has come to is in its status.
EndedInv == pc \in {"finish", "done"} => status # "none"

LEMMA EndedStep == IInv /\ EndedInv /\ [Next]_vars => EndedInv'
<1> SUFFICES ASSUME IInv, EndedInv, [Next]_vars PROVE EndedInv'
  OBVIOUS
<1> USE DEF EndedInv, decoder, contexts, results
<1>1. CASE Fetch
  BY <1>1 DEF Fetch, RequestFails, NotOK, FetchOk, Refused, FetchReturns
<1>2. CASE Decode
  BY <1>2 DEF Decode, Skip, StartItem, DecodeElement, AfterItem, ElementFails, Send,
              SendCancelled, DecodeEnds, DecodeFails, DecodeReturns
<1>3. CASE StoreFails \/ ParseEnds \/ DeleteOldProducts
  BY <1>3 DEF StoreFails, ParseEnds, DeleteOldProducts, IInv, StatusInv
<1>4. CASE FinishRun \/ FinishFails
  BY <1>4 DEF FinishRun, FinishFails, Return
<1>5. CASE Expire \/ Cancel \/ UNCHANGED vars
  BY <1>5 DEF Expire, Cancel, vars
<1>6. QED
  BY <1>1, <1>2, <1>3, <1>4, <1>5 DEF Next, Finish

\* For every document, answer of the server and choice of faults: no error without
\* its cause, and a good feed that nothing disturbs is not refused.
THEOREM NoFalseAlarm == Spec => [](ErrorsHaveCauses /\ GoodFeedSucceeds)
<1>1. Init => StackFits /\ ErrorsHaveCauses
  <2> SUFFICES ASSUME Init PROVE StackFits /\ ErrorsHaveCauses
    OBVIOUS
  <2>1. ErrorsHaveCauses
    BY DEF Init, ErrorsHaveCauses
  <2>2. Stream \in Seq(Tokens) /\ pos = 0 /\ open = <<>>
    <3>1. resp.tokens \in Seq(Tokens)
      BY FeedAssumption DEF Init, Response
    <3>2. "bad" \in Tokens
      BY DEF Tokens
    <3>3. <<"bad">> \in Seq(Tokens)
      BY <3>2
    <3>4. QED
      BY <3>1, <3>3 DEF Init, Stream
  <2>3. [k \in Places(Stream) |-> 0] \in Stacks(Stream)
    BY <2>2 DEF Stacks, Places
  <2>4. ASSUME NEW m \in Nestings(Stream), NEW at \in Stacks(Stream)
        PROVE  Holds(Stream, pos, open, at, m)
    <3>1. \A i \in StartTags(Stream) : ~(i <= 0)
      BY <2>2, NestingFacts
    <3>2. DOMAIN open = {}
      BY <2>2
    <3>3. QED
      BY <2>2, <3>1, <3>2 DEF Holds
  <2>5. QED
    BY <2>1, <2>3, <2>4 DEF StackFits
<1>2. Init => EndedInv
  BY DEF Init, EndedInv
<1>3. Spec => [](IInv /\ StackFits /\ ErrorsHaveCauses /\ EndedInv)
  BY <1>1, <1>2, FitsStep, CauseStep, EndedStep, Invariance, PTL DEF Spec
<1>4. IInv /\ ErrorsHaveCauses /\ EndedInv => GoodFeedSucceeds
  <2> SUFFICES ASSUME IInv, ErrorsHaveCauses, EndedInv,
                      resp.status = "ok", Accepted, ~FeedIsBad, ~expired, ~cancelled,
                      Faults \subseteq {"shutdown"}
               PROVE  ret # "error" /\ row # "failed"
    BY DEF GoodFeedSucceeds
  <2>1. "network" \notin Faults /\ "database" \notin Faults
    OBVIOUS
  <2>2. status \notin {"fetch", "decode", "ctx", "store", "delete"} /\ ~groupErr
    BY <2>1 DEF ErrorsHaveCauses
  <2>3. status \in {"none", "nil"}
    BY <2>2 DEF IInv, TypeOK
  <2>4. QED
    BY <2>1, <2>2, <2>3 DEF ErrorsHaveCauses, IInv, StatusInv, TypeOK, EndedInv
<1>5. QED
  BY <1>3, <1>4, PTL
=============================================================================
