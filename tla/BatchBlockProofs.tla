-------------------------- MODULE BatchBlockProofs --------------------------
(***************************************************************************)
(* Proofs about BatchBlock, for every confirmation depth, batch size,     *)
(* chain length and reorganisation depth.                                 *)
(***************************************************************************)
EXTENDS BatchBlock, SequenceTheorems, TLAPS

\* Clamp returns a height of the interval that is at most size away, which is
\* what the loop of NextHeaders relies on.
LEMMA ClampInRange ==
  ASSUME NEW start \in Int, NEW end \in Int, NEW size \in Nat \ {0}, start <= end
  PROVE  /\ Clamp(start, end, size) \in Int
         /\ start <= Clamp(start, end, size)
         /\ Clamp(start, end, size) <= end
         /\ Clamp(start, end, size) - start < size
BY DEF Clamp

\* Appending a header: what NextHeaders' loop does to the headers it has.
LEMMA AppendHeader ==
  ASSUME NEW s \in Seq(Header), NEW r \in Header
  PROVE  /\ Append(s, r) \in Seq(Header)
         /\ Len(Append(s, r)) = Len(s) + 1
         /\ \A i \in 1..Len(s) : Append(s, r)[i] = s[i]
         /\ Append(s, r)[Len(s) + 1] = r
BY AppendProperties

\* Appending the next header keeps the heights consecutive.
LEMMA ConsecutiveAppend ==
  ASSUME NEW s \in Seq(Header), NEW r \in Header, NEW n \in Int,
         \A i \in 1..Len(s) : s[i].height = n + i,
         r.height = n + Len(s) + 1
  PROVE  \A i \in 1..Len(Append(s, r)) : Append(s, r)[i].height = n + i
<1>1. ASSUME NEW i \in 1..Len(Append(s, r)) PROVE i \in 1..Len(s) \/ i = Len(s) + 1
  BY AppendHeader
<1> QED BY <1>1, AppendHeader

\* The batch handed out stays confirmed: the chain only grows above it.
BatchConfirmed == \A i \in 1..Len(headers) : headers[i].height <= tip - ConfDepth

\* The inductive invariant of the traversal.
BBInv == BBTypeOK /\ FetchInProgress /\ BatchEndsTraversal /\ BatchConfirmed

\* The traversal's invariant holds initially.
LEMMA BBInvInit == BBInit => BBInv
BY BatchBlockAssumption
DEF BBInit, BBInv, BBTypeOK, FetchInProgress, BatchEndsTraversal, BatchConfirmed,
    Heights, Header, ChainStart, LatestHeights, NextHeight

\* The chain's steps keep it: the tip never goes down.
LEMMA BBInvChain == BBInv /\ ChainNext => BBInv'
<1> SUFFICES ASSUME BBInv, ChainNext PROVE BBInv'
  OBVIOUS
<1> USE BatchBlockAssumption
    DEF BBInv, BBTypeOK, Heights, nhVars
<1>1. CASE Mine
  BY <1>1 DEF Mine, FetchInProgress, BatchEndsTraversal, BatchConfirmed, NextHeight
<1>2. ASSUME NEW d \in 1..MaxReorg, Reorg(d) PROVE BBInv'
  <2>1. fork' \in [Heights -> 0..MaxForks]
    BY <1>2 DEF Reorg
  <2>2. BBTypeOK'
    BY <1>2, <2>1 DEF Reorg
  <2>3. (FetchInProgress /\ BatchEndsTraversal /\ BatchConfirmed)'
    BY <1>2 DEF Reorg, FetchInProgress, BatchEndsTraversal, BatchConfirmed, NextHeight
  <2> QED BY <2>2, <2>3
<1> QED BY <1>1, <1>2 DEF ChainNext

\* The steps of NextHeaders keep it.
LEMMA BBInvNextHeaders == BBInv /\ NextHeadersNext => BBInv'
<1> SUFFICES ASSUME BBInv, NextHeadersNext PROVE BBInv'
  OBVIOUS
<1> USE BatchBlockAssumption DEF BBInv, BBTypeOK, chainVars
<1>1. CASE CallFails
  BY <1>1 DEF CallFails, Fault, FetchInProgress, BatchEndsTraversal, BatchConfirmed,
              NextHeight, Heights
<1>2. ASSUME NEW l \in LatestHeights, LatestNothing(l) PROVE BBInv'
  BY <1>2 DEF LatestNothing, FetchInProgress, BatchEndsTraversal, BatchConfirmed,
              NextHeight
<1>3. ASSUME NEW l \in LatestHeights, LatestRange(l) PROVE BBInv'
  <2> DEFINE e == Clamp(lastTraversed + 1, Confirmed(l), BlocksStep)
  <2>1. l \in Int /\ l <= tip /\ tip \in Int /\ tip <= MaxHeight /\ lastTraversed \in Nat
    BY DEF LatestHeights, Heights
  <2>2. /\ e \in Int /\ lastTraversed + 1 <= e /\ e <= Confirmed(l)
        /\ e - (lastTraversed + 1) < BlocksStep
    <3>1. lastTraversed + 1 <= Confirmed(l) /\ Confirmed(l) \in Int
      BY <1>3, <2>1 DEF LatestRange, Confirmed
    <3>2. lastTraversed + 1 \in Int /\ BlocksStep \in Nat \ {0}
      BY <2>1
    <3> HIDE DEF BBInv, BBTypeOK
    <3> QED BY ONLY <3>1, <3>2, ClampInRange, Zenon
  <2>e. endHeight' = e
    BY <1>3 DEF LatestRange
  <2> HIDE DEF e
  <2>3. endHeight' = e /\ e <= tip - ConfDepth /\ e \in Heights
    BY <2>1, <2>2, <2>e DEF Confirmed, Heights
  <2>4. fetched = <<>> /\ headers = <<>>
    BY <1>3 DEF LatestRange, FetchInProgress, BatchEndsTraversal
  <2>5. BBTypeOK'
    BY <1>3, <2>3 DEF LatestRange
  <2>6. FetchInProgress'
    BY <1>3, <2>1, <2>2, <2>3, <2>4 DEF LatestRange, FetchInProgress, NextHeight
  <2>7. (BatchEndsTraversal /\ BatchConfirmed)'
    BY <1>3, <2>4 DEF LatestRange, BatchEndsTraversal, BatchConfirmed
  <2> QED BY <2>5, <2>6, <2>7
<1>4. CASE FetchHeader
  <2>1. /\ fetched' = Append(fetched, HeaderAt(NextHeight))
        /\ HeaderAt(NextHeight) \in Header /\ HeaderAt(NextHeight).height = NextHeight
        /\ NextHeight \in Heights
    BY <1>4 DEF FetchHeader, FetchInProgress, HeaderAt, Header, Heights, NextHeight
  <2>p. /\ fetched \in Seq(Header) /\ lastTraversed \in Int
        /\ \A i \in 1..Len(fetched) : fetched[i].height = lastTraversed + i
        /\ HeaderAt(NextHeight).height = lastTraversed + Len(fetched) + 1
    BY <2>1 DEF FetchInProgress, NextHeight, Heights
  <2>a. /\ Len(fetched') = Len(fetched) + 1 /\ Len(fetched) \in Nat
        /\ \A i \in 1..Len(fetched) : fetched'[i] = fetched[i]
        /\ fetched'[Len(fetched) + 1].height = lastTraversed + Len(fetched) + 1
    BY <2>1, AppendHeader DEF NextHeight
  <2>2. BBTypeOK'
    BY <1>4, <2>1, AppendHeader DEF FetchHeader
  <2>3. FetchInProgress'
    <3>1. \A i \in 1..Len(fetched') : fetched'[i].height = lastTraversed + i
      BY ONLY <2>1, <2>p, ConsecutiveAppend, Zenon
    <3>2. NextHeight' <= endHeight
      BY <1>4, <2>a DEF FetchHeader, NextHeight, Heights
    <3> QED BY <1>4, <3>1, <3>2 DEF FetchHeader, FetchInProgress
  <2>4. (BatchEndsTraversal /\ BatchConfirmed)'
    BY <1>4 DEF FetchHeader, BatchEndsTraversal, BatchConfirmed
  <2> QED BY <2>2, <2>3, <2>4
<1>5. CASE FetchLast
  <2>1. /\ headers' = Append(fetched, HeaderAt(NextHeight))
        /\ HeaderAt(NextHeight) \in Header /\ HeaderAt(NextHeight).height = NextHeight
        /\ NextHeight = endHeight /\ endHeight \in Heights
    BY <1>5 DEF FetchLast, HeaderAt, Header, Heights
  <2>p. /\ fetched \in Seq(Header) /\ lastTraversed \in Int
        /\ \A i \in 1..Len(fetched) : fetched[i].height = lastTraversed + i
        /\ HeaderAt(NextHeight).height = lastTraversed + Len(fetched) + 1
    BY <2>1 DEF FetchInProgress, NextHeight, Heights
  <2>a. /\ Len(headers') = Len(fetched) + 1 /\ Len(fetched) \in Nat
        /\ \A i \in 1..Len(fetched) : headers'[i] = fetched[i]
        /\ headers'[Len(fetched) + 1].height = lastTraversed + Len(fetched) + 1
    BY <2>1, AppendHeader DEF NextHeight
  <2>2. BBTypeOK'
    BY <1>5, <2>1, AppendHeader DEF FetchLast, Heights
  <2>3. FetchInProgress'
    BY <1>5 DEF FetchLast, FetchInProgress
  <2>4. \A i \in 1..Len(headers') : headers'[i].height = lastTraversed + i
    BY ONLY <2>1, <2>p, ConsecutiveAppend, Zenon
  <2>5. Len(headers') = endHeight - lastTraversed /\ lastTraversed' = endHeight
    BY <1>5, <2>1, <2>a DEF FetchLast, NextHeight, Heights
  <2>6. /\ endHeight <= tip - ConfDepth /\ endHeight - lastTraversed <= BlocksStep
        /\ call' = "none" /\ tip' = tip
        /\ tip \in Int /\ lastTraversed \in Int /\ endHeight \in Int
    BY <1>5 DEF FetchLast, FetchInProgress, Heights
  <2>7. BatchEndsTraversal'
    BY <2>4, <2>5, <2>6 DEF BatchEndsTraversal
  <2>8. BatchConfirmed'
    BY <2>4, <2>5, <2>6 DEF BatchConfirmed
  <2> QED BY <2>2, <2>3, <2>7, <2>8
<1> QED BY <1>1, <1>2, <1>3, <1>4, <1>5 DEF NextHeadersNext

\* The caller's steps keep it.
LEMMA BBInvCaller == BBInv /\ (CallNextHeaders \/ Take) => BBInv'
BY DEF BBInv, BBTypeOK, FetchInProgress, BatchEndsTraversal, BatchConfirmed, NextHeight,
       CallNextHeaders, Take, chainVars

\* One step of the traversal or a stuttering step keeps its invariant.
LEMMA BBInvNext == BBInv /\ [BBNext]_bbVars => BBInv'
<1>1. BBInv /\ UNCHANGED bbVars => BBInv'
  BY DEF BBInv, BBTypeOK, FetchInProgress, BatchEndsTraversal, BatchConfirmed, NextHeight,
         bbVars
<1> QED BY <1>1, BBInvChain, BBInvNextHeaders, BBInvCaller DEF BBNext

\* The batch NextHeaders returns is consecutive, ends at lastTraversedHeader and
\* respects the step, and the variables keep their types, for every chain and
\* every interleaving of its growth with the calls.
THEOREM TraversalInvariant == BBSpec => []BBInv
BY BBInvInit, BBInvNext, PTL DEF BBSpec

-----------------------------------------------------------------------------
\* A block at or below the confirmed end keeps its place: neither growth nor a
\* reorganisation of at most ConfDepth blocks changes the header there.
LEMMA ConfirmedStays ==
  ASSUME BBTypeOK, ChainNext, MaxReorg <= ConfDepth,
         NEW h \in Heights, h <= tip - ConfDepth
  PROVE  HeaderAt(h)' = HeaderAt(h)
<1>1. CASE Mine
  BY <1>1 DEF Mine, HeaderAt
<1>2. ASSUME NEW d \in 1..MaxReorg, Reorg(d) PROVE HeaderAt(h)' = HeaderAt(h)
  <2>1. h <= tip - d
    BY <1>2, BatchBlockAssumption DEF BBTypeOK, Heights
  <2>2. ~(tip - d < h)
    BY <2>1, BatchBlockAssumption DEF BBTypeOK, Heights
  <2> QED BY <1>2, <2>2 DEF Reorg, HeaderAt
<1> QED BY <1>1, <1>2 DEF ChainNext

\* One step keeps the headers final.
LEMMA FinalHeadersNext ==
  BBInv /\ OnlyFinalHeaders /\ [BBNext]_bbVars => OnlyFinalHeaders'
<1> SUFFICES ASSUME BBInv, OnlyFinalHeaders, [BBNext]_bbVars, MaxReorg <= ConfDepth
             PROVE  OnlyFinalHeaders'
  BY DEF OnlyFinalHeaders
<1>f. /\ \A i \in 1..Len(fetched) : fetched[i] = HeaderAt(fetched[i].height)
      /\ \A i \in 1..Len(headers) : headers[i] = HeaderAt(headers[i].height)
  BY DEF OnlyFinalHeaders
<1>1. CASE ChainNext
  <2>1. fetched' = fetched /\ headers' = headers
    BY <1>1 DEF ChainNext, Mine, Reorg, nhVars
  <2>2. ASSUME NEW i \in 1..Len(fetched)
        PROVE  fetched[i].height \in Heights /\ fetched[i].height <= tip - ConfDepth
    <3>1. call = "fetch" /\ fetched[i] \in Header
      BY DEF BBInv, BBTypeOK, FetchInProgress
    <3>2. fetched[i].height = lastTraversed + i /\ i <= Len(fetched)
      BY DEF BBInv, FetchInProgress
    <3> QED BY <3>1, <3>2, BatchBlockAssumption
            DEF BBInv, BBTypeOK, FetchInProgress, NextHeight, Header, Heights
  <2>3. ASSUME NEW i \in 1..Len(headers)
        PROVE  headers[i].height \in Heights /\ headers[i].height <= tip - ConfDepth
    <3>1. headers \in Seq(Header)
      BY DEF BBInv, BBTypeOK
    <3>2. headers[i] \in Header
      BY <3>1
    <3> QED BY <3>2 DEF BBInv, BatchConfirmed, Header
  <2>4. \A h \in Heights : h <= tip - ConfDepth => HeaderAt(h)' = HeaderAt(h)
    BY <1>1, ConfirmedStays DEF BBInv
  <2> QED BY <1>f, <2>1, <2>2, <2>3, <2>4 DEF OnlyFinalHeaders, HeaderAt
<1>2. CASE FetchHeader \/ FetchLast
  <2> DEFINE new == Append(fetched, HeaderAt(NextHeight))
  <2>1. fork' = fork
    BY <1>2 DEF FetchHeader, FetchLast, chainVars
  <2>2. HeaderAt(NextHeight) \in Header /\ HeaderAt(NextHeight).height = NextHeight
    BY <1>2, BatchBlockAssumption
    DEF FetchHeader, FetchLast, BBInv, BBTypeOK, NextHeight, HeaderAt, Header, Heights
  <2>3. \A i \in 1..Len(new) : new[i] = HeaderAt(new[i].height)
    <3>1. fetched \in Seq(Header)
      BY DEF BBInv, BBTypeOK
    <3>2. /\ Len(new) = Len(fetched) + 1
          /\ \A i \in 1..Len(fetched) : new[i] = fetched[i]
          /\ new[Len(fetched) + 1] = HeaderAt(NextHeight)
      BY <2>2, <3>1, AppendHeader
    <3>3. ASSUME NEW i \in 1..Len(new) PROVE i \in 1..Len(fetched) \/ i = Len(fetched) + 1
      BY <3>1, <3>2
    <3> HIDE DEF new
    <3> QED BY <1>f, <2>2, <3>2, <3>3
  <2>4. CASE FetchHeader
    BY <1>f, <2>1, <2>3, <2>4 DEF FetchHeader, OnlyFinalHeaders, HeaderAt
  <2>5. CASE FetchLast
    BY <1>f, <2>1, <2>3, <2>5 DEF FetchLast, OnlyFinalHeaders, HeaderAt
  <2> QED BY <1>2, <2>4, <2>5
<1>3. ASSUME UNCHANGED fork, fetched' \in {fetched, <<>>}, headers' \in {headers, <<>>}
      PROVE  OnlyFinalHeaders'
  BY <1>f, <1>3 DEF OnlyFinalHeaders, HeaderAt
<1>4. CASE CallFails \/ CallNextHeaders \/ Take \/ UNCHANGED bbVars
  BY <1>3, <1>4 DEF CallFails, CallNextHeaders, Take, bbVars, chainVars
<1>5. ASSUME NEW l \in LatestHeights, LatestNothing(l) \/ LatestRange(l)
      PROVE  OnlyFinalHeaders'
  BY <1>3, <1>5 DEF LatestNothing, LatestRange, chainVars
<1> QED BY <1>1, <1>2, <1>4, <1>5 DEF BBNext, NextHeadersNext

\* When the confirmation depth is at least the depth of the chain's
\* reorganisations, NextHeaders never returns the header of a block that is
\* replaced later.
THEOREM HeadersAreFinal == BBSpec => []OnlyFinalHeaders
<1>1. BBInit => OnlyFinalHeaders
  BY DEF BBInit, OnlyFinalHeaders
<1> QED BY <1>1, TraversalInvariant, FinalHeadersNext, PTL DEF BBSpec

-----------------------------------------------------------------------------
\* The heights of a batch of consecutive headers.
LEMMA BatchHeights ==
  ASSUME NEW hs \in Seq(Header), NEW n \in Int, NEW e \in Int, Len(hs) = e - n,
         \A i \in 1..Len(hs) : hs[i].height = n + i
  PROVE  [i \in 1..Len(hs) |-> hs[i].height] = Stream!HeightsAfter(n, e)
BY DEF Stream!HeightsAfter

\* One step of the traversal is a step of the header stream or leaves it alone.
LEMMA StreamNext ==
  BBInv /\ BBInv' /\ [BBNext]_bbVars => [Stream!Next]_(Stream!vars)
<1> SUFFICES ASSUME BBInv, BBInv', [BBNext]_bbVars PROVE [Stream!Next]_(Stream!vars)
  OBVIOUS
<1> USE DEF Stream!vars
<1>1. CASE Mine
  BY <1>1, BatchBlockAssumption
  DEF Mine, nhVars, BBInv, BBTypeOK, Heights, Stream!Next, Stream!Confirm
<1>2. CASE \E d \in 1..MaxReorg : Reorg(d)
  BY <1>2 DEF Reorg, nhVars
<1>3. CASE CallNextHeaders \/ CallFails \/ FetchHeader \/ UNCHANGED bbVars
  BY <1>3 DEF CallNextHeaders, CallFails, FetchHeader, bbVars, chainVars
<1>4. CASE \E l \in LatestHeights : LatestNothing(l) \/ LatestRange(l)
  BY <1>4 DEF LatestNothing, LatestRange, chainVars
<1>5. CASE FetchLast
  <2>1. /\ endHeight \in Int /\ lastTraversed \in Int /\ tip \in Int
        /\ lastTraversed' = endHeight /\ tip' = tip
        /\ headers' \in Seq(Header) /\ Len(fetched) \in Nat /\ fetched \in Seq(Header)
    BY <1>5 DEF FetchLast, BBInv, BBTypeOK, Heights, chainVars
  <2>2. headers = <<>>
    BY <1>5 DEF FetchLast, BBInv, BatchEndsTraversal
  <2>3. HeaderAt(NextHeight) \in Header
    BY <1>5, BatchBlockAssumption DEF FetchLast, BBInv, BBTypeOK, HeaderAt, Header
  <2>4. Len(headers') = endHeight - lastTraversed
    BY <1>5, <2>1, <2>3, AppendHeader DEF FetchLast, NextHeight
  <2>5. \A i \in 1..Len(headers') : headers'[i].height = lastTraversed + i
    BY <2>1, <2>4 DEF BBInv, BatchEndsTraversal
  <2>6. /\ lastTraversed < endHeight /\ endHeight <= tip - ConfDepth
        /\ endHeight - lastTraversed <= BlocksStep
    BY <1>5, <2>1 DEF FetchLast, BBInv, FetchInProgress, NextHeight
  <2>7. [i \in 1..Len(headers') |-> headers'[i].height]
           = Stream!HeightsAfter(lastTraversed, endHeight)
    BY ONLY <2>1, <2>4, <2>5, BatchHeights, Zenon
  <2>8. [i \in 1..Len(headers) |-> headers[i].height] = <<>>
    BY <2>2
  <2>9. endHeight \in (lastTraversed + 1)..(tip - ConfDepth)
    BY <2>1, <2>6, BatchBlockAssumption
  <2>10. \E e \in (lastTraversed + 1)..(tip - ConfDepth) : Stream!Emit(e)
    BY <2>1, <2>6, <2>7, <2>8, <2>9 DEF Stream!Emit
  <2> QED BY <2>10 DEF Stream!Next
<1>6. CASE Take
  <2>1. headers \in Seq(Header) /\ headers # <<>> /\ headers' = <<>>
    BY <1>6 DEF Take, BBInv, BBTypeOK
  <2>2. /\ [i \in 1..Len(headers) |-> headers[i].height] # <<>>
        /\ [i \in 1..Len(headers') |-> headers'[i].height] = <<>>
    BY <2>1
  <2>3. tip' = tip /\ lastTraversed' = lastTraversed
    BY <1>6 DEF Take, chainVars
  <2>4. Stream!Take
    BY <2>2, <2>3 DEF Stream!Take
  <2> QED BY <2>4 DEF Stream!Next
<1> QED BY <1>1, <1>2, <1>3, <1>4, <1>5, <1>6
        DEF BBNext, ChainNext, NextHeadersNext

\* BatchBlock, with its many calls, failures and lagging nodes, hands out exactly
\* the batches of the header stream.
THEOREM TraversalImplementsStream == BBSpec => ImplementsHeaderStream
<1>1. BBInit => Stream!Init
  <2> SUFFICES ASSUME BBInit PROVE Stream!Init
    OBVIOUS
  <2>1. tip - ConfDepth \in Int /\ lastTraversed \in Int
    BY BatchBlockAssumption DEF BBInit, ChainStart, LatestHeights, Heights
  <2>2. [i \in 1..Len(headers) |-> headers[i].height] = <<>>
    BY DEF BBInit
  <2> QED BY <2>1, <2>2 DEF Stream!Init
<1> QED BY <1>1, TraversalInvariant, StreamNext, PTL
        DEF BBSpec, ImplementsHeaderStream, Stream!Spec
=============================================================================
