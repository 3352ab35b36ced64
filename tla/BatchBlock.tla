----------------------------- MODULE BatchBlock -----------------------------
(***************************************************************************)
(* rpcclient/syncclient/batch_block.go: the header traversal of the       *)
(* scanner, and the chain it reads through the wallet node.               *)
(*                                                                         *)
(* NextHeaders is one RPC for the newest header followed by one RPC per   *)
(* header of the batch.  The chain grows and reorganises between any two  *)
(* of them, and any of them may fail.                                     *)
(***************************************************************************)
EXTENDS Integers, Sequences

CONSTANTS
  ConfDepth,   \* blockConfirmationDepth, cfg.ChainNode.Confirmations
  BlocksStep,  \* headerBufferSize, cfg.ChainNode.BlocksStep
  StartingHeight, \* cfg.ChainNode.StartingHeight; 0: start at the newest block
  MaxHeight,   \* bound: the highest block ever mined
  InitTip,     \* the height of the chain when the scanner first starts
  MaxReorg,    \* the deepest reorganisation the chain performs
  MaxForks,    \* bound: how often one height is replaced
  MaxLag,      \* how far behind the tip a node's newest header may be
  Faulty,      \* the calls that may fail
  MaxFaults    \* bound: failing calls in one behaviour

Heights == 0..MaxHeight

ASSUME BatchBlockAssumption ==
  /\ ConfDepth \in Nat
  /\ BlocksStep \in Nat \ {0}
  /\ MaxHeight \in Nat /\ InitTip \in Heights /\ StartingHeight \in 0..InitTip
  /\ MaxReorg \in Nat /\ MaxForks \in Nat /\ MaxLag \in Nat /\ MaxFaults \in Nat

VARIABLES
  tip,           \* height of the chain
  fork,          \* fork[h]: which of the competing blocks at h is on the chain
  lastTraversed, \* BatchBlock.lastTraversedHeader.Number
  call,          \* where NextHeaders is: "none", "latest", "fetch"
  endHeight,     \* NextHeaders' clamped endHeight
  fetched,       \* the headers NextHeaders has read so far
  headers,       \* BaseSynchronizer.headers: the batch handed to the caller
  faults         \* failed calls so far

chainVars == <<tip, fork>>
nhVars == <<lastTraversed, call, endHeight, fetched, headers>>
bbVars == <<tip, fork, lastTraversed, call, endHeight, fetched, headers, faults>>

\* A header: its height, and which competing block it is the header of (its
\* hash).
Header == [height : Heights, fork : 0..MaxForks]

\* GetBlockHeader(h): the header at h as the node has it now.
HeaderAt(h) == [height |-> h, fork |-> fork[h]]

\* bigint.Clamp(start, end, size).
Clamp(start, end, size) ==
  IF end - start + 1 <= size THEN end ELSE start + size - 1

\* A call fails: the RPC to the wallet node or the database statement named.
Fault(name) == /\ name \in Faulty
               /\ faults < MaxFaults
               /\ faults' = faults + 1

-----------------------------------------------------------------------------
(* The chain. *)

Mine == /\ tip < MaxHeight
        /\ tip' = tip + 1
        /\ UNCHANGED <<fork, nhVars, faults>>

\* The newest d blocks are replaced by others.
Reorg(d) == /\ d <= tip
            /\ \A h \in (tip - d + 1)..tip : fork[h] < MaxForks
            /\ fork' = [h \in Heights |-> IF tip - d < h /\ h <= tip
                                          THEN fork[h] + 1 ELSE fork[h]]
            /\ UNCHANGED <<tip, nhVars, faults>>

-----------------------------------------------------------------------------
(* NextHeaders. *)

\* tick calls NextHeaders only when it holds no batch to retry.
CallNextHeaders == /\ call = "none"
                   /\ headers = <<>>
                   /\ call' = "latest"
                   /\ UNCHANGED <<chainVars, lastTraversed, endHeight, fetched,
                                  headers, faults>>

\* Mutant of CallFails: lastTraversedHeader moves although the call failed.
CallFailsAdvances == /\ call \in {"latest", "fetch"}
                     /\ Fault("header")
                     /\ call' = "none"
                     /\ fetched' = <<>>
                     /\ endHeight' = 0
                     /\ lastTraversed' = IF call = "fetch" THEN endHeight ELSE lastTraversed
                     /\ UNCHANGED <<chainVars, headers>>

\* NextHeaders gives up on a failed RPC: what it had read is dropped and
\* lastTraversedHeader stays.
CallFails == /\ call \in {"latest", "fetch"}
             /\ Fault("header")
             /\ call' = "none"
             /\ fetched' = <<>>
             /\ endHeight' = 0
             /\ UNCHANGED <<chainVars, lastTraversed, headers>>

\* The heights a node may answer for "the newest block".
LatestHeights == {l \in Heights : tip - MaxLag <= l /\ l <= tip}

\* Mutant of Confirmed: one confirmation short.
ConfirmedOneShort(l) == l - ConfDepth + 1

\* The end of what is confirmed when the newest height is l.
Confirmed(l) == l - ConfDepth

\* No confirmed block yet, nothing new, or the traversal is ahead of the
\* node (ErrBatchBlockAheadOfProvider): no headers.
LatestNothing(l) == /\ call = "latest"
                    /\ Confirmed(l) < 0 \/ lastTraversed >= Confirmed(l)
                    /\ call' = "none"
                    /\ UNCHANGED <<chainVars, lastTraversed, endHeight, fetched,
                                   headers, faults>>

\* Mutant of LatestRange: the last confirmed block is left for later.
LatestRangeStrict(l) == /\ call = "latest"
                        /\ 0 <= Confirmed(l) /\ lastTraversed + 1 < Confirmed(l)
                        /\ endHeight' = Clamp(lastTraversed + 1, Confirmed(l), BlocksStep)
                        /\ call' = "fetch"
                        /\ UNCHANGED <<chainVars, lastTraversed, fetched, headers, faults>>

LatestRange(l) == /\ call = "latest"
                  /\ 0 <= Confirmed(l) /\ lastTraversed < Confirmed(l)
                  /\ endHeight' = Clamp(lastTraversed + 1, Confirmed(l), BlocksStep)
                  /\ call' = "fetch"
                  /\ UNCHANGED <<chainVars, lastTraversed, fetched, headers, faults>>

NextHeight == lastTraversed + Len(fetched) + 1

FetchHeader == /\ call = "fetch"
               /\ NextHeight < endHeight
               /\ fetched' = Append(fetched, HeaderAt(NextHeight))
               /\ UNCHANGED <<chainVars, lastTraversed, call, endHeight, headers,
                              faults>>

\* The last header of the range: only now does lastTraversedHeader move, and
\* the batch is handed out.
FetchLast == /\ call = "fetch"
             /\ NextHeight = endHeight
             /\ headers' = Append(fetched, HeaderAt(NextHeight))
             /\ lastTraversed' = endHeight
             /\ call' = "none"
             /\ fetched' = <<>>
             /\ endHeight' = 0
             /\ UNCHANGED <<chainVars, faults>>

\* The caller: tick forgets the batch once processBatch returns nil.
Take == /\ headers # <<>>
        /\ headers' = <<>>
        /\ UNCHANGED <<chainVars, lastTraversed, call, endHeight, fetched, faults>>

-----------------------------------------------------------------------------
\* NewDeposit without a stored block: the header of the starting height, or the
\* newest one.
ChainStart == IF StartingHeight > 0 THEN {StartingHeight} ELSE LatestHeights

BBInit == /\ tip = InitTip
          /\ fork = [h \in Heights |-> 0]
          /\ lastTraversed \in ChainStart
          /\ call = "none"
          /\ endHeight = 0
          /\ fetched = <<>>
          /\ headers = <<>>
          /\ faults = 0

ChainNext == Mine \/ (\E d \in 1..MaxReorg : Reorg(d))

NextHeadersNext == \/ CallFails
                   \/ \E l \in LatestHeights : LatestNothing(l) \/ LatestRange(l)
                   \/ FetchHeader
                   \/ FetchLast

BBNext == ChainNext \/ CallNextHeaders \/ NextHeadersNext \/ Take

BBSpec == BBInit /\ [][BBNext]_bbVars

\* The ticker fires again and again, a call returns, the caller consumes its
\* batch.  A node that answered "nothing new" from behind the tip answers from
\* the tip sooner or later.
BBFairness == /\ WF_bbVars(CallNextHeaders)
              /\ WF_bbVars(NextHeadersNext)
              /\ SF_bbVars(LatestRange(tip))
              /\ WF_bbVars(Take)

BBLiveSpec == BBSpec /\ BBFairness

-----------------------------------------------------------------------------
(* Properties. *)

\* Every variable keeps its type.
BBTypeOK == /\ tip \in Heights
            /\ fork \in [Heights -> 0..MaxForks]
            /\ lastTraversed \in Heights
            /\ call \in {"none", "latest", "fetch"}
            /\ endHeight \in Heights
            /\ fetched \in Seq(Header)
            /\ headers \in Seq(Header)
            /\ faults \in 0..MaxFaults

\* NextHeaders' loop: what it has read continues the traversal without a gap,
\* and stays below the confirmed end it aims at.
FetchInProgress ==
  /\ \A i \in 1..Len(fetched) : fetched[i].height = lastTraversed + i
  /\ call # "fetch" => fetched = <<>>
  /\ call = "fetch" => /\ NextHeight <= endHeight
                       /\ endHeight <= tip - ConfDepth
                       /\ endHeight - lastTraversed <= BlocksStep

\* The batch the caller holds ends at lastTraversed, is consecutive and has at
\* most BlocksStep headers (NextHeaders advances lastTraversedHeader exactly to
\* the last header it returns).
BatchEndsTraversal ==
  headers # <<>> =>
    /\ \A i \in 1..Len(headers) :
         headers[i].height = lastTraversed - Len(headers) + i
    /\ Len(headers) <= BlocksStep
    /\ call = "none"

\* A header read at or below the confirmed end is the one that stays on the
\* chain: no reorganisation of at most ConfDepth blocks replaces it, however
\* the RPCs of NextHeaders interleave with the chain.
OnlyFinalHeaders ==
  MaxReorg <= ConfDepth =>
    /\ \A i \in 1..Len(fetched) : fetched[i] = HeaderAt(fetched[i].height)
    /\ \A i \in 1..Len(headers) : headers[i] = HeaderAt(headers[i].height)

\* A confirmed block above the starting point is traversed sooner or later, once the
\* node stops failing.
TraversalCatchesUp ==
  \A h \in Heights : (h <= tip - ConfDepth) ~> (h <= lastTraversed)

\* BatchBlock implements the header stream.
Stream == INSTANCE HeaderStream WITH
            Step <- BlocksStep,
            safe <- tip - ConfDepth,
            cursor <- lastTraversed,
            batch <- [i \in 1..Len(headers) |-> headers[i].height]
ImplementsHeaderStream == Stream!Spec
=============================================================================
