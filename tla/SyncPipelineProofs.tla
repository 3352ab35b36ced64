------------------------- MODULE SyncPipelineProofs -------------------------
(***************************************************************************)
(* Proofs about the scanner, for every number of businesses, every chain   *)
(* client, every content of the blocks and of the address books, and every *)
(* bound on failures, crashes and restarts.                                 *)
(***************************************************************************)
EXTENDS SyncPipeline, BatchBlockProofs, WellFoundedInduction

\* The highest stored block is one of the stored blocks: what NewDeposit scans on
\* from.
LEMMA MaxOfHeights ==
  ASSUME NEW S \in SUBSET Heights, S # {}
  PROVE  Max(S) \in S
<1> DEFINE below == {MaxHeight - h : h \in S}
           less == OpToRel(<, Nat)
<1>1. below \subseteq Nat /\ below # {}
  <2>1. MaxHeight \in Nat /\ \A h \in S : h \in Nat /\ h <= MaxHeight
    BY BatchBlockAssumption DEF Heights
  <2>2. \A h \in S : MaxHeight - h \in Nat
    BY <2>1
  <2> QED BY <2>2, Zenon
<1>2. IsWellFoundedOn(less, Nat)
  BY NatLessThanWellFounded
<1>3. PICK m \in below : \A y \in below : ~(<<y, m>> \in less)
  <2> HIDE DEF less, below
  <2> QED BY ONLY <1>1, <1>2, WFMin, Zenon
<1>4. PICK x \in S : m = MaxHeight - x
  OBVIOUS
<1>5. ASSUME NEW y \in S PROVE x >= y
  <2>1. MaxHeight - y \in below /\ MaxHeight - y \in Nat /\ m \in Nat
    BY <1>1
  <2>2. ~(MaxHeight - y < m)
    BY <1>3, <2>1 DEF OpToRel
  <2> QED BY <1>4, <2>1, <2>2, BatchBlockAssumption DEF Heights
<1>6. \E z \in S : \A y \in S : z >= y
  BY <1>5
<1> QED BY <1>6 DEF Max

\* What a restart may scan on from is a height.
LEMMA FromHeightsAreHeights ==
  ASSUME stored \subseteq Header PROVE FromHeights \subseteq Heights
<1>1. StoredHeights \subseteq Heights
  BY DEF StoredHeights, Header
<1>2. stored # {} => StoredHeights # {}
  BY DEF StoredHeights
<1>3. ChainStart \subseteq Heights
  BY BatchBlockAssumption DEF ChainStart, LatestHeights, Heights
<1>4. stored # {} => Max(StoredHeights) \in Heights
  BY <1>1, <1>2, MaxOfHeights
<1> QED BY <1>3, <1>4 DEF FromHeights

-----------------------------------------------------------------------------
(* What the scanner's steps do to the traversal. *)

\* The traversal stays where it is; the caller may be done with its batch, and
\* some other call may have failed.
Quiet == /\ UNCHANGED <<chainVars, lastTraversed, call, endHeight, fetched>>
         /\ headers' \in {headers, <<>>}
         /\ faults' \in 0..MaxFaults

\* The traversal is gone, or begins anew.
Reset == /\ UNCHANGED chainVars
         /\ lastTraversed' \in Heights
         /\ call' = "none" /\ endHeight' = 0
         /\ fetched' = <<>> /\ headers' = <<>>
         /\ faults' \in 0..MaxFaults

\* Every step of the scanner is one of the traversal or does one of the two.
LEMMA TraversalSteps ==
  TypeOK /\ [Next]_vars => [BBNext]_bbVars \/ Quiet \/ Reset
<1> SUFFICES ASSUME TypeOK, [Next]_vars PROVE [BBNext]_bbVars \/ Quiet \/ Reset
  OBVIOUS
<1>f. faults \in 0..MaxFaults /\ 0 \in Heights /\ stored \subseteq Header
  BY BatchBlockAssumption DEF TypeOK, BBTypeOK, Heights
<1>n. ASSUME NEW name, Fault(name) PROVE faults' \in 0..MaxFaults
  BY <1>f, <1>n, BatchBlockAssumption DEF Fault
<1>1. CASE Services
  BY <1>1 DEF Services, StoreBusiness, CreateTableFromTemplate, StoreAddresses
<1>2. CASE Chain
  BY <1>2 DEF Chain, BBNext
<1>3. CASE Producer
  <2>1. CASE TickNext \/ NextHeadersEmpty \/ NextHeadersCalls \/ NextHeadersReturns
    <3>1. CallNextHeaders \/ NextHeadersNext
      BY <2>1 DEF TickNext, NextHeadersEmpty, NextHeadersCalls, NextHeadersReturns,
                  NextHeadersNext
    <3> QED BY <3>1 DEF BBNext
  <2>2. CASE TickRetry \/ LoopExit \/ ScanBlock \/ SendBatch
    BY <2>2 DEF TickRetry, LoopExit, ScanBlock, SendBatch
  <2>3. CASE NextHeadersPanics \/ ScanPanics
    <3>1. Die /\ faults' \in 0..MaxFaults
      BY <1>f, <1>n, <2>3 DEF NextHeadersPanics, ScanPanics
    <3> QED BY <1>f, <3>1 DEF Die, Reset
  <2>4. CASE ScanFails \/ ScanNothing
    BY <1>n, <2>4 DEF ScanFails, ScanNothing, Quiet, nhVars
  <2>5. CASE ScanDrops
    <3>1. faults' \in 0..MaxFaults
      BY <1>f, <1>n, <2>5 DEF ScanDrops
    <3> QED BY <2>5, <3>1 DEF ScanDrops, Quiet
  <2>6. CASE StoreBlocks
    BY <1>f, <2>6 DEF StoreBlocks, Quiet
  <2>7. CASE StoreBlocksFails
    <3>1. faults' \in 0..MaxFaults
      BY <1>f, <1>n, <2>7 DEF StoreBlocksFails
    <3> QED BY <2>7, <3>1 DEF StoreBlocksFails, Quiet, nhVars
  <2> QED BY <1>3, <2>1, <2>2, <2>3, <2>4, <2>5, <2>6, <2>7 DEF Producer
<1>4. CASE Consumer
  <2>1. faults' \in 0..MaxFaults
    BY <1>f, <1>n, <1>4 DEF Consumer, ListBusiness, Prepare, PreparePanics, HandleFails,
       RetryAttempt, Commit, AttemptFails, HandleDone, ReceiveClosed
  <2>2. UNCHANGED <<chainVars, nhVars>>
    BY <1>4 DEF Consumer, ListBusiness, Prepare, PreparePanics, HandleFails,
       RetryAttempt, Commit, AttemptFails, HandleDone, ReceiveClosed, ConsumerFrame
  <2> QED BY <2>1, <2>2 DEF Quiet, nhVars
<1>5. CASE Main \/ Interrupt
  BY <1>5 DEF Main, LoopCancel, CloseChannel, ResourceCancel, TasksWait, Interrupt,
              MainFrame
<1>6. CASE Crash
  BY <1>f, <1>6 DEF Crash, Die, Reset
<1>7. CASE Start
  <2>1. FromHeights \subseteq Heights
    BY <1>f, FromHeightsAreHeights
  <2> QED BY <1>7, <1>f, <2>1 DEF Start, Reset
<1>8. CASE UNCHANGED vars
  BY <1>8 DEF vars
<1> QED BY <1>1, <1>2, <1>3, <1>4, <1>5, <1>6, <1>7, <1>8 DEF Next

\* The traversal keeps its invariant inside the scanner.
LEMMA TraversalKept == TypeOK /\ BBInv /\ [Next]_vars => BBInv'
<1> SUFFICES ASSUME BBInv, Quiet \/ Reset PROVE BBInv'
  BY TraversalSteps, BBInvNext
<1> USE BatchBlockAssumption DEF BBInv, BBTypeOK, FetchInProgress, BatchEndsTraversal, BatchConfirmed,
        NextHeight, chainVars
<1>1. CASE Quiet
  BY <1>1 DEF Quiet
<1>2. CASE Reset
  <2>1. 0 \in Heights
    BY DEF Heights
  <2> QED BY <1>2, <2>1 DEF Reset
<1> QED BY <1>1, <1>2

-----------------------------------------------------------------------------
(* The inductive invariant. *)

\* Where the producer is, and what it holds there.
Phases == /\ call # "none" => prod = "headers"
          /\ prod = "headers" => headers = <<>>
          /\ prod \in {"scan", "send", "store"} => headers # <<>> /\ pos <= Len(headers)

\* The consumer's attempts: one more fits, for a row that is still to be handled.
Handling == cons \in {"retry", "attempt"} =>
              cur \in Business /\ todo[cur] > 0 /\ attempts < MaxAttempts

\* Close's order: the channel is closed after the loop has ended, and it returns
\* after the task has ended.
Closing == /\ ChannelClosed \/ ~Up => prod = "exited"
           /\ main = "stopped" => cons \in {"done", "failed", "panicked"}

\* The batch that is about to be stored was sent.
HeldIsDelivered == prod = "store" => \A h \in HeldHeights : delivered[h] > 0

\* Below a stored block everything was sent or given up, which is what makes it
\* safe to scan on from there after a restart.
SettledBelowStored ==
  \A s \in StoredHeights : \A h \in (origin + 1)..s : delivered[h] > 0 \/ h \in dropped

\* The blocks that may be sent next have a failure or a start to spare.
SpareAttempt ==
  Up => /\ \A h \in Heights : h > lastTraversed => delivered[h] < storeErrs + starts
        /\ prod # "store" => \A h \in HeldHeights : delivered[h] < storeErrs + starts

PipelineInv == /\ TypeOK /\ BBInv /\ Phases /\ Handling /\ Closing
               /\ NoSilentSkip /\ StoredAfterSent /\ HeldIsDelivered /\ SettledBelowStored
               /\ ResentOnlyAfterFailure /\ SpareAttempt

\* Adding up two tables of counts.
LEMMA PlusCounts == \A f, g \in Counts : Plus(f, g) \in Counts
BY DEF Counts, Plus

\* No count at all.
LEMMA NoCountsType == NoCounts \in Counts /\ [b \in Business |-> 0] \in [Business -> Nat]
BY DEF Counts, NoCounts

\* The headers of a batch, and their heights.
LEMMA HeldHeaders ==
  ASSUME headers \in Seq(Header)
  PROVE  /\ DOMAIN headers = 1..Len(headers) /\ Len(headers) \in Nat
         /\ \A i \in 1..Len(headers) : headers[i] \in Header /\ headers[i].height \in Heights
         /\ HeldHeights = {headers[i].height : i \in 1..Len(headers)}
         /\ HeldHeights \subseteq Heights
         /\ {headers[i] : i \in DOMAIN headers} \subseteq Header
<1>1. DOMAIN headers = 1..Len(headers) /\ Len(headers) \in Nat
  OBVIOUS
<1>2. \A i \in 1..Len(headers) : headers[i] \in Header
  OBVIOUS
<1>3. \A i \in 1..Len(headers) : headers[i].height \in Heights
  BY <1>2 DEF Header
<1> QED BY <1>1, <1>2, <1>3, Zenon DEF HeldHeights

\* A process that has died or starts has well-typed memory.
LEMMA TypesAfterDie == TypeOK /\ BBTypeOK' /\ Die => TypeOK'
<1> SUFFICES ASSUME TypeOK, BBTypeOK', Die PROVE TypeOK'
  OBVIOUS
<1>1. 0 \in 0..MaxAttempts
  BY PipelineAssumption
<1>2. applied' \in BOOLEAN /\ shutdown' \in BOOLEAN
  BY Zenon DEF Die
<1>3. todo' \in [Business -> Nat] /\ batch' \in Counts /\ taken' \in Counts
  BY NoCountsType, Zenon DEF Die
<1> QED BY <1>1, <1>2, <1>3 DEF TypeOK, Die, outerVars, histVars

\* The producer's steps keep the types.
LEMMA TypesProducer == TypeOK /\ Phases /\ BBTypeOK' /\ Producer => TypeOK'
<1> SUFFICES ASSUME TypeOK, Phases, BBTypeOK', Producer PROVE TypeOK'
  OBVIOUS
<1> USE NoCountsType DEF TypeOK, ProducerFrame, consVars, procVars, outerVars, histVars
<1>1. CASE TickNext \/ TickRetry \/ LoopExit
  BY <1>1 DEF TickNext, TickRetry, LoopExit
<1>2. CASE NextHeadersEmpty \/ NextHeadersCalls \/ NextHeadersReturns
  BY <1>2 DEF NextHeadersEmpty, NextHeadersCalls, NextHeadersReturns, prodVars
<1>3. CASE NextHeadersPanics \/ ScanPanics
  BY <1>3, TypesAfterDie DEF NextHeadersPanics, ScanPanics
<1>4. CASE ScanFails
  BY <1>4 DEF ScanFails
<1>9. CASE ScanNothing
  BY <1>9 DEF ScanNothing, NextBlock
<1>5. CASE ScanDrops
  <2>1. HeldHeights \subseteq Heights
    BY HeldHeaders DEF BBTypeOK
  <2> QED BY <1>5, <2>1 DEF ScanDrops
<1>6. CASE ScanBlock
  <2>1. headers[pos] \in Header /\ headers # <<>> /\ Len(headers) \in Nat
    <3>1. headers \in Seq(Header) /\ Len(headers) \in Nat
      BY DEF BBTypeOK
    <3>2. headers # <<>> /\ pos \in 1..Len(headers)
      BY <1>6, <3>1 DEF ScanBlock, Phases
    <3> QED BY <3>1, <3>2
  <2>2. Height \in Heights /\ HeaderAt(Height) \in Header
    BY <2>1 DEF Height, HeaderAt, Header, BBTypeOK
  <2>3. batch' \in Counts
    <3>1. \A b \in Business : [batch[b] EXCEPT ![Height] = @ + rows[b]] \in [Heights -> Nat]
      BY <2>2 DEF Counts
    <3> QED BY <1>6, <3>1 DEF ScanBlock, Counts
  <2> QED BY <1>6, <2>1, <2>2, <2>3 DEF ScanBlock, NextBlock
<1>7. CASE SendBatch
  <2>1. sent' \in Counts
    BY <1>7, PlusCounts DEF SendBatch
  <2>2. delivered' \in [Heights -> Nat]
    BY <1>7 DEF SendBatch
  <2> QED BY <1>7, <2>1, <2>2 DEF SendBatch
<1>8. CASE StoreBlocks \/ StoreBlocksFails
  <2>1. StoredNow \subseteq Header
    BY HeldHeaders DEF StoredNow, BBTypeOK
  <2> QED BY <1>8, <2>1 DEF StoreBlocks, StoreBlocksFails
<1> QED BY <1>1, <1>2, <1>3, <1>4, <1>5, <1>6, <1>7, <1>8, <1>9 DEF Producer

\* The consumer's steps keep the types and, with them, room for one more attempt.
LEMMA TypesConsumer ==
  TypeOK /\ Handling /\ BBTypeOK' /\ Consumer => TypeOK' /\ Handling'
<1> SUFFICES ASSUME TypeOK, Handling, BBTypeOK', Consumer PROVE TypeOK' /\ Handling'
  OBVIOUS
<1>a. MaxAttempts \in Nat \ {0} /\ 0 \in 0..MaxAttempts
  BY PipelineAssumption
<1> USE <1>a, NoCountsType DEF TypeOK, Handling, ConsumerFrame, prodVars, procVars, outerVars, histVars
<1>1. CASE ListBusiness
  <2>1. todo' \in [Business -> Nat]
    BY <1>1 DEF ListBusiness
  <2>2. Handling'
    BY <1>1 DEF ListBusiness
  <2> HIDE DEF Handling
  <2> QED BY <1>1, <2>1, <2>2 DEF ListBusiness
<1>2. ASSUME NEW b \in Business, Prepare(b) PROVE TypeOK' /\ Handling'
  <2>1. applied' \in BOOLEAN
    BY <1>2, Zenon DEF Prepare
  <2> QED BY <1>2, <2>1 DEF Prepare
<1>3. CASE PreparePanics
  <2>1. shutdown' \in BOOLEAN
    BY <1>3, Zenon DEF PreparePanics
  <2> QED BY <1>3, <2>1 DEF PreparePanics
<1>6. CASE HandleFails \/ RetryAttempt \/ HandleDone \/ ReceiveClosed
  BY <1>6 DEF HandleFails, RetryAttempt, HandleDone, ReceiveClosed
<1>i. cons = "attempt" => Inserted \in Counts
  BY DEF Inserted, Counts
<1>4. CASE Commit
  BY <1>4, <1>i DEF Commit
<1>5. CASE AttemptFails
  <2>1. recorded' \in Counts /\ applied' \in BOOLEAN
    BY <1>5, <1>i DEF AttemptFails
  <2>2. /\ attempts' \in 0..MaxAttempts
        /\ cons' \in {"retry", "failed"}
        /\ cons' = "retry" => attempts' < MaxAttempts
    BY <1>5 DEF AttemptFails, AfterFailure
  <2> QED BY <1>5, <2>1, <2>2 DEF AttemptFails
<1> QED BY <1>1, <1>2, <1>3, <1>4, <1>5, <1>6 DEF Consumer

\* So do all the others.
LEMMA TypesNext ==
  TypeOK /\ Handling /\ Phases /\ BBTypeOK' /\ [Next]_vars => TypeOK' /\ Handling'
<1> SUFFICES ASSUME TypeOK, Handling, Phases, BBTypeOK', [Next]_vars
             PROVE  TypeOK' /\ Handling'
  OBVIOUS
<1>1. CASE Services
  BY <1>1 DEF TypeOK, Handling, Services, StoreBusiness, CreateTableFromTemplate,
              StoreAddresses, prodVars, consVars, procVars, histVars
<1>2. CASE Chain
  BY <1>2 DEF TypeOK, Handling, Chain, prodVars, consVars, procVars, outerVars, histVars
<1>3. CASE Producer
  <2>1. TypeOK'
    BY <1>3, TypesProducer
  <2>2. Handling'
    BY <1>3 DEF Handling, Producer, ProducerFrame, consVars, Die, TickNext, TickRetry,
       LoopExit, NextHeadersPanics, NextHeadersEmpty, NextHeadersCalls,
       NextHeadersReturns, ScanFails, ScanDrops, ScanPanics, ScanNothing, ScanBlock,
       SendBatch, StoreBlocks, StoreBlocksFails
  <2> QED BY <2>1, <2>2
<1>4. CASE Consumer
  BY <1>4, TypesConsumer
<1>5. CASE Main \/ Interrupt
  BY <1>5 DEF TypeOK, Handling, Main, LoopCancel, CloseChannel, ResourceCancel, TasksWait,
              Interrupt, MainFrame, prodVars, consVars, outerVars, histVars
<1>6. CASE Crash
  <2>1. Handling'
    BY <1>6 DEF Crash, Die, Handling
  <2> QED BY <1>6, <2>1, TypesAfterDie DEF Crash
<1>7. CASE Start
  <2>1. origin' \in Heights
    BY <1>7 DEF Start, TypeOK, BBTypeOK
  <2>2. 0 \in 0..MaxAttempts
    BY PipelineAssumption
  <2>3. /\ applied' \in BOOLEAN /\ shutdown' \in BOOLEAN
        /\ todo' \in [Business -> Nat] /\ batch' \in Counts /\ taken' \in Counts
    BY <1>7, NoCountsType, Zenon DEF Start
  <2> QED BY <1>7, <2>1, <2>2, <2>3
          DEF Start, TypeOK, Handling, outerVars
<1>8. CASE UNCHANGED vars
  BY <1>8 DEF vars, TypeOK, Handling, prodVars, consVars, procVars, outerVars, histVars
<1> QED BY <1>1, <1>2, <1>3, <1>4, <1>5, <1>6, <1>7, <1>8 DEF Next

-----------------------------------------------------------------------------
(* Where the goroutines are. *)

\* What everyone but the producer, a crash and a start leaves alone.
scanVars == <<lastTraversed, call, headers, prodVars, stored, histVars>>

\* The steps of the others.
LEMMA OthersKeepScan ==
  ASSUME Services \/ Chain \/ Consumer \/ Main \/ Interrupt \/ UNCHANGED vars
  PROVE  UNCHANGED scanVars
<1>1. CASE Services
  BY <1>1 DEF Services, StoreBusiness, CreateTableFromTemplate, StoreAddresses, scanVars,
              bbVars
<1>2. CASE Chain
  BY <1>2 DEF Chain, ChainNext, Mine, Reorg, nhVars, scanVars
<1>3. CASE Consumer
  BY <1>3 DEF Consumer, ListBusiness, Prepare, PreparePanics, HandleFails, RetryAttempt,
              Commit, AttemptFails, HandleDone, ReceiveClosed, ConsumerFrame, nhVars,
              scanVars
<1>4. CASE Main \/ Interrupt \/ UNCHANGED vars
  BY <1>4 DEF Main, LoopCancel, CloseChannel, ResourceCancel, TasksWait, Interrupt,
              MainFrame, vars, scanVars, bbVars
<1> QED BY <1>1, <1>2, <1>3, <1>4

\* The producer holds what it needs at each of its steps.
LEMMA PhasesNext == TypeOK /\ BBInv /\ Phases /\ [Next]_vars => Phases'
<1> SUFFICES ASSUME TypeOK, BBInv, Phases, [Next]_vars PROVE Phases'
  OBVIOUS
<1>1. CASE Services \/ Chain \/ Consumer \/ Main \/ Interrupt \/ UNCHANGED vars
  BY <1>1, OthersKeepScan DEF scanVars, prodVars, Phases
<1>2. CASE TickNext \/ LoopExit
  BY <1>2 DEF TickNext, CallNextHeaders, LoopExit, bbVars, Phases
<1>3. CASE TickRetry
  <2>1. Len(headers) >= 1
    BY <1>3 DEF TickRetry, TypeOK, BBTypeOK
  <2> QED BY <1>3, <2>1 DEF TickRetry, bbVars, Phases
<1>4. CASE NextHeadersPanics \/ ScanPanics \/ Crash \/ Start
  BY <1>4 DEF NextHeadersPanics, ScanPanics, Crash, Die, Start, Phases
<1>5. CASE NextHeadersEmpty
  BY <1>5 DEF NextHeadersEmpty, CallFails, LatestNothing, Phases
<1>6. CASE NextHeadersCalls
  BY <1>6 DEF NextHeadersCalls, FetchHeader, LatestRange, prodVars, Phases
<1>7. CASE NextHeadersReturns
  <2>1. headers' = Append(fetched, HeaderAt(NextHeight)) /\ fetched \in Seq(Header)
    BY <1>7 DEF NextHeadersReturns, FetchLast, TypeOK, BBTypeOK
  <2>2. HeaderAt(NextHeight) \in Header
    BY <1>7, BatchBlockAssumption
    DEF NextHeadersReturns, FetchLast, BBInv, BBTypeOK, HeaderAt, Header
  <2>3. Len(headers') >= 1 /\ headers' # <<>>
    BY <2>1, <2>2, AppendHeader
  <2> QED BY <1>7, <2>3 DEF NextHeadersReturns, FetchLast, Phases
<1>8. CASE ScanFails \/ ScanDrops \/ StoreBlocks \/ StoreBlocksFails
  BY <1>8 DEF ScanFails, ScanDrops, StoreBlocks, StoreBlocksFails, nhVars, Phases
<1>9. CASE ScanNothing \/ ScanBlock \/ SendBatch
  BY <1>9 DEF ScanNothing, ScanBlock, NextBlock, SendBatch, nhVars, bbVars, Phases, TypeOK,
              BBTypeOK
<1> QED BY <1>1, <1>2, <1>3, <1>4, <1>5, <1>6, <1>7, <1>8, <1>9 DEF Next, Producer

\* A loop that has ended stays so until the next start, and so does a task.
LEMMA ClosingNext == TypeOK /\ Closing /\ [Next]_vars => Closing'
<1> SUFFICES ASSUME TypeOK, Closing, [Next]_vars PROVE Closing'
  OBVIOUS
<1> USE DEF Closing, ChannelClosed, Up
<1>1. CASE Services \/ Chain \/ UNCHANGED vars
  <2>1. UNCHANGED <<prod, cons, main>>
    BY <1>1 DEF Services, StoreBusiness, CreateTableFromTemplate, StoreAddresses, Chain,
                prodVars, consVars, procVars, vars
  <2> QED BY <2>1
<1>2. CASE Producer
  <2>1. CASE NextHeadersPanics \/ ScanPanics
    BY <2>1 DEF NextHeadersPanics, ScanPanics, Die
  <2>2. ASSUME ~(NextHeadersPanics \/ ScanPanics)
        PROVE  prod # "exited" /\ main' = main
    BY <1>2, <2>2 DEF Producer, ProducerFrame, procVars, TickNext, TickRetry, LoopExit,
       NextHeadersEmpty, NextHeadersCalls, NextHeadersReturns, ScanFails, ScanDrops,
       ScanNothing, ScanBlock, SendBatch, StoreBlocks, StoreBlocksFails
  <2> QED BY <2>1, <2>2
<1>3. CASE Consumer
  <2>1. UNCHANGED <<prod, main>> /\ cons \notin {"done", "failed", "panicked"}
    BY <1>3 DEF Consumer, ListBusiness, Prepare, PreparePanics, HandleFails, RetryAttempt,
                Commit, AttemptFails, HandleDone, ReceiveClosed, ConsumerFrame, prodVars,
                procVars
  <2> QED BY <2>1
<1>4. CASE Main \/ Interrupt
  BY <1>4 DEF Main, LoopCancel, CloseChannel, ResourceCancel, TasksWait, Interrupt,
              MainFrame, prodVars, consVars
<1>5. CASE Crash \/ Start
  BY <1>5 DEF Crash, Die, Start
<1> QED BY <1>1, <1>2, <1>3, <1>4, <1>5 DEF Next

-----------------------------------------------------------------------------
(* Nothing is skipped. *)

Scanned == NoSilentSkip /\ StoredAfterSent /\ HeldIsDelivered /\ SettledBelowStored

\* The batch held ends at the last height traversed.
LEMMA HeldBelowTraversed ==
  ASSUME BBInv PROVE \A h \in HeldHeights : h \in Heights /\ h <= lastTraversed
<1>1. headers \in Seq(Header) /\ lastTraversed \in Int
  BY DEF BBInv, BBTypeOK, Heights
<1>2. ASSUME NEW i \in 1..Len(headers) PROVE headers[i].height <= lastTraversed
  <2>1. headers[i].height = lastTraversed - Len(headers) + i
    BY <1>1 DEF BBInv, BatchEndsTraversal
  <2> QED BY <1>1, <2>1
<1>3. \A i \in 1..Len(headers) : headers[i].height \in Heights
  BY <1>1, HeldHeaders
<1>4. HeldHeights = {headers[i].height : i \in 1..Len(headers)}
  BY <1>1, HeldHeaders
<1> QED BY <1>2, <1>3, <1>4, Zenon

\* The batch that NextHeaders returns holds every height it moved over.
LEMMA ReturnedHeights ==
  ASSUME BBInv, BBInv', FetchLast
  PROVE  /\ headers = <<>> /\ lastTraversed' = endHeight
         /\ \A h \in (lastTraversed + 1)..endHeight : h \in HeldHeights'
         /\ \A h \in HeldHeights' : h \in Heights /\ lastTraversed < h
<1>1. /\ lastTraversed' = endHeight /\ endHeight \in Int /\ lastTraversed \in Int
      /\ headers' \in Seq(Header) /\ fetched \in Seq(Header)
      /\ HeaderAt(NextHeight) \in Header /\ NextHeight = endHeight
  BY BatchBlockAssumption DEF FetchLast, BBInv, BBTypeOK, Heights, HeaderAt, Header
<1>2. Len(headers') = endHeight - lastTraversed
  BY <1>1, AppendHeader DEF FetchLast, NextHeight
<1>3. headers = <<>>
  BY DEF FetchLast, BBInv, BatchEndsTraversal
<1>4. \A i \in 1..Len(headers') : headers'[i].height = lastTraversed + i
  BY <1>1, <1>2 DEF BBInv, BatchEndsTraversal
<1>5. HeldHeights' = {headers'[i].height : i \in 1..Len(headers')}
  BY <1>1 DEF HeldHeights
<1>6. ASSUME NEW h \in (lastTraversed + 1)..endHeight PROVE h \in HeldHeights'
  <2>1. h - lastTraversed \in 1..Len(headers')
    BY <1>1, <1>2
  <2>2. headers'[h - lastTraversed].height = h
    BY <1>1, <1>4, <2>1
  <2> QED BY <1>5, <2>1, <2>2
<1>7. ASSUME NEW h \in HeldHeights' PROVE h \in Heights /\ lastTraversed < h
  <2>1. PICK i \in 1..Len(headers') : h = headers'[i].height
    BY <1>5
  <2>2. headers'[i] \in Header
    BY <1>1
  <2> QED BY <1>1, <1>2, <1>4, <2>1, <2>2 DEF Header
<1> QED BY <1>1, <1>3, <1>6, <1>7

\* Storing the batch that was sent: everything up to its last block is settled.
LEMMA StoringSettles ==
  ASSUME TypeOK, BBInv, Scanned, prod = "store",
         stored' = StoredNow, UNCHANGED <<origin, delivered, dropped, lastTraversed>>,
         headers' \in {headers, <<>>}, prod' = "idle"
  PROVE  Scanned'
<1>1. StoredHeights' = StoredHeights \cup HeldHeights
  BY DEF StoredHeights, StoredNow, HeldHeights
<1>2. \A h \in HeldHeights : delivered[h] > 0 /\ h \in Heights /\ h <= lastTraversed
  BY HeldBelowTraversed DEF Scanned, HeldIsDelivered
<1>3. /\ lastTraversed \in Int /\ origin \in Int
      /\ \A h \in Heights : h \in Int
  BY DEF TypeOK, BBTypeOK, Heights
<1>4. \A h \in (origin + 1)..lastTraversed : delivered[h] > 0 \/ h \in dropped
  BY <1>2 DEF Scanned, NoSilentSkip
<1>5. NoSilentSkip'
  BY <1>4 DEF NoSilentSkip
<1>6. StoredAfterSent'
  BY <1>1, <1>2 DEF Scanned, StoredAfterSent
<1>7. SettledBelowStored'
  <2> SUFFICES ASSUME NEW s \in StoredHeights \cup HeldHeights, NEW h \in (origin + 1)..s
               PROVE  delivered[h] > 0 \/ h \in dropped
    BY <1>1 DEF SettledBelowStored
  <2>1. CASE s \in StoredHeights
    BY <2>1 DEF Scanned, SettledBelowStored
  <2>2. CASE s \in HeldHeights
    <3>1. h \in (origin + 1)..lastTraversed
      BY <1>2, <1>3, <2>2
    <3> QED BY <1>4, <3>1
  <2> QED BY <2>1, <2>2
<1> QED BY <1>5, <1>6, <1>7 DEF Scanned, HeldIsDelivered

\* Every step of the scanner keeps account of every block.
LEMMA ScannedNext ==
  TypeOK /\ BBInv /\ BBInv' /\ Phases /\ Scanned /\ [Next]_vars => Scanned'
<1> SUFFICES ASSUME TypeOK, BBInv, BBInv', Phases, Scanned, [Next]_vars PROVE Scanned'
  OBVIOUS
<1> DEFINE history == <<origin, delivered, dropped, stored>>
<1>1. ASSUME UNCHANGED <<lastTraversed, headers, history>>, prod' = prod \/ prod' # "store"
      PROVE  Scanned'
  BY <1>1 DEF Scanned, NoSilentSkip, StoredAfterSent, HeldIsDelivered, SettledBelowStored,
              HeldHeights, StoredHeights
<1>2. CASE Services \/ Chain \/ Consumer \/ Main \/ Interrupt \/ UNCHANGED vars
  BY <1>1, <1>2, OthersKeepScan DEF scanVars, prodVars, histVars
<1>3. CASE TickNext \/ TickRetry \/ LoopExit \/ ScanFails \/ ScanNothing \/ ScanBlock
  BY <1>1, <1>3 DEF TickNext, CallNextHeaders, TickRetry, LoopExit, ScanFails, ScanNothing,
                    ScanBlock, NextBlock, bbVars, nhVars, histVars
<1>4. CASE NextHeadersEmpty
  BY <1>1, <1>4 DEF NextHeadersEmpty, CallFails, LatestNothing, histVars
<1>5. CASE NextHeadersCalls
  BY <1>1, <1>5 DEF NextHeadersCalls, FetchHeader, LatestRange, prodVars, histVars
<1>6. CASE NextHeadersPanics \/ ScanPanics \/ Crash
  <2>1. lastTraversed' = 0 /\ prod' = "exited" /\ UNCHANGED history
    BY <1>6 DEF NextHeadersPanics, ScanPanics, Crash, Die, histVars
  <2>2. (origin + 1)..0 = {}
    BY DEF TypeOK, Heights
  <2> QED BY <2>1, <2>2 DEF Scanned, NoSilentSkip, StoredAfterSent, HeldIsDelivered,
                            SettledBelowStored, StoredHeights
<1>7. CASE NextHeadersReturns
  <2>1. UNCHANGED history /\ prod' = "scan" /\ FetchLast
    BY <1>7 DEF NextHeadersReturns, histVars
  <2>2. /\ headers = <<>> /\ lastTraversed' = endHeight
        /\ \A h \in (lastTraversed + 1)..endHeight : h \in HeldHeights'
    BY <2>1, ReturnedHeights
  <2>3. NoSilentSkip'
    <3> SUFFICES ASSUME NEW h \in (origin + 1)..endHeight
                 PROVE  delivered[h] > 0 \/ h \in dropped \/ h \in HeldHeights'
      BY <2>1, <2>2 DEF NoSilentSkip
    <3>1. h \in (origin + 1)..lastTraversed \/ h \in (lastTraversed + 1)..endHeight
      BY DEF TypeOK, BBTypeOK, Heights
    <3>2. HeldHeights = {}
      BY <2>2 DEF HeldHeights
    <3> QED BY <2>2, <3>1, <3>2 DEF Scanned, NoSilentSkip
  <2> QED BY <2>1, <2>3 DEF Scanned, StoredAfterSent, HeldIsDelivered, SettledBelowStored,
                            StoredHeights
<1>8. CASE ScanDrops
  <2>1. /\ dropped' = dropped \cup HeldHeights /\ headers' = <<>> /\ prod' = "idle"
        /\ UNCHANGED <<lastTraversed, origin, delivered, stored>>
    BY <1>8 DEF ScanDrops
  <2> QED BY <2>1 DEF Scanned, NoSilentSkip, StoredAfterSent, HeldIsDelivered,
                      SettledBelowStored, StoredHeights
<1>9. CASE SendBatch
  <2>1. UNCHANGED <<lastTraversed, headers, origin, dropped, stored>> /\ prod' = "store"
    BY <1>9 DEF SendBatch, bbVars
  <2>2. HeldHeights \subseteq Heights /\ StoredHeights \subseteq Heights
    BY HeldHeaders DEF TypeOK, BBTypeOK, StoredHeights, Header
  <2>3. \A h \in Heights : /\ delivered[h] > 0 => delivered'[h] > 0
                           /\ h \in HeldHeights => delivered'[h] > 0
    BY <1>9 DEF SendBatch, TypeOK
  <2>4. \A a \in Heights, b \in Heights : \A h \in (a + 1)..b : h \in Heights
    BY BatchBlockAssumption DEF Heights
  <2>5. NoSilentSkip'
    BY <2>1, <2>3, <2>4 DEF Scanned, NoSilentSkip, HeldHeights, TypeOK, BBTypeOK
  <2>6. StoredAfterSent'
    BY <2>1, <2>2, <2>3 DEF Scanned, StoredAfterSent, StoredHeights
  <2>7. HeldIsDelivered'
    BY <2>1, <2>2, <2>3 DEF HeldIsDelivered, HeldHeights
  <2>8. SettledBelowStored'
    <3>1. \A s \in StoredHeights : \A h \in (origin + 1)..s : h \in Heights
      BY <2>2, <2>4 DEF TypeOK
    <3> QED BY <2>1, <2>3, <3>1 DEF Scanned, SettledBelowStored, StoredHeights
  <2> QED BY <2>5, <2>6, <2>7, <2>8 DEF Scanned
<1>10. CASE StoreBlocks \/ StoreBlocksFails
  <2>1. /\ prod = "store" /\ prod' = "idle" /\ headers' \in {headers, <<>>}
        /\ UNCHANGED <<origin, delivered, dropped, lastTraversed>>
        /\ stored' = StoredNow \/ UNCHANGED <<stored, headers>>
    BY <1>10 DEF StoreBlocks, StoreBlocksFails, nhVars, histVars
  <2> QED BY <1>1, <2>1, StoringSettles
<1>11. CASE Start
  <2>1. /\ lastTraversed' \in FromHeights /\ prod' = "idle"
        /\ origin' = IF stored = {} THEN lastTraversed' ELSE origin
        /\ UNCHANGED <<stored, delivered, dropped>>
    BY <1>11 DEF Start
  <2>2. StoredAfterSent' /\ HeldIsDelivered' /\ SettledBelowStored'
    BY <2>1 DEF Scanned, StoredAfterSent, HeldIsDelivered, SettledBelowStored, StoredHeights
  <2>3. CASE stored = {}
    <3>1. origin' = lastTraversed' /\ lastTraversed' \in Int
      BY <2>1, <2>3 DEF BBInv, BBTypeOK, Heights
    <3>2. (origin' + 1)..lastTraversed' = {}
      <4>1. \A n \in Int : (n + 1)..n = {}
        OBVIOUS
      <4> QED BY <3>1, <4>1
    <3> QED BY <2>2, <3>2 DEF Scanned, NoSilentSkip
  <2>4. CASE stored # {}
    <3>1. StoredHeights \in SUBSET Heights /\ StoredHeights # {}
      BY <2>4 DEF TypeOK, StoredHeights, Header
    <3>2. lastTraversed' \in StoredHeights
      BY <2>1, <2>4, <3>1, MaxOfHeights DEF FromHeights
    <3> QED BY <2>1, <2>2, <2>4, <3>2 DEF Scanned, NoSilentSkip, SettledBelowStored
  <2> QED BY <2>3, <2>4
<1> QED BY <1>2, <1>3, <1>4, <1>5, <1>6, <1>7, <1>8, <1>9, <1>10, <1>11 DEF Next, Producer

-----------------------------------------------------------------------------
(* Nothing is sent again without a reason. *)

Resends == ResentOnlyAfterFailure /\ SpareAttempt

\* Every step keeps account of how often a block was sent.
LEMMA ResendsNext ==
  TypeOK /\ BBInv /\ BBInv' /\ Phases /\ Closing /\ Resends /\ [Next]_vars => Resends'
<1> SUFFICES ASSUME TypeOK, BBInv, BBInv', Phases, Closing, Resends, [Next]_vars
             PROVE  Resends'
  OBVIOUS
<1>t. /\ delivered \in [Heights -> Nat] /\ storeErrs \in Nat /\ starts \in Nat
      /\ \A h \in HeldHeights : h \in Heights /\ h <= lastTraversed
  BY HeldBelowTraversed DEF TypeOK
<1> DEFINE counts == <<delivered, storeErrs, starts>>
<1>1. ASSUME UNCHANGED <<lastTraversed, counts>>, headers' \in {headers, <<>>}, Up' => Up,
             prod = "store" => prod' = "store" \/ headers' = <<>>
      PROVE  Resends'
  BY <1>1 DEF Resends, ResentOnlyAfterFailure, SpareAttempt, HeldHeights
<1>2. CASE Services \/ Chain \/ Consumer \/ Main \/ Interrupt \/ UNCHANGED vars
  <2>1. UNCHANGED <<lastTraversed, counts, headers, prod>>
    BY <1>2, OthersKeepScan DEF scanVars, prodVars, histVars
  <2>2. Up' => Up
    BY <1>2 DEF Up, Services, StoreBusiness, CreateTableFromTemplate, StoreAddresses, Chain,
                Consumer, ListBusiness, Prepare, PreparePanics, HandleFails, RetryAttempt,
                Commit, AttemptFails, HandleDone, ReceiveClosed, Main, LoopCancel,
                CloseChannel, ResourceCancel, TasksWait, Interrupt, procVars, vars
  <2> QED BY <1>1, <2>1, <2>2
<1>3. CASE \/ TickNext \/ TickRetry \/ LoopExit \/ ScanFails \/ ScanDrops
           \/ ScanNothing \/ ScanBlock
  BY <1>1, <1>3 DEF TickNext, CallNextHeaders, TickRetry, LoopExit, ScanFails, ScanDrops,
                    ScanNothing, ScanBlock, NextBlock, bbVars, nhVars, histVars,
                    ProducerFrame, procVars, Up
<1>4. CASE NextHeadersEmpty
  BY <1>1, <1>4 DEF NextHeadersEmpty, CallFails, LatestNothing, histVars, ProducerFrame,
                    procVars, Up
<1>5. CASE NextHeadersCalls
  BY <1>1, <1>5 DEF NextHeadersCalls, FetchHeader, LatestRange, prodVars, histVars,
                    ProducerFrame, procVars, Up
<1>6. CASE NextHeadersPanics \/ ScanPanics \/ Crash
  <2>1. ~Up' /\ UNCHANGED counts
    BY <1>6 DEF NextHeadersPanics, ScanPanics, Crash, Die, histVars, Up
  <2> QED BY <2>1 DEF Resends, ResentOnlyAfterFailure, SpareAttempt
<1>7. CASE NextHeadersReturns
  <2>1. UNCHANGED <<counts, main>> /\ prod' = "scan" /\ FetchLast
    BY <1>7 DEF NextHeadersReturns, histVars, ProducerFrame, procVars
  <2>2. /\ lastTraversed' = endHeight
        /\ \A h \in HeldHeights' : h \in Heights /\ lastTraversed < h
    BY <2>1, ReturnedHeights
  <2>3. lastTraversed <= endHeight /\ lastTraversed \in Int /\ endHeight \in Int
    BY <2>1 DEF FetchLast, BBInv, FetchInProgress, NextHeight, BBTypeOK, Heights
  <2>4. ResentOnlyAfterFailure' /\ (Up' => Up)
    BY <2>1 DEF Resends, ResentOnlyAfterFailure, Up
  <2>5. SpareAttempt'
    BY <2>1, <2>2, <2>3, <2>4 DEF Resends, SpareAttempt, Heights
  <2> QED BY <2>4, <2>5 DEF Resends
<1>8. CASE SendBatch
  <2>1. /\ UNCHANGED <<lastTraversed, headers, storeErrs, starts, main>>
        /\ prod = "send" /\ prod' = "store"
    BY <1>8 DEF SendBatch, bbVars, procVars
  <2>2. Up
    BY <2>1 DEF Closing
  <2>3. \A h \in Heights : delivered'[h] = IF h \in HeldHeights THEN delivered[h] + 1
                                           ELSE delivered[h]
    BY <1>8 DEF SendBatch
  <2>4. ResentOnlyAfterFailure'
    BY <1>t, <2>1, <2>2, <2>3 DEF Resends, ResentOnlyAfterFailure, SpareAttempt
  <2>5. \A h \in Heights : h > lastTraversed => h \notin HeldHeights
    BY <1>t DEF TypeOK, BBTypeOK, Heights
  <2>6. SpareAttempt'
    BY <1>t, <2>1, <2>2, <2>3, <2>5 DEF Resends, SpareAttempt
  <2> QED BY <2>4, <2>6 DEF Resends
<1>9. CASE StoreBlocks
  BY <1>1, <1>9 DEF StoreBlocks, histVars, ProducerFrame, procVars, Up
<1>10. CASE StoreBlocksFails
  <2>1. /\ UNCHANGED <<lastTraversed, headers, delivered, starts, main>>
        /\ storeErrs' = storeErrs + 1 /\ HeldHeights' = HeldHeights
    BY <1>10 DEF StoreBlocksFails, nhVars, ProducerFrame, procVars, HeldHeights
  <2>2. \A h \in Heights : delivered[h] < storeErrs' + starts
    BY <1>t, <2>1 DEF Resends, ResentOnlyAfterFailure
  <2> QED BY <1>t, <2>1, <2>2 DEF Resends, ResentOnlyAfterFailure, SpareAttempt
<1>11. CASE Start
  <2>1. UNCHANGED <<delivered, storeErrs>> /\ starts' = starts + 1 /\ HeldHeights' = {}
    BY <1>11 DEF Start, HeldHeights
  <2>2. \A h \in Heights : delivered[h] < storeErrs + starts'
    BY <1>t, <2>1 DEF Resends, ResentOnlyAfterFailure
  <2> QED BY <1>t, <2>1, <2>2 DEF Resends, ResentOnlyAfterFailure, SpareAttempt
<1> QED BY <1>2, <1>3, <1>4, <1>5, <1>6, <1>7, <1>8, <1>9, <1>10, <1>11 DEF Next, Producer

-----------------------------------------------------------------------------
(* The theorems. *)

\* The invariant holds when the scanner first starts.
LEMMA PipelineInvInit == Init => PipelineInv
<1> SUFFICES ASSUME Init PROVE PipelineInv
  OBVIOUS
<1>1. stored = {} /\ stored \subseteq Header /\ headers = <<>> /\ fetched = <<>>
  BY DEF Init
<1>2. lastTraversed \in Heights /\ origin = lastTraversed
  BY <1>1, FromHeightsAreHeights DEF Init
<1>3. BBInv
  <2>1. 0 \in Heights /\ InitTip \in Heights /\ 0 \in 0..MaxForks /\ 0 \in 0..MaxFaults
    BY BatchBlockAssumption DEF Heights
  <2> QED BY <1>1, <1>2, <2>1
          DEF Init, BBInv, BBTypeOK, FetchInProgress, BatchEndsTraversal, BatchConfirmed
<1>4. TypeOK
  <2>1. 0 \in 0..MaxAttempts /\ Registered \subseteq Business
    BY PipelineAssumption
  <2>2. applied \in BOOLEAN /\ shutdown \in BOOLEAN
    BY Zenon DEF Init
  <2>3. /\ batch \in Counts /\ taken \in Counts /\ recorded \in Counts /\ sent \in Counts
        /\ todo \in [Business -> Nat]
    BY NoCountsType, Zenon DEF Init
  <2>4. delivered \in [Heights -> Nat] /\ rows \in [Business -> Nat]
    BY DEF Init
  <2> QED BY <1>2, <1>3, <2>1, <2>2, <2>3, <2>4 DEF Init, TypeOK, BBInv
<1>5. Phases /\ Handling /\ Closing
  BY DEF Init, Phases, Handling, Closing, ChannelClosed, Up
<1>6. NoSilentSkip /\ StoredAfterSent /\ HeldIsDelivered /\ SettledBelowStored
  <2>1. (origin + 1)..lastTraversed = {}
    <3>1. \A n \in Int : (n + 1)..n = {}
      OBVIOUS
    <3> QED BY <1>2, <3>1 DEF Heights
  <2>2. StoredHeights = {} /\ prod = "idle"
    BY <1>1 DEF StoredHeights, Init
  <2> QED BY <2>1, <2>2
          DEF NoSilentSkip, StoredAfterSent, HeldIsDelivered, SettledBelowStored
<1>7. ResentOnlyAfterFailure /\ SpareAttempt
  <2>1. HeldHeights = {}
    BY <1>1 DEF HeldHeights
  <2> QED BY <2>1 DEF Init, ResentOnlyAfterFailure, SpareAttempt
<1> QED BY <1>3, <1>4, <1>5, <1>6, <1>7 DEF PipelineInv

\* Every step keeps it.
LEMMA PipelineInvNext == PipelineInv /\ [Next]_vars => PipelineInv'
<1> SUFFICES ASSUME PipelineInv, [Next]_vars PROVE PipelineInv'
  OBVIOUS
<1>1. /\ TypeOK /\ BBInv /\ Phases /\ Handling /\ Closing /\ Scanned /\ Resends
  BY DEF PipelineInv, Scanned, Resends
<1>2. BBInv' /\ BBTypeOK'
  BY <1>1, TraversalKept DEF BBInv
<1>3. TypeOK' /\ Handling'
  BY <1>1, <1>2, TypesNext
<1>4. Phases' /\ Closing'
  BY <1>1, PhasesNext, ClosingNext
<1>5. Scanned' /\ Resends'
  BY <1>1, <1>2, ScannedNext, ResendsNext
<1> QED BY <1>2, <1>3, <1>4, <1>5 DEF PipelineInv, Scanned, Resends

\* The invariant of the scanner, over every interleaving of its goroutines with
\* the chain, the services, failures, panics, crashes and restarts.
THEOREM ScannerInvariant == Spec => []PipelineInv
BY PipelineInvInit, PipelineInvNext, PTL DEF Spec

\* The variables of the scanner keep their types.
THEOREM ScannerTypes == Spec => []TypeOK
<1>1. PipelineInv => TypeOK
  BY DEF PipelineInv
<1> QED BY <1>1, ScannerInvariant, PTL

\* processBatch and NewDeposit together skip no block silently: whatever lies
\* between the start of the scan and the last header traversed was sent to the
\* consumer, was given up by processBatch or is kept for the next tick; and a
\* block is stored only after it was sent.
THEOREM NothingSkipped == Spec => [](NoSilentSkip /\ StoredAfterSent)
<1>1. PipelineInv => NoSilentSkip /\ StoredAfterSent
  BY DEF PipelineInv
<1> QED BY <1>1, ScannerInvariant, PTL

\* tick sends a block again only after a failed StoreBlockss or a restart.
THEOREM ResendsHaveAReason == Spec => []ResentOnlyAfterFailure
<1>1. PipelineInv => ResentOnlyAfterFailure
  BY DEF PipelineInv
<1> QED BY <1>1, ScannerInvariant, PTL

\* Close never closes the channel under a producer that may send on it.
THEOREM ChannelClosedSafely == Spec => []NoSendOnClosedChannel
<1>1. PipelineInv => NoSendOnClosedChannel
  BY DEF PipelineInv, Closing, NoSendOnClosedChannel
<1> QED BY <1>1, ScannerInvariant, PTL

\* Nothing is written between the return of Close and the next start.
THEOREM NoWritesAfterClose == Spec => NoWriteAfterClose
<1>1. PipelineInv /\ [Next]_vars => [main = "stopped" => UNCHANGED <<stored, recorded>>]_vars
  <2> SUFFICES ASSUME Closing, Next, main = "stopped" PROVE UNCHANGED <<stored, recorded>>
    BY DEF PipelineInv
  <2>1. prod = "exited" /\ cons \in {"done", "failed", "panicked"}
    BY DEF Closing, ChannelClosed
  <2>2. ~Producer
    BY <2>1 DEF Producer, TickNext, TickRetry, LoopExit, NextHeadersPanics,
       NextHeadersEmpty, NextHeadersCalls, NextHeadersReturns, ScanFails, ScanDrops,
       ScanPanics, ScanNothing, ScanBlock, SendBatch, StoreBlocks, StoreBlocksFails
  <2>3. ~Consumer
    BY <2>1 DEF Consumer, ListBusiness, Prepare, PreparePanics, HandleFails, RetryAttempt,
                Commit, AttemptFails, HandleDone, ReceiveClosed
  <2>4. CASE Services \/ Chain
    BY <2>4 DEF Services, StoreBusiness, CreateTableFromTemplate, StoreAddresses, Chain
  <2>5. CASE Main \/ Interrupt
    BY <2>5 DEF Main, LoopCancel, CloseChannel, ResourceCancel, TasksWait, Interrupt,
                MainFrame
  <2>6. CASE Crash \/ Start
    BY <2>6 DEF Crash, Die, Start
  <2> QED BY <2>2, <2>3, <2>4, <2>5, <2>6 DEF Next
<1> QED BY <1>1, ScannerInvariant, PTL DEF Spec, NoWriteAfterClose

-----------------------------------------------------------------------------
(* Finality. *)

\* What was read or stored is confirmed.
ReadIsConfirmed == \A r \in bodies \cup stored : r.height <= tip - ConfDepth

\* The blocks read and stored, and the headers on the way there.
Final == OnlyFinalHeaders /\ OnlyFinalBlocks /\ ReadIsConfirmed

\* Every step keeps them final.
LEMMA FinalNext == PipelineInv /\ Final /\ [Next]_vars => Final'
<1> SUFFICES ASSUME PipelineInv, Final, [Next]_vars PROVE Final'
  OBVIOUS
<1>t. /\ TypeOK /\ BBInv /\ Phases /\ BBTypeOK /\ headers \in Seq(Header)
      /\ bodies \subseteq Header /\ stored \subseteq Header /\ tip \in Int
  BY DEF PipelineInv, TypeOK, BBTypeOK, Heights
<1>1. OnlyFinalHeaders'
  <2>1. CASE [BBNext]_bbVars
    BY <1>t, <2>1, FinalHeadersNext DEF Final
  <2>2. CASE Quiet \/ Reset
    <3>1. /\ UNCHANGED fork
          /\ fetched' \in {fetched, <<>>} /\ headers' \in {headers, <<>>}
      BY <2>2 DEF Quiet, Reset, chainVars
    <3> QED BY <3>1 DEF Final, OnlyFinalHeaders, HeaderAt
  <2> QED BY <1>t, <2>1, <2>2, TraversalSteps
<1> SUFFICES (OnlyFinalBlocks /\ ReadIsConfirmed)'
  BY <1>1 DEF Final
<1>2. ASSUME UNCHANGED chainVars,
             \A r \in (bodies \cup stored)' :
               r \in bodies \cup stored \/ (r.height <= tip - ConfDepth
                                         /\ (MaxReorg <= ConfDepth => r = HeaderAt(r.height)))
      PROVE  (OnlyFinalBlocks /\ ReadIsConfirmed)'
  BY <1>2 DEF Final, OnlyFinalBlocks, ReadIsConfirmed, HeaderAt, chainVars
<1>3. CASE Chain
  <2>1. UNCHANGED <<bodies, stored>> /\ ChainNext
    BY <1>3 DEF Chain, histVars
  <2>2. tip' \in Int /\ tip <= tip'
    BY <1>t, <2>1 DEF ChainNext, Mine, Reorg
  <2>3. \A r \in bodies \cup stored : r.height \in Heights /\ r.height <= tip - ConfDepth
    BY <1>t DEF Final, ReadIsConfirmed, Header
  <2>4. ReadIsConfirmed'
    BY <1>t, <2>1, <2>2, <2>3, BatchBlockAssumption DEF ReadIsConfirmed, Heights
  <2>5. ASSUME MaxReorg <= ConfDepth, NEW r \in bodies \cup stored
        PROVE  HeaderAt(r.height)' = HeaderAt(r.height)
    <3>1. r.height \in Heights /\ r.height <= tip - ConfDepth
      BY <2>3
    <3> QED BY ONLY <1>t, <2>1, <2>5, <3>1, ConfirmedStays, Zenon
  <2> QED BY <2>1, <2>4, <2>5 DEF Final, OnlyFinalBlocks, HeaderAt
<1>4. CASE ScanBlock
  <2>1. /\ bodies' = bodies \cup {HeaderAt(Height)} /\ UNCHANGED stored
        /\ UNCHANGED chainVars
    BY <1>4 DEF ScanBlock, bbVars, chainVars
  <2>2. pos \in 1..Len(headers)
    BY <1>4, <1>t DEF ScanBlock, Phases, TypeOK
  <2>3. Height <= tip - ConfDepth
    BY <1>t, <2>2 DEF BBInv, BatchConfirmed, Height
  <2> QED BY <1>2, <2>1, <2>3 DEF HeaderAt
<1>5. CASE StoreBlocks \/ StoreBlocksFails
  <2>1. /\ UNCHANGED bodies /\ UNCHANGED chainVars
        /\ stored' = stored \/ stored' = stored \cup {headers[i] : i \in DOMAIN headers}
    BY <1>5 DEF StoreBlocks, StoreBlocksFails, StoredNow, histVars
  <2>2. ASSUME NEW i \in DOMAIN headers
        PROVE  /\ headers[i].height <= tip - ConfDepth
               /\ MaxReorg <= ConfDepth => headers[i] = HeaderAt(headers[i].height)
    <3>1. i \in 1..Len(headers)
      BY <1>t
    <3> QED BY <3>1, <1>t DEF BBInv, BatchConfirmed, Final, OnlyFinalHeaders
  <2> QED BY <1>2, <2>1, <2>2
<1>6. CASE ~(Chain \/ ScanBlock \/ StoreBlocks \/ StoreBlocksFails)
  <2>1. UNCHANGED <<bodies, stored>>
    <3>1. CASE Services \/ Chain \/ Consumer \/ Main \/ Interrupt \/ UNCHANGED vars
      BY <3>1, OthersKeepScan DEF scanVars, histVars
    <3>2. CASE Producer
      BY <1>6, <3>2 DEF Producer, TickNext, TickRetry, LoopExit, NextHeadersPanics,
         NextHeadersEmpty, NextHeadersCalls, NextHeadersReturns, ScanFails, ScanDrops,
         ScanPanics, ScanNothing, SendBatch, Die, histVars
    <3>3. CASE Crash \/ Start
      BY <3>3 DEF Crash, Die, Start, histVars
    <3> QED BY <3>1, <3>2, <3>3 DEF Next
  <2>2. UNCHANGED chainVars
    <3>1. CASE Services \/ Main \/ Interrupt \/ UNCHANGED vars
      BY <3>1 DEF Services, StoreBusiness, CreateTableFromTemplate, StoreAddresses, Main,
                  LoopCancel, CloseChannel, ResourceCancel, TasksWait, Interrupt, MainFrame,
                  vars, bbVars, chainVars
    <3>2. CASE Consumer
      BY <3>2 DEF Consumer, ListBusiness, Prepare, PreparePanics, HandleFails, RetryAttempt,
                  Commit, AttemptFails, HandleDone, ReceiveClosed, ConsumerFrame
    <3>3. CASE Producer
      BY <1>6, <3>3 DEF Producer, TickNext, CallNextHeaders, TickRetry, LoopExit,
         NextHeadersPanics, NextHeadersEmpty, CallFails, LatestNothing, NextHeadersCalls,
         FetchHeader, LatestRange, NextHeadersReturns, FetchLast, ScanFails, ScanDrops,
         ScanPanics, ScanNothing, SendBatch, Die, bbVars, chainVars
    <3>4. CASE Crash \/ Start
      BY <3>4 DEF Crash, Die, Start
    <3> QED BY <1>6, <3>1, <3>2, <3>3, <3>4 DEF Next
  <2> QED BY <1>2, <2>1, <2>2
<1> QED BY <1>3, <1>4, <1>5, <1>6

\* When no reorganisation is deeper than the confirmations waited for, every block
\* the scanner read or stored is the one that stays on the chain, whatever crashes
\* or retries lie between the reading of its header and of its body.
THEOREM ScansFinalBlocks == Spec => []OnlyFinalBlocks
<1>1. Init => Final
  BY DEF Init, Final, OnlyFinalHeaders, OnlyFinalBlocks, ReadIsConfirmed
<1>2. Final => OnlyFinalBlocks
  BY DEF Final
<1> QED BY <1>1, <1>2, ScannerInvariant, FinalNext, PTL DEF Spec

-----------------------------------------------------------------------------
(* What the consumer writes. *)

\* The rows of business b the handler may still write its batch for.  A row whose
\* commit was answered with an error is written already.
Pending(b) ==
  CASE cons = "list" -> MaxRows
    [] cons = "each" -> todo[b]
    [] cons \in {"retry", "attempt"} -> IF applied /\ b = cur THEN todo[b] - 1 ELSE todo[b]
    [] OTHER -> 0

\* A business has at most MaxRows rows, and one that is in a batch has a row.
RowsListed == /\ \A b \in Business : rows[b] <= MaxRows
              /\ \A b \in Business, h \in Heights : batch[b][h] > 0 => rows[b] > 0
              /\ cons = "list" => \A b \in Business, h \in Heights : taken[b][h] > 0 => rows[b] > 0

\* What is written and what may still be written was sent.
WrittenWasSent ==
  \A b \in Business, h \in Heights :
    recorded[b][h] + Pending(b) * taken[b][h] <= MaxRows * sent[b][h]

\* In the first run of the process, what was sent is written or in the batch of a
\* row that is still to be handled.
SentIsWritten ==
  starts = 1 /\ cons \in {"recv", "list", "each", "retry", "attempt"} =>
    \A b \in Business, h \in Heights :
      \/ recorded[b][h] >= sent[b][h]
      \/ /\ recorded[b][h] + taken[b][h] >= sent[b][h]
         /\ cons = "list" \/ (cons # "recv" /\ todo[b] > 0)

\* The consumer's bookkeeping.
Handed == RowsListed /\ WrittenWasSent /\ SentIsWritten /\ starts >= 1

\* Multiplying counts.
LEMMA Products ==
  /\ \A x, y, z \in Nat : x <= y => x * z <= y * z
  /\ \A x, z \in Nat : x * z \in Nat
  /\ \A x, y, z \in Nat : x * (y + z) = x * y + x * z
  /\ \A x, z \in Nat : x > 0 => (x - 1) * z + z = x * z
<1>1. \A x, y, z \in Int : x * (y + z) = x * y + x * z
  OBVIOUS
<1>2. \A x, z \in Nat : x * z \in Nat
  OBVIOUS
<1>3. ASSUME NEW x \in Nat, NEW y \in Nat, NEW z \in Nat, x <= y PROVE x * z <= y * z
  <2>1. PICK d \in Nat : y = x + d
    <3>1. y - x \in Nat /\ y = x + (y - x)
      BY <1>3
    <3> QED BY <3>1
  <2>2. y * z = x * z + d * z
    BY <2>1
  <2> QED BY <1>2, <2>2
<1>4. \A x, z \in Nat : x > 0 => (x - 1) * z + z = x * z
  OBVIOUS
<1> QED BY <1>1, <1>2, <1>3, <1>4

\* A step in which the handler gives up, or goes on with the same row.
LEMMA HandedKept ==
  ASSUME TypeOK, Handling, Handed, UNCHANGED <<taken, todo, cur, rows, recorded, sent, batch, starts>>,
         \/ cons' = cons /\ UNCHANGED applied
         \/ cons' \in {"failed", "done", "panicked"}
         \/ cons = "retry" /\ cons' = "attempt" /\ UNCHANGED applied
         \/ cons = "attempt" /\ cons' = "retry" /\ UNCHANGED applied
  PROVE  Handed'
<1>1. RowsListed' /\ starts' >= 1
  BY DEF Handed, RowsListed
<1>2. SentIsWritten'
  BY DEF Handed, SentIsWritten
<1>3. WrittenWasSent'
  <2> SUFFICES ASSUME NEW b \in Business, NEW h \in Heights
               PROVE  recorded[b][h] + Pending(b)' * taken[b][h] <= MaxRows * sent[b][h]
    BY DEF WrittenWasSent
  <2>1. recorded[b][h] + Pending(b) * taken[b][h] <= MaxRows * sent[b][h]
    BY DEF Handed, WrittenWasSent
  <2>2. /\ taken[b][h] \in Nat /\ recorded[b][h] \in Nat /\ sent[b][h] \in Nat /\ todo[b] \in Nat
        /\ MaxRows \in Nat
    BY PipelineAssumption DEF TypeOK, Counts
  <2>3. Pending(b) \in Nat
    BY <2>2 DEF Pending, Handling, TypeOK
  <2>4. Pending(b)' = Pending(b) \/ Pending(b)' = 0
    BY DEF Pending
  <2>5. Pending(b) * taken[b][h] \in Nat /\ 0 * taken[b][h] = 0 /\ MaxRows * sent[b][h] \in Nat
    BY <2>2, <2>3, Products
  <2> QED BY <2>1, <2>2, <2>4, <2>5
<1> QED BY <1>1, <1>2, <1>3 DEF Handed

\* A row is written: by a commit that is answered, which ends the row, or by one
\* that is not.
LEMMA HandedWritten ==
  ASSUME TypeOK, Handling, Handed, cons = "attempt", ~applied, recorded' = Inserted,
         UNCHANGED <<taken, rows, sent, batch, starts>>,
         \/ /\ cons' = "each" /\ todo' = [todo EXCEPT ![cur] = @ - 1]
         \/ /\ cons' \in {"retry", "failed"} /\ applied' = TRUE /\ UNCHANGED <<todo, cur>>
  PROVE  Handed'
<1>t. /\ cur \in Business /\ todo[cur] > 0 /\ todo \in [Business -> Nat] /\ MaxRows \in Nat
      /\ taken \in Counts /\ recorded \in Counts /\ sent \in Counts
  BY PipelineAssumption DEF TypeOK, Handling
<1>1. RowsListed' /\ starts' >= 1
  BY DEF Handed, RowsListed
<1>2. ASSUME NEW b \in Business, NEW h \in Heights
      PROVE  /\ recorded'[b][h] = IF b = cur THEN recorded[b][h] + taken[b][h] ELSE recorded[b][h]
             /\ taken[b][h] \in Nat /\ recorded[b][h] \in Nat /\ sent[b][h] \in Nat /\ todo[b] \in Nat
  BY <1>t DEF Inserted, Counts
<1>3. SentIsWritten'
  <2> SUFFICES ASSUME starts = 1, NEW b \in Business, NEW h \in Heights
               PROVE  \/ recorded'[b][h] >= sent[b][h]
                      \/ /\ recorded'[b][h] + taken[b][h] >= sent[b][h]
                         /\ cons' # "recv" /\ todo'[b] > 0
    BY DEF SentIsWritten
  <2>1. \/ recorded[b][h] >= sent[b][h]
        \/ recorded[b][h] + taken[b][h] >= sent[b][h] /\ todo[b] > 0
    BY DEF Handed, SentIsWritten
  <2>2. b # cur => todo'[b] = todo[b]
    BY <1>t
  <2> QED BY <1>2, <2>1, <2>2
<1>4. WrittenWasSent'
  <2> SUFFICES ASSUME NEW b \in Business, NEW h \in Heights
               PROVE  recorded'[b][h] + Pending(b)' * taken[b][h] <= MaxRows * sent[b][h]
    BY DEF WrittenWasSent
  <2>1. recorded[b][h] + todo[b] * taken[b][h] <= MaxRows * sent[b][h]
    BY DEF Handed, WrittenWasSent, Pending
  <2>2. Pending(b)' \in {0, IF b = cur THEN todo[b] - 1 ELSE todo[b]}
    BY <1>t, Zenon DEF Pending
  <2>3. /\ b = cur => (todo[b] - 1) * taken[b][h] + taken[b][h] = todo[b] * taken[b][h]
        /\ todo[b] * taken[b][h] \in Nat /\ 0 * taken[b][h] = 0 /\ MaxRows * sent[b][h] \in Nat
        /\ b = cur => todo[b] - 1 \in Nat /\ (todo[b] - 1) * taken[b][h] \in Nat
    <3>1. b = cur => todo[b] > 0 /\ todo[b] - 1 \in Nat
      BY <1>t, <1>2
    <3> QED BY <1>t, <1>2, <3>1, Products
  <2> QED BY <1>2, <2>1, <2>2, <2>3
<1> QED BY <1>1, <1>3, <1>4 DEF Handed

\* handleBatch lists the businesses, or is through with them.
LEMMA HandedListed ==
  ASSUME TypeOK, Handed, ListBusiness \/ HandleDone
  PROVE  Handed'
<1>t. /\ todo \in [Business -> Nat] /\ MaxRows \in Nat /\ rows \in [Business -> Nat]
      /\ taken \in Counts /\ recorded \in Counts /\ sent \in Counts
  BY PipelineAssumption DEF TypeOK
<1>u. UNCHANGED <<rows, recorded, sent, batch, starts>>
  BY DEF ListBusiness, HandleDone, ConsumerFrame, prodVars, outerVars, histVars
<1>1. RowsListed' /\ starts' >= 1
  BY <1>u DEF Handed, RowsListed, ListBusiness, HandleDone
<1>c. ASSUME NEW b \in Business, NEW h \in Heights
      PROVE  taken[b][h] \in Nat /\ recorded[b][h] \in Nat /\ sent[b][h] \in Nat /\ todo[b] \in Nat
  BY <1>t DEF Counts
<1>2. CASE ListBusiness
  <2>1. /\ cons = "list" /\ cons' = "each" /\ UNCHANGED taken
        /\ \A b \in Business : todo'[b] = IF InBatch(b) THEN rows[b] ELSE 0
    BY <1>2 DEF ListBusiness
  <2>2. SentIsWritten'
    <3> SUFFICES ASSUME starts = 1, NEW b \in Business, NEW h \in Heights
                 PROVE  \/ recorded[b][h] >= sent[b][h]
                        \/ recorded[b][h] + taken[b][h] >= sent[b][h] /\ todo'[b] > 0
      BY <1>u, <2>1 DEF SentIsWritten
    <3>1. recorded[b][h] + taken[b][h] >= sent[b][h]
      BY <1>c, <2>1 DEF Handed, SentIsWritten
    <3>2. taken[b][h] > 0 => todo'[b] > 0
      BY <2>1 DEF InBatch, Handed, RowsListed
    <3> QED BY <1>c, <3>1, <3>2
  <2>3. WrittenWasSent'
    <3> SUFFICES ASSUME NEW b \in Business, NEW h \in Heights
                 PROVE  recorded[b][h] + Pending(b)' * taken[b][h] <= MaxRows * sent[b][h]
      BY <1>u, <2>1 DEF WrittenWasSent
    <3>1. Pending(b)' = todo'[b] /\ todo'[b] \in Nat /\ todo'[b] <= MaxRows
      BY <1>t, <2>1 DEF Pending, Handed, RowsListed
    <3>2. recorded[b][h] + MaxRows * taken[b][h] <= MaxRows * sent[b][h]
      BY <2>1 DEF Handed, WrittenWasSent, Pending
    <3>3. /\ todo'[b] * taken[b][h] <= MaxRows * taken[b][h]
          /\ todo'[b] * taken[b][h] \in Nat /\ MaxRows * taken[b][h] \in Nat
          /\ MaxRows * sent[b][h] \in Nat
      BY <1>c, <1>t, <3>1, Products
    <3> QED BY <1>c, <3>1, <3>2, <3>3
  <2> QED BY <1>1, <2>2, <2>3 DEF Handed
<1>3. CASE HandleDone
  <2>1. /\ cons = "each" /\ cons' = "recv" /\ taken' = NoCounts /\ \A b \in Business : todo[b] = 0
    BY <1>3 DEF HandleDone
  <2>2. SentIsWritten'
    BY <1>u, <2>1 DEF Handed, SentIsWritten
  <2>3. WrittenWasSent'
    <3> SUFFICES ASSUME NEW b \in Business, NEW h \in Heights
                 PROVE  recorded[b][h] + Pending(b)' * taken'[b][h] <= MaxRows * sent[b][h]
      BY <1>u, <2>1 DEF WrittenWasSent
    <3>1. Pending(b)' = 0 /\ taken'[b][h] = 0
      BY <2>1 DEF Pending, NoCounts
    <3>2. recorded[b][h] + 0 * taken[b][h] <= MaxRows * sent[b][h]
      BY <2>1 DEF Handed, WrittenWasSent, Pending
    <3> QED BY <1>c, <3>1, <3>2
  <2> QED BY <1>1, <2>2, <2>3 DEF Handed
<1> QED BY <1>2, <1>3

\* The consumer's steps.
LEMMA HandedConsumer == TypeOK /\ Handling /\ Handed /\ Consumer => Handed'
<1> SUFFICES ASSUME TypeOK, Handling, Handed, Consumer PROVE Handed'
  OBVIOUS
<1>u. UNCHANGED <<rows, sent, batch, starts>>
  BY DEF Consumer, ListBusiness, Prepare, PreparePanics, HandleFails, RetryAttempt, Commit,
         AttemptFails, HandleDone, ReceiveClosed, ConsumerFrame, prodVars, outerVars, histVars
<1>1. CASE ListBusiness \/ HandleDone
  BY <1>1, HandedListed
<1>2. ASSUME NEW b \in Business, Prepare(b) PROVE Handed'
  <2>1. /\ cons = "each" /\ cons' = "retry" /\ cur' = b /\ applied' = FALSE
        /\ UNCHANGED <<taken, todo, recorded>>
    BY <1>2 DEF Prepare
  <2>2. \A c \in Business : Pending(c)' = Pending(c)
    BY <2>1, Zenon DEF Pending
  <2> QED BY <1>u, <2>1, <2>2 DEF Handed, RowsListed, WrittenWasSent, SentIsWritten
<1>3. CASE PreparePanics \/ HandleFails \/ RetryAttempt \/ ReceiveClosed
  <2>1. UNCHANGED <<taken, todo, cur, recorded>>
    BY <1>3 DEF PreparePanics, HandleFails, RetryAttempt, ReceiveClosed
  <2>2. \/ cons' \in {"failed", "done", "panicked"}
        \/ cons = "retry" /\ cons' = "attempt" /\ UNCHANGED applied
    BY <1>3, Zenon DEF PreparePanics, HandleFails, RetryAttempt, ReceiveClosed
  <2> QED BY <1>u, <2>1, <2>2, HandedKept
<1>4. CASE Commit
  BY <1>4, <1>u, HandedWritten DEF Commit, Insertable
<1>5. CASE AttemptFails
  <2>1. cons = "attempt" /\ cons' \in {"retry", "failed"} /\ UNCHANGED <<taken, todo, cur>>
    BY <1>5 DEF AttemptFails, AfterFailure
  <2>2. \/ UNCHANGED applied /\ UNCHANGED recorded
        \/ ~applied /\ applied' = TRUE /\ recorded' = Inserted
    BY <1>5, Zenon DEF AttemptFails, Insertable
  <2>3. CASE UNCHANGED applied /\ UNCHANGED recorded
    BY <1>u, <2>1, <2>3, HandedKept
  <2>4. CASE ~applied /\ applied' = TRUE /\ recorded' = Inserted
    BY <1>u, <2>1, <2>4, HandedWritten
  <2> QED BY <2>2, <2>3, <2>4
<1> QED BY <1>1, <1>2, <1>3, <1>4, <1>5 DEF Consumer

\* The process dies, or starts again.
LEMMA HandedReset ==
  ASSUME TypeOK, Handling, Handed, Die \/ Start PROVE Handed'
<1>1. /\ batch' = NoCounts /\ taken' = NoCounts /\ UNCHANGED <<rows, recorded, sent>>
      /\ \/ cons' = "done" /\ starts' = starts
         \/ cons' = "recv" /\ starts' = starts + 1
  BY DEF Die, Start, outerVars, histVars
<1>2. RowsListed'
  BY <1>1 DEF Handed, RowsListed, NoCounts
<1>3. SentIsWritten' /\ starts' >= 1
  BY <1>1 DEF Handed, SentIsWritten, TypeOK
<1>4. WrittenWasSent'
  <2> SUFFICES ASSUME NEW b \in Business, NEW h \in Heights
               PROVE  recorded[b][h] + Pending(b)' * taken'[b][h] <= MaxRows * sent[b][h]
    BY <1>1 DEF WrittenWasSent
  <2>1. Pending(b)' = 0 /\ taken'[b][h] = 0
    BY <1>1 DEF Pending, NoCounts
  <2>2. recorded[b][h] + Pending(b) * taken[b][h] <= MaxRows * sent[b][h]
    BY DEF Handed, WrittenWasSent
  <2>3. /\ taken[b][h] \in Nat /\ recorded[b][h] \in Nat /\ sent[b][h] \in Nat /\ todo[b] \in Nat
        /\ MaxRows \in Nat
    BY PipelineAssumption DEF TypeOK, Counts
  <2>4. Pending(b) \in Nat
    BY <2>3 DEF Pending, Handling, TypeOK
  <2>5. Pending(b) * taken[b][h] \in Nat /\ MaxRows * sent[b][h] \in Nat
    BY <2>3, <2>4, Products
  <2> QED BY <2>1, <2>2, <2>3, <2>5
<1> QED BY <1>2, <1>3, <1>4 DEF Handed

\* A block's entries are those of businesses that have a row.
LEMMA HandedScan ==
  ASSUME TypeOK, Phases, Handling, Handed, ScanBlock PROVE Handed'
<1>1. UNCHANGED <<cons, taken, todo, cur, applied, rows, recorded, sent, starts>>
  BY DEF ScanBlock, ProducerFrame, consVars, outerVars
<1>2. ASSUME NEW b \in Business, NEW h \in Heights, batch'[b][h] > 0 PROVE rows[b] > 0
  <2>1. Height \in Heights
    <3>1. headers \in Seq(Header) /\ Len(headers) \in Nat
      BY DEF TypeOK, BBTypeOK
    <3>2. pos \in 1..Len(headers)
      BY <3>1 DEF ScanBlock, Phases, TypeOK
    <3>3. headers[pos] \in Header
      BY <3>1, <3>2
    <3> QED BY <3>3 DEF Height, Header
  <2>2. rows[b] \in Nat /\ batch[b] \in [Heights -> Nat] /\ batch[b][h] \in Nat
    BY DEF TypeOK, Counts
  <2>3. batch'[b][h] \in {batch[b][h], batch[b][h] + rows[b]}
    <3>1. CASE BlockTxs[Height] = <<>>
      BY <3>1 DEF ScanBlock
    <3>2. CASE BlockTxs[Height] # <<>>
      <4>1. batch'[b] = [batch[b] EXCEPT ![Height] = @ + rows[b]]
        BY <3>2 DEF ScanBlock
      <4> QED BY <2>1, <2>2, <4>1
    <3> QED BY <3>1, <3>2
  <2>4. batch[b][h] > 0 => rows[b] > 0
    BY DEF Handed, RowsListed
  <2> QED BY <1>2, <2>2, <2>3, <2>4
<1>3. \A b \in Business : Pending(b)' = Pending(b)
  BY <1>1, Zenon DEF Pending
<1> QED BY <1>1, <1>2, <1>3 DEF Handed, RowsListed, WrittenWasSent, SentIsWritten

\* The batch is handed over: it is sent, and it is all still to be written.
LEMMA HandedSend ==
  ASSUME TypeOK, Handed, SendBatch PROVE Handed'
<1>1. /\ cons = "recv" /\ cons' = "list" /\ taken' = batch /\ sent' = Plus(sent, batch)
      /\ UNCHANGED <<rows, recorded, batch, starts>>
  BY DEF SendBatch, outerVars
<1>2. ASSUME NEW b \in Business, NEW h \in Heights
      PROVE  /\ sent'[b][h] = sent[b][h] + batch[b][h]
             /\ batch[b][h] \in Nat /\ recorded[b][h] \in Nat /\ sent[b][h] \in Nat
             /\ taken[b][h] \in Nat
  BY <1>1 DEF TypeOK, Counts, Plus
<1>3. RowsListed' /\ starts' >= 1
  BY <1>1 DEF Handed, RowsListed
<1>4. SentIsWritten'
  BY <1>1, <1>2 DEF Handed, SentIsWritten
<1>5. WrittenWasSent'
  <2> SUFFICES ASSUME NEW b \in Business, NEW h \in Heights
               PROVE  recorded[b][h] + Pending(b)' * batch[b][h] <= MaxRows * sent'[b][h]
    BY <1>1 DEF WrittenWasSent
  <2>1. Pending(b)' = MaxRows /\ MaxRows \in Nat
    BY <1>1, PipelineAssumption DEF Pending
  <2>2. recorded[b][h] + 0 * taken[b][h] <= MaxRows * sent[b][h]
    BY <1>1 DEF Handed, WrittenWasSent, Pending
  <2>3. /\ MaxRows * sent'[b][h] = MaxRows * sent[b][h] + MaxRows * batch[b][h]
        /\ MaxRows * sent[b][h] \in Nat /\ MaxRows * batch[b][h] \in Nat
        /\ 0 * taken[b][h] = 0
    <3>1. MaxRows * (sent[b][h] + batch[b][h]) = MaxRows * sent[b][h] + MaxRows * batch[b][h]
      BY <1>2, <2>1, Products
    <3>2. sent'[b][h] = sent[b][h] + batch[b][h]
      BY <1>2
    <3>3. MaxRows * sent[b][h] \in Nat /\ MaxRows * batch[b][h] \in Nat /\ 0 * taken[b][h] = 0
      BY <1>2, <2>1, Products
    <3> QED BY <3>1, <3>2, <3>3
  <2> QED BY <1>2, <2>1, <2>2, <2>3
<1> QED BY <1>3, <1>4, <1>5 DEF Handed

\* Every step keeps the consumer's bookkeeping.
LEMMA HandedNext == PipelineInv /\ Handed /\ [Next]_vars => Handed'
<1> SUFFICES ASSUME PipelineInv, Handed, [Next]_vars PROVE Handed'
  OBVIOUS
<1>t. TypeOK /\ Phases /\ Handling
  BY DEF PipelineInv
<1>1. ASSUME UNCHANGED <<cons, taken, todo, cur, applied, rows, recorded, sent, starts>>,
             batch' \in {batch, NoCounts}
      PROVE  Handed'
  <2>1. \A b \in Business : Pending(b)' = Pending(b)
    BY <1>1, Zenon DEF Pending
  <2>2. RowsListed'
    BY <1>1 DEF Handed, RowsListed, NoCounts
  <2> QED BY <1>1, <2>1, <2>2 DEF Handed, WrittenWasSent, SentIsWritten
<1>2. CASE Services
  <2>1. /\ UNCHANGED <<cons, taken, todo, cur, applied, recorded, sent, starts, batch>>
        /\ \/ UNCHANGED rows
           \/ \E b \in Business : rows[b] < MaxRows /\ rows' = [rows EXCEPT ![b] = @ + 1]
    BY <1>2 DEF Services, StoreBusiness, CreateTableFromTemplate, StoreAddresses, consVars,
                prodVars, histVars
  <2>2. \A b \in Business : rows'[b] <= MaxRows /\ (rows[b] > 0 => rows'[b] > 0)
    BY <1>t, <2>1, PipelineAssumption DEF Handed, RowsListed, TypeOK
  <2>3. \A b \in Business : Pending(b)' = Pending(b)
    BY <2>1, Zenon DEF Pending
  <2>4. RowsListed'
    BY <2>1, <2>2 DEF Handed, RowsListed
  <2> QED BY <2>1, <2>3, <2>4 DEF Handed, WrittenWasSent, SentIsWritten
<1>3. CASE Chain \/ Main \/ Interrupt \/ UNCHANGED vars
  BY <1>1, <1>3 DEF Chain, Main, LoopCancel, CloseChannel, ResourceCancel, TasksWait, Interrupt,
                    MainFrame, vars, prodVars, consVars, outerVars, histVars
<1>4. CASE Consumer
  BY <1>4, <1>t, HandedConsumer
<1>5. CASE ScanBlock
  BY <1>5, <1>t, HandedScan
<1>6. CASE SendBatch
  BY <1>6, <1>t, HandedSend
<1>7. CASE NextHeadersPanics \/ ScanPanics \/ Crash \/ Start
  BY <1>7, <1>t, HandedReset DEF NextHeadersPanics, ScanPanics, Crash
<1>8. CASE \/ TickNext \/ TickRetry \/ LoopExit \/ NextHeadersEmpty \/ NextHeadersCalls
           \/ NextHeadersReturns \/ ScanFails \/ ScanDrops \/ ScanNothing \/ StoreBlocks
           \/ StoreBlocksFails
  BY <1>1, <1>8 DEF TickNext, TickRetry, LoopExit, NextHeadersEmpty, NextHeadersCalls,
     NextHeadersReturns, ScanFails, ScanDrops, ScanNothing, StoreBlocks, StoreBlocksFails,
     ProducerFrame, prodVars, consVars, outerVars, histVars
<1> QED BY <1>2, <1>3, <1>4, <1>5, <1>6, <1>7, <1>8 DEF Next, Producer

LEMMA HandedInit == Init => Handed
<1> SUFFICES ASSUME Init PROVE Handed
  OBVIOUS
<1>1. MaxRows \in Nat \ {0}
  BY PipelineAssumption
<1>2. \A b \in Business : Pending(b) = 0
  BY Zenon DEF Pending, Init
<1> QED BY <1>1, <1>2 DEF Init, Handed, RowsListed, WrittenWasSent, SentIsWritten, NoCounts

\* However often a transaction is retried, and whatever is answered to its commit,
\* handleBatch writes a batch at most once for each row of the business.
THEOREM RetriesWriteOnce == Spec => []NeverOverRecorded
<1>1. PipelineInv /\ Handed => NeverOverRecorded
  <2> SUFFICES ASSUME PipelineInv, Handed, NEW b \in Business, NEW h \in Heights
               PROVE  recorded[b][h] <= MaxRows * sent[b][h]
    BY DEF NeverOverRecorded
  <2>1. recorded[b][h] + Pending(b) * taken[b][h] <= MaxRows * sent[b][h]
    BY DEF Handed, WrittenWasSent
  <2>2. /\ taken[b][h] \in Nat /\ recorded[b][h] \in Nat /\ sent[b][h] \in Nat /\ todo[b] \in Nat
        /\ MaxRows \in Nat
    BY PipelineAssumption DEF PipelineInv, TypeOK, Counts
  <2>3. Pending(b) \in Nat
    BY <2>2 DEF Pending, PipelineInv, Handling, TypeOK
  <2>4. Pending(b) * taken[b][h] \in Nat /\ MaxRows * sent[b][h] \in Nat
    BY <2>2, <2>3, Products
  <2> QED BY <2>1, <2>2, <2>4
<1> QED BY <1>1, ScannerInvariant, HandedInit, HandedNext, PTL DEF Spec

\* In the first run of the process, a consumer that waits for a batch has written
\* all it was sent: no step of handleBatch but one that ends the task loses a part
\* of a batch.
THEOREM HandledBatchesAreRecorded == Spec => []HandledIsRecorded
<1>1. Handed => HandledIsRecorded
  BY DEF Handed, SentIsWritten, HandledIsRecorded
<1> QED BY <1>1, ScannerInvariant, HandedInit, HandedNext, PTL DEF Spec
=============================================================================
