---------------------------- MODULE SyncPipeline ----------------------------
(***************************************************************************)
(* The block scanner of the "sync" process: worker/synchronizer.go (the   *)
(* producer), worker/deposit.go (the consumer and Close), the loop, task  *)
(* and retry helpers of common/ they run on, and the tables they share    *)
(* with the "rpc" process, which registers businesses meanwhile.          *)
(*                                                                         *)
(* Three goroutines share one unbuffered channel:                         *)
(*   - the producer ticks, takes the next headers (BatchBlock), reads and *)
(*     classifies each block, sends the batch, then stores the headers;   *)
(*   - the consumer receives a batch and writes it for every business row *)
(*     in one database transaction, retried a few times;                  *)
(*   - the main goroutine waits for the shutdown and closes the two.      *)
(* The process may die at any point and start again from its tables.      *)
(***************************************************************************)
EXTENDS BatchBlock, TxClassify

CONSTANTS
  Business,     \* business uids
  NoBusiness,   \* no business is being written
  Registered,   \* the businesses registered before the scanner first starts
  Book,         \* Book[b]: the addresses b exports
  BlockTxs,     \* BlockTxs[h]: the transactions of the block at h
  MaxAttempts,  \* the attempts of retry.Do (10 in handleBatch)
  Builds,       \* the builds of the process, each the set of what it lacks:
                \* "latest", "tx": a call of the chain client that panics;
                \* "insert": tables with room for the records of handleBatch;
                \* "time": a timestamp in its headers, as the table of blocks
                \* demands (timestamp > 0)
  Env,          \* what else happens: "crash", "stop", "register"
  MaxRows,      \* bound: rows of one business in the business table
  MaxStoreErrs, \* bound: failed calls of StoreBlockss
  MaxStarts     \* bound: starts of the process

ASSUME PipelineAssumption ==
  /\ NoBusiness \notin Business
  /\ Registered \subseteq Business
  /\ Book \in [Business -> Books]
  /\ BlockTxs \in [Heights -> Seq(Txs)]
  /\ MaxAttempts \in Nat \ {0}
  /\ Builds \subseteq SUBSET {"latest", "tx", "insert", "time"}
  /\ MaxRows \in Nat \ {0} /\ MaxStoreErrs \in Nat /\ MaxStarts \in Nat \ {0}

VARIABLES
  \* the producer
  prod,       \* "idle", "headers", "scan", "send", "store", "exited"
  pos,        \* processBatch's index into headers
  batch,      \* businessTxChannel: batch[b][h], how often block h is in it for b
  \* the consumer
  cons,       \* "recv", "list", "each", "retry", "attempt", "done", "failed",
              \* "panicked"
  taken,      \* the batch handleBatch works on
  todo,       \* the business rows it has still to handle
  cur,        \* the business it writes now
  attempts,   \* retry.Do's attempts so far
  applied,    \* whether one of them was committed although it returned an error
  \* the process
  main,       \* "down", "run", "wait", "chan", "await", "stopped"
  shutdown,   \* whether the application context is cancelled
  gaps,       \* what its build lacks
  \* the tables
  rows,       \* rows[b]: rows of b in business
  tables,     \* the businesses whose own tables exist
  exported,   \* the businesses whose addresses are stored
  stored,     \* the rows of blocks
  recorded,   \* recorded[b][h]: how often block h is written in b's tables
  \* history, read by the properties only
  origin,     \* the height the scan began after
  delivered,  \* delivered[h]: how often block h went through the channel
  sent,       \* sent[b][h]: the sum of the batches sent
  dropped,    \* heights processBatch gave up without an error
  bodies,     \* the blocks whose transactions were read
  storeErrs,  \* failed calls of StoreBlockss
  starts      \* starts of the process

prodVars == <<prod, pos, batch>>
consVars == <<cons, taken, todo, cur, attempts, applied>>
procVars == <<main, shutdown>>
outerVars == <<rows, tables, exported, gaps>>
histVars == <<origin, delivered, sent, dropped, bodies, storeErrs, starts>>
vars == <<bbVars, prodVars, consVars, procVars, outerVars, stored, recorded, histVars>>

Counts == [Business -> [Heights -> Nat]]
NoCounts == [b \in Business |-> [h \in Heights |-> 0]]
Plus(f, g) == [b \in Business |-> [h \in Heights |-> f[b][h] + g[b][h]]]

Up == main \notin {"down", "stopped"}
\* Mutant of ChannelClosed: Close waits for the tasks first.
ChannelClosedLast == main = "stopped"
ChannelClosed == main \in {"chan", "await", "stopped"}
ResourceCancelled == main \in {"await", "stopped"}
HeldHeights == {headers[i].height : i \in DOMAIN headers}
StoredHeights == {r.height : r \in stored}

-----------------------------------------------------------------------------
(* The "rpc" process and the chain. *)

\* BusinessRegister inserts the row first ...
StoreBusiness(b) ==
  /\ "register" \in Env
  /\ rows[b] < MaxRows
  /\ rows' = [rows EXCEPT ![b] = @ + 1]
  /\ UNCHANGED <<bbVars, prodVars, consVars, procVars, tables, exported, gaps,
                 stored, recorded, histVars>>

\* ... and creates the tables of the business afterwards, outside any
\* transaction.
CreateTableFromTemplate(b) ==
  /\ rows[b] > 0 /\ b \notin tables
  /\ tables' = tables \cup {b}
  /\ UNCHANGED <<bbVars, prodVars, consVars, procVars, rows, exported, gaps,
                 stored, recorded, histVars>>

StoreAddresses(b) ==
  /\ b \in tables \ exported
  /\ exported' = exported \cup {b}
  /\ UNCHANGED <<bbVars, prodVars, consVars, procVars, rows, tables, gaps,
                 stored, recorded, histVars>>

Services == \E b \in Business : \/ StoreBusiness(b)
                                \/ CreateTableFromTemplate(b)
                                \/ StoreAddresses(b)

Chain == /\ ChainNext
         /\ UNCHANGED <<prodVars, consVars, procVars, outerVars, stored, recorded,
                        histVars>>

-----------------------------------------------------------------------------
(* The producer: LoopFn.work, tick, processBatch. *)

\* A panic outside a task, or a crash: what was in memory is gone.
Die == /\ main' = "down" /\ shutdown' = FALSE
       /\ call' = "none" /\ endHeight' = 0 /\ lastTraversed' = 0
       /\ fetched' = <<>> /\ headers' = <<>>
       /\ prod' = "exited" /\ pos' = 1 /\ batch' = NoCounts
       /\ cons' = "done" /\ taken' = NoCounts /\ todo' = [b \in Business |-> 0]
       /\ cur' = NoBusiness /\ attempts' = 0 /\ applied' = FALSE
       /\ UNCHANGED <<chainVars, outerVars, stored, recorded, histVars>>

\* What the producer's steps leave alone.
ProducerFrame == UNCHANGED <<consVars, procVars, outerVars, recorded>>

\* A tick without a batch to retry asks for the next headers.
TickNext == /\ prod = "idle" /\ CallNextHeaders
            /\ prod' = "headers"
            /\ ProducerFrame
            /\ UNCHANGED <<pos, batch, stored, histVars>>

\* A tick that still has a batch processes it again from its first block.
TickRetry == /\ prod = "idle" /\ headers # <<>>
             /\ prod' = "scan" /\ pos' = 1 /\ batch' = NoCounts
             /\ ProducerFrame
             /\ UNCHANGED <<bbVars, stored, histVars>>

\* The loop sees its cancelled context; it may as well take another tick first.
LoopExit == /\ prod = "idle" /\ main = "wait"
            /\ prod' = "exited"
            /\ ProducerFrame
            /\ UNCHANGED <<bbVars, pos, batch, stored, histVars>>

\* GetBlockHeader dereferences a nil height; or the node answers with an error
\* code, which is not looked at, and the header has no number: it is dereferenced
\* before anything is sent or stored.
NextHeadersPanics == /\ prod = "headers"
                     /\ \/ call = "latest" /\ "latest" \in gaps /\ UNCHANGED faults
                        \/ /\ call = "fetch" \/ "latest" \notin gaps
                           /\ Fault("header_code")
                     /\ Die

\* NextHeaders failed or found nothing: tick calls processBatch with no headers.
NextHeadersEmpty == /\ prod = "headers"
                    /\ \/ CallFails
                       \/ /\ "latest" \notin gaps
                          /\ \E l \in LatestHeights : LatestNothing(l)
                    /\ prod' = "idle"
                    /\ ProducerFrame
                    /\ UNCHANGED <<pos, batch, stored, histVars>>

NextHeadersCalls == /\ prod = "headers"
                    /\ \/ FetchHeader
                       \/ /\ "latest" \notin gaps
                          /\ \E l \in LatestHeights : LatestRange(l)
                    /\ ProducerFrame
                    /\ UNCHANGED <<prodVars, stored, histVars>>

NextHeadersReturns == /\ prod = "headers" /\ FetchLast
                      /\ prod' = "scan" /\ pos' = 1 /\ batch' = NoCounts
                      /\ ProducerFrame
                      /\ UNCHANGED <<stored, histVars>>

\* The header processBatch looks at, and the businesses it lists for it.
Height == headers[pos].height
Listed == {b \in Business : rows[b] > 0}

\* What becomes of block h for business b.
VerdictsFor(b, h) ==
  BlockVerdicts(b \in tables, IF b \in exported THEN Book[b] ELSE EmptyBook,
                BlockTxs[h])

\* GetBlockByNumber or QueryBusinessList fails: processBatch returns the error
\* and tick keeps the headers.
ScanFails == /\ prod = "scan" /\ Fault("scan")
             /\ prod' = "idle"
             /\ ProducerFrame
             /\ UNCHANGED <<chainVars, nhVars, pos, batch, stored, histVars>>

\* A failed address query: processBatch returns err, which is nil there, and
\* tick forgets the headers.  It fails for an input address without a row, and
\* whenever the database does (the hot wallet is asked for with any output).
ScanDrops == /\ prod = "scan"
             /\ \E b \in Listed :
                  \/ "drop" \in VerdictsFor(b, Height) /\ UNCHANGED faults
                  \/ /\ \E t \in ToSet(BlockTxs[Height]) : t.vout # <<>>
                     /\ Fault("query")
             /\ dropped' = dropped \cup HeldHeights
             /\ headers' = <<>>
             /\ prod' = "idle"
             /\ ProducerFrame
             /\ UNCHANGED <<chainVars, lastTraversed, call, endHeight, fetched, pos,
                            batch, stored, origin, delivered, sent, bodies, storeErrs,
                            starts>>

\* A wallet that is nil is dereferenced; nothing recovers in the loop.  The cold
\* wallet is nil too when its query fails, which is only logged.
ScanPanics == /\ prod = "scan"
              /\ \E b \in Listed :
                   \/ "panic" \in VerdictsFor(b, Height) /\ UNCHANGED faults
                   \/ /\ b \in exported
                      /\ \E t \in ToSet(BlockTxs[Height]) :
                           \E hot \in Wallets(Book[b], "hot") :
                             Verdict(Book[b], hot, Nil, t) = "panic"
                      /\ Fault("cold")
              /\ Die

\* On to the next block of the batch.
NextBlock == IF pos < Len(headers) THEN pos' = pos + 1 /\ UNCHANGED prod
                                   ELSE prod' = "send" /\ UNCHANGED pos

\* GetBlockByNumber is answered with an error code, which is only logged: the
\* block has no transactions.
ScanNothing == /\ prod = "scan" /\ Fault("block_code")
               /\ NextBlock
               /\ ProducerFrame
               /\ UNCHANGED <<chainVars, nhVars, batch, stored, histVars>>

\* One block is read and classified for every row of the business table.
ScanBlock == /\ prod = "scan"
             /\ \A b \in Listed : "ok" \in VerdictsFor(b, Height)
             /\ bodies' = bodies \cup {HeaderAt(Height)}
             /\ batch' = IF BlockTxs[Height] = <<>> THEN batch
                         ELSE [b \in Business |->
                                [batch[b] EXCEPT ![Height] = @ + rows[b]]]
             /\ NextBlock
             /\ ProducerFrame
             /\ UNCHANGED <<bbVars, stored, origin, delivered, sent, dropped, storeErrs,
                            starts>>

\* The channel has no buffer: sending and receiving are one step.
SendBatch == /\ prod = "send" /\ cons = "recv"
             /\ prod' = "store"
             /\ cons' = "list" /\ taken' = batch
             /\ delivered' = [h \in Heights |-> IF h \in HeldHeights
                                                THEN delivered[h] + 1 ELSE delivered[h]]
             /\ sent' = Plus(sent, batch)
             /\ UNCHANGED <<bbVars, pos, batch, todo, cur, attempts, applied, procVars,
                            outerVars, stored, recorded, origin, dropped, bodies, storeErrs,
                            starts>>

\* StoreBlockss: one insert for the whole batch, refused when a height is
\* already there (number and hash are unique) or the headers have no timestamp.
Duplicate == HeldHeights \intersect StoredHeights # {}
Unstorable == Duplicate \/ "time" \in gaps
StoredNow == stored \cup {headers[i] : i \in DOMAIN headers}

\* Mutant of StoreBlocks: the headers are stored before the batch is sent.
StoreBlocksFirst == /\ prod \in {"send", "store"} /\ ~Unstorable
                    /\ stored' = StoredNow
                    /\ headers' = <<>>
                    /\ prod' = "idle"
                    /\ ProducerFrame
                    /\ UNCHANGED <<chainVars, lastTraversed, call, endHeight, fetched,
                                   faults, pos, batch, histVars>>

\* Mutant of StoreBlocks: tick does not forget a batch that is done.
StoreBlocksKeeps == /\ prod = "store" /\ ~Unstorable
                    /\ stored' = StoredNow
                    /\ prod' = "idle"
                    /\ ProducerFrame
                    /\ UNCHANGED <<bbVars, pos, batch, histVars>>

StoreBlocks == /\ prod = "store" /\ ~Unstorable
               /\ stored' = StoredNow
               /\ headers' = <<>>
               /\ prod' = "idle"
               /\ ProducerFrame
               /\ UNCHANGED <<chainVars, lastTraversed, call, endHeight, fetched, faults,
                              pos, batch, histVars>>

\* The insert returns an error, committed or not: tick keeps the headers and
\* sends the same batch again.
StoreBlocksFails == /\ prod = "store" /\ storeErrs < MaxStoreErrs
                    /\ \/ Unstorable /\ UNCHANGED <<stored, faults>>
                       \/ ~Unstorable /\ Fault("store") /\ UNCHANGED stored
                       \/ ~Unstorable /\ Fault("store_ack") /\ stored' = StoredNow
                    /\ storeErrs' = storeErrs + 1
                    /\ prod' = "idle"
                    /\ ProducerFrame
                    /\ UNCHANGED <<chainVars, nhVars, pos, batch, origin, delivered,
                                   sent, dropped, bodies, starts>>

Producer == \/ TickNext \/ TickRetry \/ LoopExit
            \/ NextHeadersPanics \/ NextHeadersEmpty \/ NextHeadersCalls
            \/ NextHeadersReturns
            \/ ScanFails \/ ScanDrops \/ ScanPanics \/ ScanNothing \/ ScanBlock
            \/ SendBatch \/ StoreBlocks \/ StoreBlocksFails

-----------------------------------------------------------------------------
(* The consumer: the task of Deposit.Start, handleBatch, retry.Do. *)

\* What the consumer's steps leave alone.
ConsumerFrame == UNCHANGED <<chainVars, nhVars, prodVars, outerVars, stored, histVars>>

InBatch(b) == \E h \in Heights : taken[b][h] > 0

\* handleBatch lists the businesses anew: the rows to handle are those that
\* are there now and have an entry in the batch.
ListBusiness == /\ cons = "list"
                /\ todo' = [b \in Business |-> IF InBatch(b) THEN rows[b] ELSE 0]
                /\ cons' = "each"
                /\ ConsumerFrame
                /\ UNCHANGED <<faults, taken, cur, attempts, applied, procVars, recorded>>

\* The next row: its transactions are looked up and its records made, with
\* their keys, before the first attempt.
Prepare(b) == /\ cons = "each" /\ todo[b] > 0 /\ "tx" \notin gaps
              /\ cur' = b /\ attempts' = 0 /\ applied' = FALSE
              /\ cons' = "retry"
              /\ ConsumerFrame
              /\ UNCHANGED <<faults, taken, todo, procVars, recorded>>

\* A panic in a task is recovered and shuts the application down; the task
\* ends.
PreparePanics == /\ cons = "each" /\ "tx" \in gaps
                 /\ \E b \in Business : todo[b] > 0
                 /\ cons' = "panicked" /\ shutdown' = TRUE
                 /\ ConsumerFrame
                 /\ UNCHANGED <<faults, taken, todo, cur, attempts, applied, main, recorded>>

\* An error ends the task, and nothing else: the channel has no receiver from
\* now on.  QueryBusinessList or GetTransactionByHash failed, or retry.Do saw
\* its context cancelled.
HandleFails == /\ \/ cons = "list" /\ Fault("list")
                  \/ cons = "each" /\ (\E b \in Business : todo[b] > 0) /\ Fault("tx")
                  \/ cons = "retry" /\ ResourceCancelled /\ UNCHANGED faults
               /\ cons' = "failed"
               /\ ConsumerFrame
               /\ UNCHANGED <<taken, todo, cur, attempts, applied, procVars, recorded>>

\* retry.Do looks at its context before each attempt only.
RetryAttempt == /\ cons = "retry" /\ ~ResourceCancelled
                /\ cons' = "attempt"
                /\ ConsumerFrame
                /\ UNCHANGED <<faults, taken, todo, cur, attempts, applied, procVars, recorded>>

\* The types a transaction of the batch may have been given.
Types(h) == {Verdicts(Book[cur], t) : t \in ToSet(BlockTxs[h])}
Taken == {h \in Heights : taken[cur][h] > 0}

\* UpdateOrCreate takes the amount of an internal transfer from a balance whose
\* locked part is 0 and which is then negative: UINT256 refuses it.
Internal == {"collection", "hot2cold", "cold2hot"}

\* Mutant of Insertable: the keys are made inside each attempt.
InsertableAgain == cur \in tables

\* The transaction may be committed.  Its inserts use the keys made in Prepare:
\* they are refused once an earlier attempt is committed.
Insertable == /\ ~applied /\ cur \in tables /\ "insert" \notin gaps
              /\ \A h \in Taken : \A types \in Types(h) : ~(types \subseteq Internal)

\* The transaction may be refused.
Refused == \/ applied \/ cur \notin tables \/ "insert" \in gaps
           \/ \E h \in Taken : \E types \in Types(h) : types \intersect Internal # {}
Inserted == [recorded EXCEPT ![cur] = [h \in Heights |-> @[h] + taken[cur][h]]]

Commit == /\ cons = "attempt" /\ Insertable
          /\ recorded' = Inserted
          /\ todo' = [todo EXCEPT ![cur] = @ - 1]
          /\ cur' = NoBusiness
          /\ cons' = "each"
          /\ ConsumerFrame
          /\ UNCHANGED <<faults, taken, attempts, applied, procVars>>

\* Mutant of AfterFailure: the error is swallowed.
AfterFailureSwallowed == IF attempts + 1 = MaxAttempts THEN "recv" ELSE "retry"

\* retry.Do gives up after MaxAttempts.
AfterFailure == IF attempts + 1 = MaxAttempts THEN "failed" ELSE "retry"

\* The attempt returns an error: the transaction is rolled back, or it is
\* committed and the answer is lost.
AttemptFails == /\ cons = "attempt"
                /\ \/ Refused /\ UNCHANGED <<faults, applied, recorded>>
                   \/ Insertable /\ Fault("commit") /\ UNCHANGED <<applied, recorded>>
                   \/ /\ Insertable /\ Fault("commit_ack")
                      /\ applied' = TRUE /\ recorded' = Inserted
                /\ attempts' = attempts + 1
                /\ cons' = AfterFailure
                /\ ConsumerFrame
                /\ UNCHANGED <<taken, todo, cur, procVars>>

\* Every row is handled: the task waits for the next batch.
HandleDone == /\ cons = "each" /\ \A b \in Business : todo[b] = 0
              /\ cons' = "recv" /\ taken' = NoCounts
              /\ ConsumerFrame
              /\ UNCHANGED <<faults, todo, cur, attempts, applied, procVars, recorded>>

\* The range over the closed channel ends.
ReceiveClosed == /\ cons = "recv" /\ ChannelClosed
                 /\ cons' = "done"
                 /\ ConsumerFrame
                 /\ UNCHANGED <<faults, taken, todo, cur, attempts, applied, procVars, recorded>>

Consumer == \/ ListBusiness \/ (\E b \in Business : Prepare(b)) \/ PreparePanics
            \/ HandleFails \/ RetryAttempt \/ Commit \/ AttemptFails
            \/ HandleDone \/ ReceiveClosed

-----------------------------------------------------------------------------
(* The process: LifecycleCmd, MultiChainSync.Stop, Deposit.Close. *)

MainFrame == UNCHANGED <<bbVars, prodVars, consVars, outerVars, stored, recorded, histVars>>

Interrupt == /\ "stop" \in Env /\ main = "run" /\ ~shutdown
             /\ shutdown' = TRUE
             /\ UNCHANGED main /\ MainFrame

\* LoopFn.Close: cancel the loop's context, then wait for the loop.
LoopCancel == /\ main = "run" /\ shutdown
              /\ main' = "wait"
              /\ UNCHANGED shutdown /\ MainFrame

\* Mutant of CloseChannel: it does not wait for the loop.
CloseChannelAtOnce == /\ main = "wait"
                      /\ main' = "chan"
                      /\ UNCHANGED shutdown /\ MainFrame

\* The loop is over: onClose closes the channel.
CloseChannel == /\ main = "wait" /\ prod = "exited"
                /\ main' = "chan"
                /\ UNCHANGED shutdown /\ MainFrame

ResourceCancel == /\ main = "chan"
                  /\ main' = "await"
                  /\ UNCHANGED shutdown /\ MainFrame

\* Mutant of TasksWait: the tasks are not awaited.
TasksNoWait == /\ main = "await"
               /\ main' = "stopped"
               /\ UNCHANGED shutdown /\ MainFrame

TasksWait == /\ main = "await" /\ cons \in {"done", "failed", "panicked"}
             /\ main' = "stopped"
             /\ UNCHANGED shutdown /\ MainFrame

Main == LoopCancel \/ CloseChannel \/ ResourceCancel \/ TasksWait

Crash == "crash" \in Env /\ Up /\ Die /\ UNCHANGED faults

\* NewDeposit: scan on from the highest stored block, else from the configured
\* starting height, else from the newest block.
FromHeights == IF stored # {} THEN {Max(StoredHeights)}
               ELSE IF StartingHeight = 0 /\ "latest" \in gaps THEN {}
               ELSE ChainStart

Start == /\ ~Up /\ starts < MaxStarts
         /\ starts' = starts + 1
         /\ lastTraversed' \in FromHeights
         /\ origin' = IF stored = {} THEN lastTraversed' ELSE origin
         /\ call' = "none" /\ endHeight' = 0 /\ fetched' = <<>> /\ headers' = <<>>
         /\ prod' = "idle" /\ pos' = 1 /\ batch' = NoCounts
         /\ cons' = "recv" /\ taken' = NoCounts /\ todo' = [b \in Business |-> 0]
         /\ cur' = NoBusiness /\ attempts' = 0 /\ applied' = FALSE
         /\ main' = "run" /\ shutdown' = FALSE
         /\ UNCHANGED <<chainVars, faults, outerVars, stored, recorded, delivered, sent,
                        dropped, bodies, storeErrs>>

-----------------------------------------------------------------------------
Init == /\ tip = InitTip /\ fork = [h \in Heights |-> 0]
        /\ stored = {}
        /\ gaps \in Builds
        /\ lastTraversed \in FromHeights /\ origin = lastTraversed
        /\ call = "none" /\ endHeight = 0 /\ fetched = <<>> /\ headers = <<>>
        /\ faults = 0
        /\ prod = "idle" /\ pos = 1 /\ batch = NoCounts
        /\ cons = "recv" /\ taken = NoCounts /\ todo = [b \in Business |-> 0]
        /\ cur = NoBusiness /\ attempts = 0 /\ applied = FALSE
        /\ main = "run" /\ shutdown = FALSE
        /\ rows = [b \in Business |-> IF b \in Registered THEN 1 ELSE 0]
        /\ tables = Registered /\ exported = Registered
        /\ recorded = NoCounts /\ sent = NoCounts
        /\ delivered = [h \in Heights |-> 0]
        /\ dropped = {} /\ bodies = {} /\ storeErrs = 0 /\ starts = 1

Next == Services \/ Chain \/ Producer \/ Consumer \/ Main \/ Interrupt \/ Crash \/ Start

Spec == Init /\ [][Next]_vars

\* Every goroutine that can take a step takes one.  select chooses at random
\* between a tick and the cancelled context, and a node does not lag for ever.
\* Nothing makes the chain grow, a business register or the process start.
Fairness == /\ WF_vars(Producer) /\ WF_vars(Consumer) /\ WF_vars(Main)
            /\ SF_vars(LoopExit)
            /\ SF_vars(NextHeadersCalls /\ LatestRange(tip))

LiveSpec == Spec /\ Fairness

-----------------------------------------------------------------------------
(* Properties. *)

\* Every variable keeps its type.
TypeOK == /\ BBTypeOK
          /\ prod \in {"idle", "headers", "scan", "send", "store", "exited"}
          /\ pos \in Nat \ {0}
          /\ batch \in Counts /\ taken \in Counts
          /\ cons \in {"recv", "list", "each", "retry", "attempt", "done", "failed",
                       "panicked"}
          /\ todo \in [Business -> Nat]
          /\ cur \in Business \cup {NoBusiness}
          /\ attempts \in 0..MaxAttempts
          /\ applied \in BOOLEAN
          /\ main \in {"down", "run", "wait", "chan", "await", "stopped"}
          /\ shutdown \in BOOLEAN
          /\ rows \in [Business -> Nat]
          /\ tables \subseteq Business /\ exported \subseteq tables
          /\ stored \subseteq Header /\ bodies \subseteq Header
          /\ recorded \in Counts /\ sent \in Counts
          /\ delivered \in [Heights -> Nat]
          /\ dropped \subseteq Heights
          /\ origin \in Heights /\ gaps \in Builds
          /\ storeErrs \in Nat /\ starts \in Nat

\* Scanning skips no block: every height above the one the scan began after,
\* up to the last one traversed, was sent to the consumer, given up by processBatch, or is
\* in the batch that tick keeps for its next try; over failures of any call,
\* crashes and restarts.
NoSilentSkip ==
  \A h \in (origin + 1)..lastTraversed :
    delivered[h] > 0 \/ h \in dropped \/ h \in HeldHeights

\* A block has a row only after it went through the channel (processBatch sends
\* before it stores), so a restart, which continues above the highest row, only
\* jumps over blocks that were sent or given up.
StoredAfterSent == \A h \in StoredHeights : delivered[h] > 0

\* A block is sent again only for a reason: each time beyond the first there was
\* a failed call of StoreBlockss or a restart.
ResentOnlyAfterFailure == \A h \in Heights : delivered[h] <= storeErrs + starts

\* What the scanner reads and stores is final: no reorganisation of at most
\* ConfDepth blocks replaces a block whose transactions were read or whose header
\* was stored, and the two are of the same block.
OnlyFinalBlocks ==
  MaxReorg <= ConfDepth => \A r \in bodies \cup stored : r = HeaderAt(r.height)

\* Retrying a database transaction never writes a batch twice for one business
\* row, not even after a commit whose answer was lost.
NeverOverRecorded ==
  \A b \in Business, h \in Heights : recorded[b][h] <= MaxRows * sent[b][h]

\* While the process that scanned them runs, a consumer that waits for the next
\* batch has written everything it was sent.
HandledIsRecorded ==
  cons = "recv" /\ starts = 1 =>
    \A b \in Business, h \in Heights : recorded[b][h] >= sent[b][h]

\* The channel is closed only when the producer can no longer send on it.
NoSendOnClosedChannel == ChannelClosed => prod = "exited"

\* Once Deposit.Close has returned, nothing is written any more until the next
\* start.
NoWriteAfterClose == [][main = "stopped" => UNCHANGED <<stored, recorded>>]_vars

\* The blocks that no listed business trips over, and none of whose transactions
\* is an internal transfer.
Accepted(h) == /\ BlockTxs[h] # <<>>
               /\ \A b \in Registered :
                    /\ VerdictsFor(b, h) = {"ok"}
                    /\ \A t \in ToSet(BlockTxs[h]) :
                         Verdicts(Book[b], t) \intersect Internal = {}

\* Every confirmed block with transactions is written for every registered
\* business sooner or later, unless somebody stops the scanner.
ConfirmedIsRecorded ==
  \A b \in Registered, h \in Heights :
    (origin < h /\ h <= tip - ConfDepth /\ Accepted(h)) ~> (recorded[b][h] > 0 \/ shutdown)

\* An interrupt stops the scanner.
ShutdownCompletes == shutdown ~> main = "stopped"
=============================================================================
