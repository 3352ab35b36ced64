------------------------------ MODULE Lifecycle ------------------------------
(***************************************************************************)
(* A process of cmd/multichain-sync from main to its exit: the commands   *)
(* sync, rpc, notify and migrate, the set-up of each, the lifecycle of    *)
(* common/cliapp/lifecycle.go around the first three, and the order in    *)
(* which MultiChainSync.Stop closes its workers.  Of a task only its end  *)
(* matters here; what the tasks do is in SyncPipeline, WithdrawFlow,      *)
(* InternalFlow and Notifier, the calls of the rpc server in RpcServer.   *)
(*                                                                         *)
(* main has registered for the signals before anything else, with a       *)
(* channel nobody reads: a signal has no effect of its own.  As in        *)
(* Notifier, the notifier is one that compiles, with a map for its        *)
(* clients.                                                               *)
(***************************************************************************)
EXTENDS RpcServer, Integers

CONSTANTS
  Command,     \* the commands that are run: a mode and the flags given with it
  Files,       \* the number of migration files
  MaxAttempts, \* the attempts of NewDB (10)
  Faulty,      \* the faults of the process
  Builds,      \* the builds of sync, each the set of what it lacks, as in
               \* SyncPipeline: "latest", "tx", "insert", "time"
  MaxSignals,  \* bound: signals
  MaxStarts    \* bound: starts of the process

Modes == {"sync", "rpc", "notify", "migrate"}

\* The settings that decide how far a process gets; durations in units of 500 ns.
Config == [confirmations : Nat, syncInterval : Int, workerInterval : Int, blocksStep : Nat,
           startingHeight : Nat]

\* The values of flags that are not given.
Flags == [confirmations |-> 64, syncInterval |-> 10000000, workerInterval |-> 10000000,
          blocksStep |-> 500, startingHeight |-> 0]

NewConfig(given) == [f \in DOMAIN Flags |-> IF f \in DOMAIN given THEN given[f] ELSE Flags[f]]

ASSUME LifecycleAssumption ==
  /\ \A c \in Command : c[1] \in Modes /\ NewConfig(c[2]) \in Config
  /\ Files \in Nat /\ Builds \subseteq SUBSET {"latest", "tx", "insert", "time"}
  /\ MaxAttempts \in Nat \ {0} /\ MaxSignals \in Nat /\ MaxStarts \in Nat \ {0}

VARIABLES
  mode,      \* the command
  cfg,       \* its configuration
  main,      \* "config", "db", "build", "start", "wait", "stop", "migrate", "out",
             \* "hung": in a call to the node that never returns
  attempts,  \* attempts to connect so far
  listener,  \* the goroutine that waits for a signal: "none", "armed", "over"
  cancelled, \* appCtx is cancelled
  nil,       \* NewDeposit has failed: mcs.Deposit is nil
  task,      \* task[w]: "off", "run", "done", "failed", "panicked", "stuck"
  closing,   \* Stop is at the task with this number
  applied,   \* the migration files executed
  file,      \* the migration file it is at
  gaps,      \* what the build lacks
  blocks,    \* the table of blocks has a row
  signals, starts

taskVars == <<nil, task, closing>>
migrateVars == <<applied, file>>
syncVars == <<gaps, blocks>>
procVars == <<mode, cfg, main, attempts, listener, cancelled, taskVars, migrateVars, syncVars>>
vars == <<rpcVars, procVars, signals, starts>>

Task == {"producer", "consumer", "withdraw", "internal", "notify"}

\* The order in which Stop waits: Deposit.Close for the loop and then for its
\* consumer, Withdraw.Close, Internal.Close; Notifier.Stop.
Order == CASE mode = "sync" -> <<"producer", "consumer", "withdraw", "internal">>
           [] mode = "notify" -> <<"notify">>
           [] OTHER -> << >>

ProcFault(name) == name \in Faulty /\ faults < MaxFaults /\ faults' = faults + 1

\* The process ends.
Leave(code) == exit' = code /\ main' = "out" /\ serving' = "off" /\ CutCalls

-----------------------------------------------------------------------------
(* The set-up. *)

defaulConfirmations == 64
defaultSynchronizerInterval == 10
defaultWorkerInterval == 1
defaultBlocksStep == 500

Default(value, default) == IF value = 0 THEN default ELSE value

\* Mutant of LoadConfig: the worker interval has no default.
LoadConfigAsIs(f) ==
  [f EXCEPT !.confirmations = Default(@, defaulConfirmations),
            !.syncInterval = Default(@, defaultSynchronizerInterval),
            !.blocksStep = Default(@, defaultBlocksStep)]

\* What is 0 has a default.
LoadConfig(f) ==
  [f EXCEPT !.confirmations = Default(@, defaulConfirmations),
            !.syncInterval = Default(@, defaultSynchronizerInterval),
            !.workerInterval = Default(@, defaultWorkerInterval),
            !.blocksStep = Default(@, defaultBlocksStep)]

Configure == /\ main = "config"
             /\ cfg' = LoadConfig(cfg) /\ main' = "db"
             /\ UNCHANGED <<rpcVars, mode, attempts, listener, cancelled, taskVars, migrateVars,
                            syncVars, signals, starts>>

AfterSetup == IF mode = "migrate" THEN "migrate" ELSE "build"

\* NewDB; its retries do not look at the context of the command.
Connect == /\ main = "db"
           /\ main' = AfterSetup
           /\ UNCHANGED <<rpcVars, mode, cfg, attempts, listener, cancelled, taskVars, migrateVars,
                          syncVars, signals, starts>>

ConnectFails == /\ main = "db" /\ ProcFault("db")
                /\ attempts' = attempts + 1
                /\ IF attempts' = MaxAttempts THEN Leave("error")
                   ELSE UNCHANGED <<exit, main, serving, step>>
                /\ UNCHANGED <<req, at, got, reply, stored, mode, cfg, listener, cancelled, taskVars,
                               migrateVars, syncVars, signals, starts>>

\* A ticker with an interval that is not positive panics: those that NewWithdraw
\* and NewInternal make.
TickerPanics == mode = "sync" /\ cfg.workerInterval <= 0

\* NewDeposit asks the node where to begin when no block is stored: for the header
\* at the starting height, or, when that is 0, for the latest one.
AsksNode == mode = "sync" /\ ~blocks

\* A build that cannot ask for the latest header panics in the attempt.
LatestPanics == AsksNode /\ cfg.startingHeight = 0 /\ "latest" \in gaps

\* NewMultiChainSync, NewBusinessMiddleWireServices, NewNotifier.  An error of
\* NewDeposit is dropped, and nil is what is started.
Build == /\ main = "build" /\ ~TickerPanics
         /\ \/ ~LatestPanics /\ nil' = FALSE /\ UNCHANGED faults
            \/ mode = "sync" /\ ProcFault("build") /\ nil' = TRUE
         /\ main' = "start"
         /\ UNCHANGED <<exit, serving, callVars, mode, cfg, attempts, listener, cancelled, task,
                        closing, migrateVars, syncVars, signals, starts>>

\* The address of the node is refused, or NewNotifier returns an error; or
\* NewDeposit or a ticker panics.
BuildFails == /\ main = "build"
              /\ \/ ProcFault("build") /\ Leave("error")
                 \/ (TickerPanics \/ LatestPanics) /\ Leave("panic") /\ UNCHANGED faults
              /\ UNCHANGED <<req, at, got, reply, stored, mode, cfg, attempts, listener, cancelled,
                             taskVars, migrateVars, syncVars, signals, starts>>

\* The node never answers NewDeposit, whose call has no deadline and no context to
\* cancel.
BuildHangs == /\ main = "build" /\ AsksNode /\ ~LatestPanics /\ ProcFault("hang")
              /\ main' = "hung"
              /\ UNCHANGED <<exit, serving, callVars, mode, cfg, attempts, listener, cancelled,
                             taskVars, migrateVars, syncVars, signals, starts>>

\* The ticker of the loop, or the nil that Start is called on.
StartPanics == mode = "sync" /\ (nil \/ cfg.syncInterval <= 0)

StartAll == /\ main = "start"
            /\ IF StartPanics THEN Leave("panic") /\ UNCHANGED task
               ELSE /\ main' = "wait"
                    /\ task' = [w \in Task |-> IF w \in ToSet(Order) THEN "run" ELSE "off"]
                    /\ serving' = IF mode = "rpc" THEN "listen" ELSE "off"
                    /\ UNCHANGED <<exit, step>>
            /\ UNCHANGED <<req, at, got, reply, stored, faults, mode, cfg, attempts, listener, cancelled,
                           nil, closing, migrateVars, syncVars, signals, starts>>

\* The goroutine of BusinessMiddleWireServices.Start.  Without a listener it
\* goes on all the same, and panics.
Listen == /\ serving = "listen"
          /\ \/ serving' = "on" /\ UNCHANGED <<exit, main, step, faults>>
             \/ ProcFault("listen") /\ Leave("panic")
          /\ UNCHANGED <<req, at, got, reply, stored, mode, cfg, attempts, listener, cancelled, taskVars,
                         migrateVars, syncVars, signals, starts>>

Migrate == /\ main = "migrate"
           /\ \/ /\ file <= Files
                 /\ \/ /\ applied' = applied \cup {file} /\ file' = file + 1
                       /\ UNCHANGED <<exit, main, serving, step, faults>>
                    \/ ProcFault("migrate") /\ Leave("error") /\ UNCHANGED migrateVars
              \/ file > Files /\ Leave("success") /\ UNCHANGED <<migrateVars, faults>>
           /\ UNCHANGED <<req, at, got, reply, stored, mode, cfg, attempts, listener, cancelled, taskVars,
                          syncVars, signals, starts>>

-----------------------------------------------------------------------------
(* Signals. *)

\* The goroutine of LifecycleCmd registers for the signals, some time after the
\* command has begun.
Arm == /\ listener = "none" /\ exit = "no" /\ mode # "migrate"
       /\ listener' = IF cancelled THEN "over" ELSE "armed"
       /\ UNCHANGED <<rpcVars, mode, cfg, main, attempts, cancelled, taskVars, migrateVars, syncVars,
                      signals, starts>>

\* A signal cancels the context when the goroutine waits for one.  Earlier ones
\* are lost, later ones cancel a context that no Stop looks at.
Signal == /\ exit = "no" /\ signals < MaxSignals
          /\ signals' = signals + 1
          /\ IF listener = "armed" THEN listener' = "over" /\ cancelled' = TRUE
             ELSE UNCHANGED <<listener, cancelled>>
          /\ UNCHANGED <<rpcVars, mode, cfg, main, attempts, taskVars, migrateVars, syncVars, starts>>

-----------------------------------------------------------------------------
(* The tasks. *)

TaskFrame == UNCHANGED <<serving, callVars, mode, cfg, attempts, listener, nil, closing,
                         migrateVars, syncVars, signals, starts>>

Runs(w) == task[w] = "run" /\ exit = "no"

\* The loop has got past its first call, for the latest header: it works with the
\* node and the tables, and its consumer gets what it sends.
Scans == "latest" \notin gaps

\* The loop stores the headers of its first batch.
StoreBlocks == /\ Runs("producer") /\ Scans /\ "time" \notin gaps /\ ~blocks
               /\ blocks' = TRUE
               /\ UNCHANGED <<rpcVars, mode, cfg, main, attempts, listener, cancelled, taskVars,
                              migrateVars, gaps, signals, starts>>

\* The task returns an error, the consumer also because its records are refused:
\* nobody is told.
TaskFails(w) == /\ Runs(w) /\ w # "producer"
                /\ w = "consumer" => Scans
                /\ IF w = "consumer" /\ "insert" \in gaps THEN UNCHANGED faults
                   ELSE ProcFault("task")
                /\ task' = [task EXCEPT ![w] = "failed"]
                /\ TaskFrame /\ UNCHANGED <<exit, main, cancelled>>

\* It panics, the consumer also because its build cannot handle a transaction:
\* tasks.Group recovers and calls HandleCrit, which cancels the application's
\* context.
TaskPanics(w) == /\ Runs(w) /\ w # "producer"
                 /\ w = "consumer" => Scans
                 /\ IF w = "consumer" /\ "tx" \in gaps THEN UNCHANGED faults
                    ELSE ProcFault("panic")
                 /\ task' = [task EXCEPT ![w] = "panicked"]
                 /\ cancelled' = TRUE
                 /\ TaskFrame /\ UNCHANGED <<exit, main>>

\* The loop is not a task: a panic in it ends the process.  A build that cannot ask
\* for the latest header panics in its first tick.
LoopPanics == /\ Runs("producer")
              /\ IF Scans THEN ProcFault("panic") ELSE UNCHANGED faults
              /\ exit' = "panic" /\ main' = "out"
              /\ TaskFrame /\ UNCHANGED <<task, cancelled>>

\* The loop sends to a consumer that has ended; or the node never answers the loop,
\* or a business the notifier: neither call has a deadline.  The other tasks call
\* nobody.
TaskSticks(w) == /\ Runs(w)
                 /\ \/ /\ w = "producer" /\ task["consumer"] \in {"failed", "panicked"}
                       /\ UNCHANGED faults
                    \/ ((w = "producer" /\ Scans) \/ w = "notify") /\ ProcFault("hang")
                 /\ task' = [task EXCEPT ![w] = "stuck"]
                 /\ TaskFrame /\ UNCHANGED <<exit, main, cancelled>>

\* A task whose context is cancelled ends, with the context's error when it was
\* about to make an attempt.
TaskEnds(w) == /\ Runs(w) /\ main = "stop" /\ closing <= Len(Order) /\ Order[closing] = w
               /\ \/ task' = [task EXCEPT ![w] = "done"]
                  \/ w # "producer" /\ task' = [task EXCEPT ![w] = "failed"]
               /\ TaskFrame /\ UNCHANGED <<exit, main, cancelled, faults>>

-----------------------------------------------------------------------------
(* The end. *)

\* appCtx is done: Stop.
BeginStop == /\ main = "wait" /\ exit = "no" /\ cancelled
             /\ main' = "stop" /\ closing' = 1
             /\ UNCHANGED <<rpcVars, mode, cfg, attempts, listener, cancelled, nil, task,
                            migrateVars, syncVars, signals, starts>>

\* Mutant of Close: an error of a task is dropped.
CloseDropsError(w) == /\ task[w] \in {"done", "panicked", "failed"}
                      /\ closing' = closing + 1
                      /\ UNCHANGED <<exit, main, serving, step>>

\* Mutant of Close: a task that has panicked counts as one that still runs.
CloseNotPanicked(w) == \/ /\ task[w] = "done"
                          /\ closing' = closing + 1
                          /\ UNCHANGED <<exit, main, serving, step>>
                       \/ task[w] = "failed" /\ Leave("error") /\ UNCHANGED closing

\* Deposit.Close, Withdraw.Close, Internal.Close, Notifier.Stop: the context is
\* cancelled and the task awaited.  An error ends MultiChainSync.Stop there.
Close(w) == \/ /\ task[w] \in {"done", "panicked"}
               /\ closing' = closing + 1
               /\ UNCHANGED <<exit, main, serving, step>>
            \/ task[w] = "failed" /\ Leave("error") /\ UNCHANGED closing

Stop == /\ main = "stop" /\ exit = "no"
        /\ \/ closing <= Len(Order) /\ Close(Order[closing])
           \/ closing > Len(Order) /\ Leave("success") /\ UNCHANGED closing
        /\ UNCHANGED <<req, at, got, reply, stored, faults, mode, cfg, attempts, listener, cancelled, nil,
                       task, migrateVars, syncVars, signals, starts>>

\* The process is started again, with other settings perhaps.
Restart == /\ exit # "no" /\ starts < MaxStarts
           /\ exit' = "no" /\ main' = "config" /\ attempts' = 0 /\ listener' = "none"
           /\ cfg' \in {NewConfig(c[2]) : c \in {d \in Command : d[1] = mode}}
           /\ cancelled' = FALSE /\ nil' = FALSE /\ task' = [w \in Task |-> "off"] /\ closing' = 1
           /\ file' = 1 /\ starts' = starts + 1
           /\ UNCHANGED <<serving, callVars, faults, mode, applied, syncVars, signals>>

-----------------------------------------------------------------------------

Init == /\ RpcInit
        /\ \E c \in Command : mode = c[1] /\ cfg = NewConfig(c[2])
        /\ main = "config" /\ attempts = 0 /\ listener = "none" /\ cancelled = FALSE
        /\ nil = FALSE /\ task = [w \in Task |-> "off"] /\ closing = 1
        /\ IF mode = "sync" THEN gaps \in Builds /\ blocks \in BOOLEAN
                            ELSE gaps = {} /\ blocks = FALSE
        /\ applied = {} /\ file = 1 /\ signals = 0 /\ starts = 1

Setup == \/ Configure \/ Connect \/ ConnectFails \/ Build \/ BuildFails \/ BuildHangs \/ StartAll
         \/ Listen \/ Migrate

Serve == RpcNext /\ UNCHANGED <<procVars, signals, starts>>

Next == \/ Setup \/ Arm \/ Signal
        \/ (\E w \in Task : TaskFails(w) \/ TaskPanics(w) \/ TaskSticks(w) \/ TaskEnds(w))
        \/ StoreBlocks \/ LoopPanics \/ BeginStop \/ Stop \/ Restart \/ Serve

Spec == Init /\ [][Next]_vars

\* The main goroutine, the listener, the handlers and the tasks go on when they
\* can.
Fairness == /\ WF_vars(Setup) /\ WF_vars(Arm) /\ WF_vars(BeginStop) /\ WF_vars(Stop)
            /\ \A w \in Task : WF_vars(TaskEnds(w))
            /\ \A c \in Call : WF_vars(Handle(c) /\ UNCHANGED <<procVars, signals, starts>>)

LiveSpec == Spec /\ Fairness

-----------------------------------------------------------------------------
(* Properties. *)

\* Every variable keeps its type, and a call is answered with its own message.
TypeOK == /\ exit \in {"no", "success", "error", "panic"}
          /\ serving \in {"off", "listen", "on"}
          /\ step \in [Call -> {"none", "sent", "run", "hung", "answered", "status", "cut"}]
          /\ \A c \in Call : /\ step[c] # "none" => req[c] \in Asked
                             /\ step[c] = "answered" => reply[c] \in ResponseType(req[c].method)
          /\ at \in [Call -> 1..6] /\ DOMAIN stored = Call
          /\ \A c \in Call : \/ got[c] = NoAnswer
                             \/ \E k \in ToSet(Steps(req[c])) \cap NodeCalls :
                                  got[c] \in NodeResponse(req[c], k)
          /\ faults \in 0..MaxFaults
          /\ mode \in Modes /\ cfg \in Config
          /\ main \in {"config", "db", "build", "start", "wait", "stop", "migrate", "out", "hung"}
          /\ attempts \in 0..MaxAttempts
          /\ listener \in {"none", "armed", "over"} /\ cancelled \in BOOLEAN /\ nil \in BOOLEAN
          /\ task \in [Task -> {"off", "run", "done", "failed", "panicked", "stuck"}]
          /\ closing \in 1..5
          /\ gaps \in Builds \cup {{}} /\ blocks \in BOOLEAN
          /\ applied \subseteq 1..Files /\ file \in 1..(Files + 1)
          /\ signals \in 0..MaxSignals /\ starts \in 1..MaxStarts

\* How a process leaves its tasks when it exits by itself.  With success: none is
\* still at work or has returned an error, and all the migrations are done, also
\* after a start that had failed half-way.  With an error: one is cut off only
\* behind another, in the order of MultiChainSync.Stop, that returned an error.
\* A task that has panicked is not told apart from one that is done (Close,
\* ExecuteSQLMigration).
ExitIsClean ==
  /\ exit = "success" => /\ \A w \in ToSet(Order) : task[w] \in {"done", "panicked"}
                         /\ mode = "migrate" => applied = 1..Files
  /\ exit = "error" => \A j \in DOMAIN Order : task[Order[j]] \in {"run", "stuck"} =>
                         \E i \in 1..(j - 1) : task[Order[i]] = "failed"

\* A sync process that panics in its set-up has a negative interval, or lacks the
\* scanner that NewDeposit failed to make, or runs for the first time: no block is
\* stored, no starting height is set, and its build cannot ask for the latest
\* header.  Settings left out or 0 have values that a ticker takes (LoadConfig), and
\* once a block is stored no build panics there (NewDeposit).
SetupPanicHasCause == (exit = "panic" /\ mode = "sync" /\ \A w \in Task : task[w] = "off") =>
  \/ cfg.syncInterval < 0 \/ cfg.workerInterval < 0 \/ nil
  \/ ~blocks /\ cfg.startingHeight = 0 /\ "latest" \in gaps

\* A call that is answered with SUCCESS has all its rows, whatever failed in it and
\* in others; and none has rows of a later statement without those of an earlier
\* one.  Only the tables of a business may be missing (CreateTable).
SuccessIsStored == \A c \in Call :
  /\ (step[c] = "answered" /\ reply[c].code = "SUCCESS") =>
       (ToSet(Steps(req[c])) \cap Writes) \ {"tables"} \subseteq stored[c]
  /\ step[c] # "none" => {Steps(req[c])[i] : i \in 1..(at[c] - 1)} \cap Writes
                           \subseteq stored[c] \cup {"tables"}

\* Once the application's context is cancelled, by a signal or by a task that has
\* panicked, the process exits, at whatever point of its set-up it was, unless it
\* is in a call that never returns: NewDeposit's or the loop's to the node, the
\* notifier's to a business, or the loop's send to a consumer that has ended
\* (LifecycleCmd).
ShutdownExits == cancelled ~> \/ exit # "no" \/ main = "hung"
                              \/ \E w \in Task : task[w] = "stuck"

\* Every call comes back, with an answer or because the process is gone, unless the
\* node never answers.
CallEnds == \A c \in Call :
  (step[c] = "sent") ~> (step[c] \in {"answered", "status", "cut", "hung"})
=============================================================================
