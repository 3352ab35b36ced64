------------------------------ MODULE RpcServer ------------------------------
(***************************************************************************)
(* The gRPC server of the "rpc" process: services/service.go, the calls   *)
(* it takes (the generated stubs and messages of protobuf/dal-wallet-go)  *)
(* and what the handlers of services/handle.go do, step by step, until    *)
(* they answer.                                                           *)
(*                                                                         *)
(* A call's rows have keys of their own, so the tables are the writes     *)
(* each call has done.  As in WithdrawFlow the tables are ones that take  *)
(* the records of the services.  A handler that panics ends the process:  *)
(* there is no interceptor to recover.  The handlers call the node        *)
(* without a deadline, and no handler looks at the context of its call.   *)
(***************************************************************************)
EXTENDS Naturals, Sequences, SequencesExt

CONSTANTS
  Business,
  NoBusiness, \* ""
  Provisioned, \* the businesses that have had tables and a hot wallet before
  Asked,      \* the requests that are made
  MaxCalls,   \* bound: calls, a repeated one is a call of its own
  RpcFaulty,  \* the faults of calls: "node", "refuse", "query", "write", "hang"
  MaxFaults   \* bound: faults in one behaviour

Call == 1..MaxCalls
NoCall == 0

VARIABLES
  exit,     \* "no" while the process runs, then "success", "error" or "panic"
  serving,  \* "off", "listen", "on"
  req,      \* req[c]: the request of call c
  step,     \* step[c]: "none", "sent", "run", "hung"; "answered", "status", "cut"
  at,       \* at[c]: the number of the step its handler is at
  got,      \* got[c]: what the node has answered it last
  reply,    \* reply[c]: the message the caller gets
  stored,   \* stored[c]: the writes of call c that are committed
  faults

callVars == <<req, step, at, got, reply, stored>>
rpcVars == <<exit, serving, callVars, faults>>

Fault(name) == name \in RpcFaulty /\ faults < MaxFaults /\ faults' = faults + 1

-----------------------------------------------------------------------------
(* The messages, without the fields that nobody looks at. *)

ReturnCode == {"ERROR", "SUCCESS"}

\* A public key to export: that of a hot wallet, or another one.
PublicKey == {"hot", "other"}

BusinessRegisterRequest ==
  [method : {"register"}, id : Business \cup {NoBusiness}, url : BOOLEAN]
ExportAddressesRequest == [method : {"export"}, id : Business, keys : SUBSET PublicKey]
UnSignWithdrawTransactionRequest == [method : {"unsign"}, id : Business, token : BOOLEAN]
SignedWithdrawTransactionRequest ==
  [method : {"sign"}, id : Business, token : BOOLEAN, uuid : Call \cup {NoCall}]
SubmitWithdrawRequest == [method : {"submit"}, id : Business, token : BOOLEAN]

Request == BusinessRegisterRequest \cup ExportAddressesRequest
             \cup UnSignWithdrawTransactionRequest \cup SignedWithdrawTransactionRequest
             \cup SubmitWithdrawRequest

ASSUME RpcAssumption == /\ NoBusiness \notin Business /\ Provisioned \subseteq Business
                        /\ Asked \subseteq Request
                        /\ MaxCalls \in Nat /\ MaxFaults \in Nat

BusinessRegisterResponse == [code : ReturnCode]
ExportAddressesResponse == [code : ReturnCode, addresses : SUBSET PublicKey]
UnSignWithdrawTransactionResponse ==
  [code : ReturnCode, uuid : Call \cup {NoCall}, hashes : BOOLEAN]
SignedWithdrawTransactionResponse == [code : ReturnCode, signed : BOOLEAN]
SubmitWithdrawResponse == [code : ReturnCode]

ResponseType(method) == CASE method = "export" -> ExportAddressesResponse
                         [] method = "unsign" -> UnSignWithdrawTransactionResponse
                         [] method = "sign" -> SignedWithdrawTransactionResponse
                         [] method = "submit" -> SubmitWithdrawResponse
                         [] OTHER -> BusinessRegisterResponse

\* Mutant of Zero: nothing but the code, whatever the message.
ZeroCode(method) == [code |-> "ERROR"]

\* A response without its fields, and what is decoded from the nil that
\* SubmitWithdraw returns when it is through: code 0 is ERROR.
Zero(method) == CASE method = "export" -> [code |-> "ERROR", addresses |-> {}]
                  [] method = "unsign" -> [code |-> "ERROR", uuid |-> NoCall, hashes |-> FALSE]
                  [] method = "sign" -> [code |-> "ERROR", signed |-> FALSE]
                  [] OTHER -> [code |-> "ERROR"]

\* The answers of the node: with code ERROR what they are for is left out.  The
\* calls for the keys of one request are one step, as the handler keeps nothing
\* between them: address is the set of the keys converted, and the others, whose
\* address is "", get their rows all the same.
ConvertAddressResponse(keys) == {[code |-> IF k = keys THEN "SUCCESS" ELSE "ERROR", address |-> k] :
                                   k \in SUBSET keys}
FeeResponse == {[code |-> "SUCCESS", feeRate |-> TRUE], [code |-> "ERROR", feeRate |-> FALSE]}
UnSignTransactionResponse ==
  {[code |-> "SUCCESS", signHashes |-> TRUE], [code |-> "ERROR", signHashes |-> FALSE]}
SignedTransactionResponse ==
  {[code |-> "SUCCESS", signedTxData |-> TRUE], [code |-> "ERROR", signedTxData |-> FALSE]}

NoAnswer == [code |-> "none"]

NodeResponse(r, call) == CASE call = "ConvertAddress" -> ConvertAddressResponse(r.keys)
                           [] call = "GetFee" -> FeeResponse
                           [] call = "CreateUnSignTransaction" -> UnSignTransactionResponse
                           [] call = "BuildSignedTransaction" -> SignedTransactionResponse

\* What the handler of call c returns when it is through: SUCCESS, and what there
\* is of the node's answer, whatever its code.
Done(c) ==
  CASE req[c].method = "register" -> [code |-> "SUCCESS"]
    [] req[c].method = "export" -> [code |-> "SUCCESS",
                                   addresses |-> IF got[c] = NoAnswer THEN {} ELSE got[c].address]
    [] req[c].method = "unsign" -> [code |-> "SUCCESS", uuid |-> c, hashes |-> got[c].signHashes]
    [] req[c].method = "sign" -> [code |-> "SUCCESS", signed |-> got[c].signedTxData]
    [] req[c].method = "submit" -> Zero("submit")

-----------------------------------------------------------------------------
(* The handlers. *)

\* What is answered before anything is done.
Rejected(r) == CASE r.method = "register" -> r.id = NoBusiness \/ ~r.url
                 [] r.method = "export" -> FALSE
                 [] OTHER -> ~r.token

\* What the handlers do, in their order: calls of the node, queries for the hot
\* wallet and its inputs, writes.  Without keys there is nothing to convert or to
\* store; SubmitWithdraw's two inserts are one transaction.
BusinessRegister == <<"business", "tables">>
ExportAddressesByPublicKeys(r) ==
  IF r.keys = {} THEN << >> ELSE <<"ConvertAddress", "addresses", "balances">>
BuildUnSignTransaction ==
  <<"GetFee", "wallet", "vins", "CreateUnSignTransaction", "withdraws">>
BuildSignedTransaction == <<"wallet", "BuildSignedTransaction", "signature">>
SubmitWithdraw == <<"withdraws">>

Steps(r) == CASE r.method = "register" -> BusinessRegister
              [] r.method = "export" -> ExportAddressesByPublicKeys(r)
              [] r.method = "unsign" -> BuildUnSignTransaction
              [] r.method = "sign" -> BuildSignedTransaction
              [] r.method = "submit" -> SubmitWithdraw

NodeCalls == {"ConvertAddress", "GetFee", "CreateUnSignTransaction", "BuildSignedTransaction"}
Writes == {"business", "tables", "addresses", "balances", "withdraws", "signature"}

HasTables(b) == b \in Provisioned \/ \E c \in Call : "tables" \in stored[c] /\ req[c].id = b

\* QueryHotWalletInfo finds a row.
HasHotWallet(b) == \/ b \in Provisioned
                   \/ \E c \in Call : /\ "addresses" \in stored[c] /\ req[c].id = b
                                      /\ "hot" \in req[c].keys

\* The row of a withdrawal that BuildUnSignTransaction has stored; without one
\* UpdateWithdrawByGuuid saves an empty record, which the table refuses.
HasRow(r) == r.uuid # NoCall /\ "withdraws" \in stored[r.uuid] /\ req[r.uuid].id = r.id

\* The table a write needs is there.
Accepted(r, w) == \/ w \in {"business", "tables"}
                  \/ HasTables(r.id) /\ (w = "signature" => HasRow(r))

-----------------------------------------------------------------------------
(* Calls. *)

\* A business makes a call; calls are numbered as they come.
Invoke(c, r) == /\ serving = "on" /\ step[c] = "none"
                /\ \A d \in 1..(c - 1) : step[d] # "none"
                /\ req' = [req EXCEPT ![c] = r]
                /\ step' = [step EXCEPT ![c] = "sent"]
                /\ UNCHANGED <<exit, serving, at, got, reply, stored, faults>>

Answer(c, message) == /\ step' = [step EXCEPT ![c] = "answered"]
                      /\ reply' = [reply EXCEPT ![c] = message]

\* The caller gets the status of a failed call and no message.
AnswerStatus(c) == step' = [step EXCEPT ![c] = "status"] /\ UNCHANGED reply

\* Mutant of Handler: a request that is refused is not answered.
HandlerDrops(c) == /\ serving = "on" /\ step[c] = "sent"
                   /\ ~Rejected(req[c])
                   /\ step' = [step EXCEPT ![c] = "run"] /\ UNCHANGED reply
                   /\ UNCHANGED <<exit, serving, req, at, got, stored, faults>>

\* A handler is entered.
Handler(c) == /\ serving = "on" /\ step[c] = "sent"
              /\ \/ Rejected(req[c]) /\ Answer(c, Zero(req[c].method))
                 \/ ~Rejected(req[c]) /\ step' = [step EXCEPT ![c] = "run"] /\ UNCHANGED reply
              /\ UNCHANGED <<exit, serving, req, at, got, stored, faults>>

\* The handler of call c is at one of these steps.
Is(c, steps) == /\ serving = "on" /\ step[c] = "run"
                /\ at[c] <= Len(Steps(req[c])) /\ Steps(req[c])[at[c]] \in steps
Current(c) == Steps(req[c])[at[c]]

Proceed(c) == at' = [at EXCEPT ![c] = @ + 1]

\* The node answers: no handler returns for the code of an answer.
NodeAnswers(c) == /\ Is(c, NodeCalls)
                  /\ got' \in {[got EXCEPT ![c] = m] : m \in NodeResponse(req[c], Current(c))}
                  /\ \/ got'[c].code = "SUCCESS" /\ UNCHANGED faults
                     \/ got'[c].code = "ERROR" /\ Fault("refuse")
                  /\ Proceed(c)
                  /\ UNCHANGED <<exit, serving, req, step, reply, stored>>

\* It does not: the call fails, or waits for ever.
NodeFails(c) == /\ Is(c, NodeCalls)
                /\ \/ Current(c) # "ConvertAddress" /\ Fault("node") /\ AnswerStatus(c)
                   \/ Fault("hang") /\ step' = [step EXCEPT ![c] = "hung"] /\ UNCHANGED reply
                /\ UNCHANGED <<exit, serving, req, at, got, stored>>

\* A query of the database fails.
QueryFails(c) == Fault("query") /\ AnswerStatus(c) /\ UNCHANGED at

\* Without the tables of the business the query fails, too.
QueryHotWalletInfo(c) ==
  /\ Is(c, {"wallet"})
  /\ \/ HasHotWallet(req[c].id) /\ Proceed(c) /\ UNCHANGED <<step, reply, faults>>
     \/ ~HasTables(req[c].id) /\ AnswerStatus(c) /\ UNCHANGED <<at, faults>>
     \/ QueryFails(c)
  /\ UNCHANGED <<exit, serving, req, got, stored>>

\* The inputs of a withdrawal: those there are, spent or not.
QueryVinsByAddress(c) == /\ Is(c, {"vins"})
                         /\ \/ Proceed(c) /\ UNCHANGED <<step, reply, faults>>
                            \/ QueryFails(c)
                         /\ UNCHANGED <<exit, serving, req, got, stored>>

\* The calls that are under way when the process ends.
CutCalls == step' = [c \in Call |-> IF step[c] \in {"none", "answered", "status"} THEN step[c] ELSE "cut"]

\* The nil that QueryHotWalletInfo returns without an error is dereferenced.
Dereferences(c) == Is(c, {"wallet"}) /\ HasTables(req[c].id) /\ ~HasHotWallet(req[c].id)

\* That, or the answer that ConvertAddress did not give.
HandlerPanics(c) == /\ \/ Dereferences(c) /\ UNCHANGED faults
                       \/ Is(c, {"ConvertAddress"}) /\ Fault("node")
                    /\ exit' = "panic" /\ serving' = "off" /\ CutCalls
                    /\ UNCHANGED <<req, at, got, reply, stored>>

WriteRow(c) == /\ Is(c, Writes) /\ Accepted(req[c], Current(c))
               /\ stored' = [stored EXCEPT ![c] = @ \cup {Current(c)}]
               /\ Proceed(c)
               /\ UNCHANGED <<exit, serving, req, got, step, reply, faults>>

\* Mutant of AfterWriteFails: the error is only logged, as in CreateTable.
AfterWriteFailsLogged(c) == Proceed(c) /\ UNCHANGED <<step, reply>>

\* A failed write is answered with an error; a failed CREATE TABLE is only logged.
AfterWriteFails(c) ==
  IF Current(c) = "tables" THEN Proceed(c) /\ UNCHANGED <<step, reply>>
  ELSE /\ IF req[c].method \in {"register", "export"}
          THEN Answer(c, Zero(req[c].method)) ELSE AnswerStatus(c)
       /\ UNCHANGED at

WriteFails(c) == /\ Is(c, Writes)
                 /\ \/ Accepted(req[c], Current(c)) /\ Fault("write")
                    \/ ~Accepted(req[c], Current(c)) /\ UNCHANGED faults
                 /\ AfterWriteFails(c)
                 /\ UNCHANGED <<exit, serving, req, got, stored>>

Return(c) == /\ serving = "on" /\ step[c] = "run" /\ at[c] > Len(Steps(req[c]))
             /\ Answer(c, Done(c))
             /\ UNCHANGED <<exit, serving, req, at, got, stored, faults>>

Handle(c) == \/ Handler(c) \/ NodeAnswers(c) \/ NodeFails(c) \/ QueryHotWalletInfo(c)
             \/ QueryVinsByAddress(c) \/ HandlerPanics(c) \/ WriteRow(c) \/ WriteFails(c) \/ Return(c)

RpcInit == /\ req = [c \in Call |-> [method |-> "none"]]
           /\ step = [c \in Call |-> "none"] /\ at = [c \in Call |-> 1]
           /\ got = [c \in Call |-> NoAnswer]
           /\ reply = [c \in Call |-> Zero("none")] /\ stored = [c \in Call |-> {}]
           /\ serving = "off" /\ exit = "no" /\ faults = 0

RpcNext == \E c \in Call : (\E r \in Asked : Invoke(c, r)) \/ Handle(c)
=============================================================================
