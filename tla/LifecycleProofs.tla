--------------------------- MODULE LifecycleProofs ---------------------------
(***************************************************************************)
(* The rpc server's answers, and how a process ends: for every set of      *)
(* requests and of commands, every number of calls, faults, signals and    *)
(* starts.                                                                  *)
(***************************************************************************)
EXTENDS Lifecycle, TLAPS

-----------------------------------------------------------------------------
(* The steps of a request. *)

\* A request is of one of five kinds.
LEMMA RequestKinds ==
  ASSUME NEW r \in Request
  PROVE  /\ r.method \in {"register", "export", "unsign", "sign", "submit"}
         /\ r.method = "export" => r.keys \in SUBSET PublicKey
BY DEF Request, BusinessRegisterRequest, ExportAddressesRequest,
       UnSignWithdrawTransactionRequest, SignedWithdrawTransactionRequest,
       SubmitWithdrawRequest

\* The steps of each.
LEMMA StepsOf ==
  ASSUME NEW r \in Request
  PROVE  /\ r.method = "register" => Steps(r) = <<"business", "tables">>
         /\ r.method = "export" => IF r.keys = {} THEN Steps(r) = << >>
                                   ELSE Steps(r) = <<"ConvertAddress", "addresses", "balances">>
         /\ r.method = "unsign" =>
              Steps(r) = <<"GetFee", "wallet", "vins", "CreateUnSignTransaction", "withdraws">>
         /\ r.method = "sign" => Steps(r) = <<"wallet", "BuildSignedTransaction", "signature">>
         /\ r.method = "submit" => Steps(r) = <<"withdraws">>
BY DEF Steps, BusinessRegister, ExportAddressesByPublicKeys, BuildUnSignTransaction,
       BuildSignedTransaction, SubmitWithdraw

LEMMA StepsSeq ==
  ASSUME NEW r \in Request
  PROVE  Len(Steps(r)) \in 0..5 /\ DOMAIN Steps(r) = 1..Len(Steps(r))
<1>1. Len(Steps(r)) \in 0..5 /\ DOMAIN Steps(r) = 1..Len(Steps(r))
  <2>1. CASE r.method = "export"
    BY <2>1, StepsOf
  <2>2. CASE r.method = "unsign"
    BY <2>2, StepsOf
  <2>3. CASE r.method \in {"register", "sign", "submit"}
    BY <2>3, StepsOf
  <2> QED BY <2>1, <2>2, <2>3, RequestKinds
<1> QED BY <1>1

\* No answer of the node is a write.
LEMMA StepKinds == NodeCalls \cap Writes = {} /\ "wallet" \notin NodeCalls \cup Writes
                     /\ "vins" \notin NodeCalls \cup Writes
BY DEF NodeCalls, Writes

-----------------------------------------------------------------------------
(* One call. *)

\* A call whose request is r, with its handler at step a of it: what the node has
\* answered last (g), the message the caller has got (m) and the writes that are
\* committed (w) fit what is done.
CallFine(r, s, a, g, m, w) ==
  /\ a \in 1..6
  /\ s = "none" => a = 1 /\ g = NoAnswer
  /\ s # "none" =>
       /\ r \in Asked /\ a <= Len(Steps(r)) + 1
       /\ \A i \in 1..(a - 1) : Steps(r)[i] \in Writes => Steps(r)[i] \in w \cup {"tables"}
       /\ g = NoAnswer \/ \E k \in ToSet(Steps(r)) \cap NodeCalls : g \in NodeResponse(r, k)
       /\ \A i \in 1..(a - 1) :
            (Steps(r)[i] \in NodeCalls /\ \A j \in (i + 1)..(a - 1) : Steps(r)[j] \notin NodeCalls)
              => g \in NodeResponse(r, Steps(r)[i])
  /\ s = "answered" =>
       /\ m \in ResponseType(r.method)
       /\ m.code = "SUCCESS" => (ToSet(Steps(r)) \cap Writes) \ {"tables"} \subseteq w

\* Where a call may be.
StepNames == {"none", "sent", "run", "hung", "answered", "status", "cut"}

\* A function on calls.
IsTable(f) == f = [c \in Call |-> f[c]]

\* Every call is.
Calls == /\ IsTable(req) /\ IsTable(at) /\ IsTable(got) /\ IsTable(reply) /\ IsTable(stored)
         /\ step \in [Call -> StepNames]
         /\ \A c \in Call : CallFine(req[c], step[c], at[c], got[c], reply[c], stored[c])

\* The first message a response may be.
LEMMA ZeroResponse ==
  ASSUME NEW r \in Request
  PROVE  Zero(r.method) \in ResponseType(r.method) /\ Zero(r.method).code = "ERROR"
<1>1. NoCall \in Call \cup {NoCall}
  OBVIOUS
<1> QED BY <1>1, RequestKinds
        DEF Zero, ResponseType, ReturnCode, BusinessRegisterResponse, ExportAddressesResponse,
            UnSignWithdrawTransactionResponse, SignedWithdrawTransactionResponse,
            SubmitWithdrawResponse

\* A handler goes on to its next step.
LEMMA FineProceeds ==
  ASSUME NEW r, NEW a, NEW g, NEW m, NEW w, NEW h, NEW v,
         CallFine(r, "run", a, g, m, w), a <= Len(Steps(r)), w \subseteq v,
         Steps(r)[a] \in Writes => Steps(r)[a] \in v \cup {"tables"},
         Steps(r)[a] \in NodeCalls => h \in NodeResponse(r, Steps(r)[a]),
         Steps(r)[a] \notin NodeCalls => h = g
  PROVE  CallFine(r, "run", a + 1, h, m, v)
<1> DEFINE s == Steps(r)
<1>1. r \in Asked /\ r \in Request /\ a \in 1..6
  BY RpcAssumption DEF CallFine
<1>2. Len(s) \in 0..5 /\ DOMAIN s = 1..Len(s) /\ a \in DOMAIN s
  BY <1>1, StepsSeq
<1>3. a + 1 \in 1..6 /\ a + 1 <= Len(s) + 1 /\ (a + 1) - 1 = a
  BY <1>1, <1>2
<1>4. \A i \in 1..a : i = a \/ i \in 1..(a - 1)
  BY <1>1
<1>5. \A i \in 1..a : s[i] \in Writes => s[i] \in v \cup {"tables"}
  BY <1>4 DEF CallFine
<1>6. h = NoAnswer \/ \E k \in ToSet(s) \cap NodeCalls : h \in NodeResponse(r, k)
  <2>1. s[a] \in ToSet(s)
    BY <1>2 DEF ToSet
  <2> QED BY <2>1 DEF CallFine
<1>7. ASSUME NEW i \in 1..a, s[i] \in NodeCalls, \A j \in (i + 1)..a : s[j] \notin NodeCalls
      PROVE  h \in NodeResponse(r, s[i])
  <2>1. CASE i = a
    BY <1>7, <2>1
  <2>2. CASE i # a
    <3>1. i \in 1..(a - 1) /\ a \in (i + 1)..a /\ (i + 1)..(a - 1) \subseteq (i + 1)..a
      BY <1>1, <2>2
    <3>2. h = g
      BY <1>7, <3>1
    <3> QED BY <1>7, <3>1, <3>2 DEF CallFine
  <2> QED BY <2>1, <2>2
<1> QED BY <1>1, <1>3, <1>5, <1>6, <1>7 DEF CallFine

\* A call that does not end with a message.
LEMMA FineMoves ==
  ASSUME NEW r, NEW s, NEW t, NEW a, NEW g, NEW m, NEW w, CallFine(r, s, a, g, m, w),
         s # "none", t \notin {"none", "answered"}
  PROVE  CallFine(r, t, a, g, m, w)
BY DEF CallFine

\* A call that is answered with an empty message.
LEMMA FineRefused ==
  ASSUME NEW r, NEW s, NEW a, NEW g, NEW m, NEW w, CallFine(r, s, a, g, m, w), s # "none"
  PROVE  CallFine(r, "answered", a, g, Zero(r.method), w)
<1>1. r \in Request
  BY RpcAssumption DEF CallFine
<1>2. Zero(r.method) \in ResponseType(r.method) /\ Zero(r.method).code # "SUCCESS"
  BY <1>1, ZeroResponse
<1> QED BY <1>2 DEF CallFine

\* What a handler returns is a message of the right type: the node's answer it
\* reads is that of the last of its calls.
LEMMA DoneResponse ==
  ASSUME NEW c \in Call, NEW r, NEW g, r = req[c], g = got[c], NEW a, NEW m, NEW w,
         CallFine(r, "run", a, g, m, w), a > Len(Steps(r))
  PROVE  Done(c) \in ResponseType(r.method)
<1>1. r \in Request /\ a \in 1..6 /\ a <= Len(Steps(r)) + 1
  BY RpcAssumption DEF CallFine
<1>2. Len(Steps(r)) \in 0..5 /\ a - 1 = Len(Steps(r))
  BY <1>1, StepsSeq
<1>3. \A i \in 1..Len(Steps(r)) :
        (Steps(r)[i] \in NodeCalls /\ \A j \in (i + 1)..Len(Steps(r)) : Steps(r)[j] \notin NodeCalls)
          => g \in NodeResponse(r, Steps(r)[i])
  BY <1>2 DEF CallFine
<1>4. CASE r.method \in {"register", "submit"}
  BY <1>4 DEF Done, ResponseType, Zero, BusinessRegisterResponse, SubmitWithdrawResponse,
              ReturnCode
<1>5. CASE r.method = "export"
  <2>1. g = NoAnswer \/ g.address \in SUBSET PublicKey
    <3>1. CASE r.keys = {}
      <4>1. ToSet(Steps(r)) = {}
        BY <1>1, <1>5, <3>1, StepsOf DEF ToSet
      <4> QED BY <4>1 DEF CallFine
    <3>2. CASE r.keys # {}
      <4>1. Steps(r) = <<"ConvertAddress", "addresses", "balances">>
        BY <1>1, <1>5, <3>2, StepsOf
      <4>2. Len(Steps(r)) = 3 /\ Steps(r)[1] = "ConvertAddress" /\ Steps(r)[2] = "addresses"
              /\ Steps(r)[3] = "balances"
        BY <4>1
      <4>3. \A j \in 2..3 : Steps(r)[j] \notin NodeCalls
        BY <4>2 DEF NodeCalls
      <4>4. g \in NodeResponse(r, "ConvertAddress")
        BY <1>3, <4>2, <4>3 DEF NodeCalls
      <4>5. g \in ConvertAddressResponse(r.keys)
        BY <4>4 DEF NodeResponse
      <4>6. g.address \in SUBSET r.keys
        BY <4>5 DEF ConvertAddressResponse
      <4> QED BY <1>1, <1>5, <4>6, RequestKinds
    <3> QED BY <3>1, <3>2
  <2>2. (IF g = NoAnswer THEN {} ELSE g.address) \in SUBSET PublicKey
    BY <2>1
  <2> QED BY <1>5, <2>2 DEF Done, ResponseType, ExportAddressesResponse, ReturnCode
<1>6. CASE r.method = "unsign"
  <2>1. Steps(r) = <<"GetFee", "wallet", "vins", "CreateUnSignTransaction", "withdraws">>
    BY <1>1, <1>6, StepsOf
  <2>2. /\ Len(Steps(r)) = 5 /\ Steps(r)[4] = "CreateUnSignTransaction"
        /\ Steps(r)[5] = "withdraws"
    BY <2>1
  <2>3. \A j \in 5..5 : Steps(r)[j] \notin NodeCalls
    BY <2>2 DEF NodeCalls
  <2>4. g \in NodeResponse(r, "CreateUnSignTransaction")
    BY <1>3, <2>2, <2>3 DEF NodeCalls
  <2>5. g \in UnSignTransactionResponse
    BY <2>4 DEF NodeResponse
  <2>6. g.signHashes \in BOOLEAN
    <3>1. \/ g = [code |-> "SUCCESS", signHashes |-> TRUE]
          \/ g = [code |-> "ERROR", signHashes |-> FALSE]
      BY <2>5, Zenon DEF UnSignTransactionResponse
    <3>2. ASSUME NEW x \in BOOLEAN, NEW y, g = [code |-> y, signHashes |-> x] PROVE g.signHashes = x
      BY <3>2
    <3>3. TRUE \in BOOLEAN /\ FALSE \in BOOLEAN
      OBVIOUS
    <3> QED BY <3>1, <3>2, <3>3, Zenon
  <2> QED BY <1>6, <2>6 DEF Done, ResponseType, UnSignWithdrawTransactionResponse, ReturnCode
<1>7. CASE r.method = "sign"
  <2>1. Steps(r) = <<"wallet", "BuildSignedTransaction", "signature">>
    BY <1>1, <1>7, StepsOf
  <2>2. /\ Len(Steps(r)) = 3 /\ Steps(r)[2] = "BuildSignedTransaction"
        /\ Steps(r)[3] = "signature"
    BY <2>1
  <2>3. \A j \in 3..3 : Steps(r)[j] \notin NodeCalls
    BY <2>2 DEF NodeCalls
  <2>4. g \in NodeResponse(r, "BuildSignedTransaction")
    BY <1>3, <2>2, <2>3 DEF NodeCalls
  <2>5. g \in SignedTransactionResponse
    BY <2>4 DEF NodeResponse
  <2>6. g.signedTxData \in BOOLEAN
    <3>1. \/ g = [code |-> "SUCCESS", signedTxData |-> TRUE]
          \/ g = [code |-> "ERROR", signedTxData |-> FALSE]
      BY <2>5, Zenon DEF SignedTransactionResponse
    <3>2. ASSUME NEW x \in BOOLEAN, NEW y, g = [code |-> y, signedTxData |-> x] PROVE g.signedTxData = x
      BY <3>2
    <3>3. TRUE \in BOOLEAN /\ FALSE \in BOOLEAN
      OBVIOUS
    <3> QED BY <3>1, <3>2, <3>3, Zenon
  <2> QED BY <1>7, <2>6 DEF Done, ResponseType, SignedWithdrawTransactionResponse, ReturnCode
<1> QED BY <1>1, <1>4, <1>5, <1>6, <1>7, RequestKinds

\* A handler returns: all its writes are done.
LEMMA FineReturns ==
  ASSUME NEW c \in Call, NEW r, NEW g, r = req[c], g = got[c], NEW a, NEW m, NEW w,
         CallFine(r, "run", a, g, m, w), a > Len(Steps(r))
  PROVE  CallFine(r, "answered", a, g, Done(c), w)
<1>1. r \in Request /\ a \in 1..6 /\ a <= Len(Steps(r)) + 1
  BY RpcAssumption DEF CallFine
<1>2. Len(Steps(r)) \in 0..5 /\ a - 1 = Len(Steps(r)) /\ DOMAIN Steps(r) = 1..Len(Steps(r))
  BY <1>1, StepsSeq
<1>3. ASSUME NEW k \in (ToSet(Steps(r)) \cap Writes) \ {"tables"} PROVE k \in w
  <2>1. PICK i \in 1..(a - 1) : k = Steps(r)[i]
    BY <1>2, <1>3 DEF ToSet
  <2> QED BY <1>3, <2>1 DEF CallFine
<1>4. Done(c) \in ResponseType(r.method)
  BY DoneResponse
<1> QED BY <1>3, <1>4 DEF CallFine

-----------------------------------------------------------------------------
(* The calls together. *)

\* A step of call c leaves the others alone.
LEMMA OneCall ==
  ASSUME Calls, NEW c \in Call, NEW r, NEW s, NEW a, NEW g, NEW m, NEW w,
         s \in StepNames,
         CallFine(r, s, a, g, m, w),
         req' = [req EXCEPT ![c] = r], step' = [step EXCEPT ![c] = s], at' = [at EXCEPT ![c] = a],
         got' = [got EXCEPT ![c] = g], reply' = [reply EXCEPT ![c] = m],
         stored' = [stored EXCEPT ![c] = w]
  PROVE  Calls'
<1>t. ASSUME NEW f, IsTable(f), NEW x
      PROVE  LET e == [f EXCEPT ![c] = x]
             IN  IsTable(e) /\ e[c] = x /\ \A d \in Call : d # c => e[d] = f[d]
  BY <1>t DEF IsTable
<1>1. /\ IsTable(req') /\ IsTable(at') /\ IsTable(got') /\ IsTable(reply') /\ IsTable(stored')
      /\ step' \in [Call -> StepNames]
  BY <1>t DEF Calls
<1>2. ASSUME NEW d \in Call
      PROVE  CallFine(req'[d], step'[d], at'[d], got'[d], reply'[d], stored'[d])
  <2>1. CASE d = c
    <3>1. req'[d] = r /\ step'[d] = s /\ at'[d] = a /\ got'[d] = g /\ reply'[d] = m /\ stored'[d] = w
      <4>1. step'[d] = s
        BY <2>1 DEF Calls
      <4>2. req'[c] = r /\ at'[c] = a /\ got'[c] = g
        BY <1>t DEF Calls
      <4>3. reply'[c] = m /\ stored'[c] = w
        BY <1>t DEF Calls
      <4> QED BY <2>1, <4>1, <4>2, <4>3
    <3> QED BY <3>1
  <2>2. CASE d # c
    <3>1. /\ req'[d] = req[d] /\ step'[d] = step[d] /\ at'[d] = at[d] /\ got'[d] = got[d]
          /\ reply'[d] = reply[d] /\ stored'[d] = stored[d]
      BY <1>t, <2>2 DEF Calls
    <3>2. CallFine(req[d], step[d], at[d], got[d], reply[d], stored[d])
      BY DEF Calls
    <3> QED BY <3>1, <3>2
  <2> QED BY <2>1, <2>2
<1> QED BY <1>1, <1>2 DEF Calls, IsTable

\* What a step does not change stays as it is.
LEMMA SameEntry ==
  ASSUME Calls, NEW c \in Call
  PROVE  /\ req = [req EXCEPT ![c] = req[c]] /\ step = [step EXCEPT ![c] = step[c]]
         /\ at = [at EXCEPT ![c] = at[c]] /\ got = [got EXCEPT ![c] = got[c]]
         /\ reply = [reply EXCEPT ![c] = reply[c]] /\ stored = [stored EXCEPT ![c] = stored[c]]
<1>1. ASSUME NEW f, IsTable(f) PROVE f = [f EXCEPT ![c] = f[c]]
  BY <1>1 DEF IsTable
<1>2. IsTable(step)
  BY DEF Calls, IsTable
<1> QED BY <1>1, <1>2 DEF Calls

\* The calls under way are cut off.
LEMMA CallsCut ==
  ASSUME Calls, CutCalls, UNCHANGED <<req, at, got, reply, stored>> PROVE Calls'
<1>1. step' \in [Call -> StepNames]
  BY DEF CutCalls, Calls, StepNames
<1>2. ASSUME NEW d \in Call
      PROVE  CallFine(req[d], step'[d], at[d], got[d], reply[d], stored[d])
  <2>1. CallFine(req[d], step[d], at[d], got[d], reply[d], stored[d])
    BY DEF Calls
  <2>2. step'[d] = step[d] \/ (step[d] # "none" /\ step'[d] = "cut")
    BY DEF CutCalls
  <2> QED BY <2>1, <2>2, FineMoves
<1> QED BY <1>1, <1>2 DEF Calls, IsTable

LEMMA CallsUnchanged == ASSUME Calls, UNCHANGED callVars PROVE Calls'
BY DEF Calls, callVars, IsTable

\* A business makes a call.
LEMMA CallsInvoke ==
  ASSUME Calls, NEW c \in Call, NEW r \in Asked, Invoke(c, r) PROVE Calls'
<1>1. CallFine(req[c], "none", at[c], got[c], reply[c], stored[c])
  BY DEF Calls, Invoke
<1>2. r \in Request /\ Len(Steps(r)) \in 0..5
  BY RpcAssumption, StepsSeq
<1>3. CallFine(r, "sent", at[c], got[c], reply[c], stored[c])
  <2>1. at[c] = 1 /\ got[c] = NoAnswer
    BY <1>1 DEF CallFine
  <2>2. 1 \in 1..6 /\ 1 <= Len(Steps(r)) + 1 /\ 1..(1 - 1) = {}
    BY <1>2
  <2> QED BY <2>1, <2>2 DEF CallFine
<1>4. /\ req' = [req EXCEPT ![c] = r] /\ at' = [at EXCEPT ![c] = at[c]]
      /\ got' = [got EXCEPT ![c] = got[c]] /\ stored' = [stored EXCEPT ![c] = stored[c]]
      /\ step' = [step EXCEPT ![c] = "sent"] /\ reply' = [reply EXCEPT ![c] = reply[c]]
  BY SameEntry, Zenon DEF Invoke
<1>5. "sent" \in StepNames
  BY DEF StepNames
<1> QED BY <1>3, <1>4, <1>5, OneCall, Zenon

\* A step of the handler of a call.
LEMMA CallsHandle == ASSUME Calls, NEW c \in Call, Handle(c) PROVE Calls'
<1> DEFINE r == req[c]
           a == at[c]
           g == got[c]
           m == reply[c]
           w == stored[c]
<1>1. CallFine(r, step[c], a, g, m, w)
  BY DEF Calls
<1>2. /\ req = [req EXCEPT ![c] = r] /\ step = [step EXCEPT ![c] = step[c]]
      /\ at = [at EXCEPT ![c] = a] /\ got = [got EXCEPT ![c] = g]
      /\ reply = [reply EXCEPT ![c] = m] /\ stored = [stored EXCEPT ![c] = w]
  BY SameEntry
<1>n. {"run", "hung", "answered", "status"} \subseteq StepNames /\ "run" \in StepNames
        /\ "answered" \in StepNames
  BY DEF StepNames
<1>a. ASSUME step[c] # "none", step' = [step EXCEPT ![c] = "answered"],
             reply' = [reply EXCEPT ![c] = Zero(r.method)], UNCHANGED <<req, at, got, stored>>
      PROVE  Calls'
  <2>1. CallFine(r, "answered", a, g, Zero(r.method), w)
    BY <1>1, <1>a, FineRefused
  <2>2. /\ req' = [req EXCEPT ![c] = r] /\ at' = [at EXCEPT ![c] = a]
        /\ got' = [got EXCEPT ![c] = g] /\ stored' = [stored EXCEPT ![c] = w]
        /\ step' = [step EXCEPT ![c] = "answered"] /\ reply' = [reply EXCEPT ![c] = Zero(r.method)]
    BY <1>2, <1>a, Zenon
  <2> HIDE DEF r, a, g, m, w
  <2> QED BY <1>n, <2>1, <2>2, OneCall, Zenon
<1>m. ASSUME step[c] # "none", NEW t \in {"run", "hung", "status"}, step' = [step EXCEPT ![c] = t],
             UNCHANGED <<req, at, got, reply, stored>>
      PROVE  Calls'
  <2>1. CallFine(r, t, a, g, m, w)
    BY <1>1, <1>m, FineMoves
  <2>2. /\ req' = [req EXCEPT ![c] = r] /\ at' = [at EXCEPT ![c] = a]
        /\ got' = [got EXCEPT ![c] = g] /\ stored' = [stored EXCEPT ![c] = w]
        /\ step' = [step EXCEPT ![c] = t] /\ reply' = [reply EXCEPT ![c] = m]
    BY <1>2, <1>m, Zenon
  <2>3. t \in StepNames
    BY <1>m DEF StepNames
  <2> HIDE DEF r, a, g, m, w
  <2> QED BY <2>1, <2>2, <2>3, OneCall, Zenon
<1>p. ASSUME step[c] = "run", a <= Len(Steps(r)), NEW h, NEW v, w \subseteq v,
             Steps(r)[a] \in Writes => Steps(r)[a] \in v \cup {"tables"},
             Steps(r)[a] \in NodeCalls => h \in NodeResponse(r, Steps(r)[a]),
             Steps(r)[a] \notin NodeCalls => h = g,
             Proceed(c), UNCHANGED <<req, step, reply>>,
             got' = [got EXCEPT ![c] = h], stored' = [stored EXCEPT ![c] = v]
      PROVE  Calls'
  <2>1. CallFine(r, "run", a + 1, h, m, v)
    BY <1>1, <1>p, FineProceeds
  <2>2. at' = [at EXCEPT ![c] = a + 1]
    BY <1>p DEF Proceed
  <2>3. /\ req' = [req EXCEPT ![c] = r] /\ reply' = [reply EXCEPT ![c] = m]
        /\ step' = [step EXCEPT ![c] = "run"]
    BY <1>2, <1>p, Zenon
  <2> HIDE DEF r, a, g, m, w
  <2> QED BY <1>p, <1>n, <2>1, <2>2, <2>3, OneCall, Zenon
<1> DEFINE k == Steps(r)[a]
<1>3. CASE Handler(c)
  BY <1>3, <1>a, <1>m DEF Handler, Answer
<1>4. CASE NodeAnswers(c)
  <2>1. PICK h \in NodeResponse(r, k) : got' = [got EXCEPT ![c] = h]
    BY <1>4 DEF NodeAnswers, Current
  <2>2. /\ step[c] = "run" /\ a <= Len(Steps(r)) /\ k \in NodeCalls /\ k \notin Writes
        /\ Proceed(c) /\ UNCHANGED <<req, step, reply, stored>>
    BY <1>4, StepKinds DEF NodeAnswers, Is
  <2>3. stored' = [stored EXCEPT ![c] = w]
    BY <1>2, <2>2
  <2> QED BY <1>p, <2>1, <2>2, <2>3
<1>5. CASE NodeFails(c)
  <2>1. /\ step[c] = "run" /\ UNCHANGED <<req, at, got, reply, stored>>
        /\ \E t \in {"status", "hung"} : step' = [step EXCEPT ![c] = t]
    BY <1>5 DEF NodeFails, Is, AnswerStatus
  <2> QED BY <1>m, <2>1
<1>q. ASSUME Is(c, {"wallet", "vins"}), Proceed(c), UNCHANGED <<req, step, got, reply, stored>>
      PROVE  Calls'
  <2>1. /\ step[c] = "run" /\ a <= Len(Steps(r)) /\ k \notin NodeCalls /\ k \notin Writes
    BY <1>q, StepKinds DEF Is
  <2>2. got' = [got EXCEPT ![c] = g] /\ stored' = [stored EXCEPT ![c] = w]
    BY <1>2, <1>q
  <2> QED BY <1>p, <1>q, <2>1, <2>2
<1>6. CASE QueryHotWalletInfo(c) \/ QueryVinsByAddress(c)
  <2>1. /\ Is(c, {"wallet", "vins"}) /\ step[c] = "run" /\ UNCHANGED <<req, got, stored>>
        /\ \/ Proceed(c) /\ UNCHANGED <<step, reply>>
           \/ UNCHANGED <<at, reply>> /\ step' = [step EXCEPT ![c] = "status"]
    BY <1>6 DEF QueryHotWalletInfo, QueryVinsByAddress, QueryFails, AnswerStatus, Is
  <2> QED BY <1>m, <1>q, <2>1
<1>7. CASE HandlerPanics(c)
  BY <1>7, CallsCut DEF HandlerPanics
<1>8. CASE WriteRow(c)
  <2>1. /\ step[c] = "run" /\ a <= Len(Steps(r)) /\ k \in Writes /\ k \notin NodeCalls
        /\ stored' = [stored EXCEPT ![c] = w \cup {k}]
        /\ Proceed(c) /\ UNCHANGED <<req, step, got, reply>>
    BY <1>8, StepKinds DEF WriteRow, Is, Current
  <2>2. got' = [got EXCEPT ![c] = g]
    BY <1>2, <2>1
  <2>3. w \subseteq w \cup {k} /\ k \in w \cup {k}
    OBVIOUS
  <2> QED BY <1>p, <2>1, <2>2, <2>3
<1>9. CASE WriteFails(c)
  <2>1. /\ step[c] = "run" /\ a <= Len(Steps(r)) /\ k \in Writes /\ k \notin NodeCalls
        /\ UNCHANGED <<req, got, stored>>
        /\ \/ k = "tables" /\ Proceed(c) /\ UNCHANGED <<step, reply>>
           \/ Answer(c, Zero(r.method)) /\ UNCHANGED at
           \/ AnswerStatus(c) /\ UNCHANGED at
    BY <1>9, StepKinds DEF WriteFails, AfterWriteFails, Is, Current
  <2>2. CASE k = "tables" /\ Proceed(c) /\ UNCHANGED <<step, reply>>
    <3>1. got' = [got EXCEPT ![c] = g] /\ stored' = [stored EXCEPT ![c] = w]
      BY <1>2, <2>1
    <3> QED BY <1>p, <2>1, <2>2, <3>1
  <2>3. CASE Answer(c, Zero(r.method)) /\ UNCHANGED at
    BY <1>a, <2>1, <2>3 DEF Answer
  <2>4. CASE AnswerStatus(c) /\ UNCHANGED at
    BY <1>m, <2>1, <2>4 DEF AnswerStatus
  <2> QED BY <2>1, <2>2, <2>3, <2>4
<1>10. CASE Return(c)
  <2>1. /\ step[c] = "run" /\ a > Len(Steps(r)) /\ Answer(c, Done(c))
        /\ UNCHANGED <<req, at, got, stored>>
    BY <1>10 DEF Return
  <2>2. CallFine(r, "answered", a, g, Done(c), w)
    BY <1>1, <2>1, FineReturns
  <2>3. /\ req' = [req EXCEPT ![c] = r] /\ at' = [at EXCEPT ![c] = a]
        /\ got' = [got EXCEPT ![c] = g] /\ stored' = [stored EXCEPT ![c] = w]
        /\ step' = [step EXCEPT ![c] = "answered"] /\ reply' = [reply EXCEPT ![c] = Done(c)]
    BY <1>2, <2>1, Zenon DEF Answer
  <2> HIDE DEF r, a, g, m, w
  <2> QED BY <1>n, <2>2, <2>3, OneCall, Zenon
<1> QED BY <1>3, <1>4, <1>5, <1>6, <1>7, <1>8, <1>9, <1>10 DEF Handle

\* What it means for the answers: see SuccessIsStored.
LEMMA CallsSuccess == Calls => SuccessIsStored
<1> SUFFICES ASSUME Calls, NEW c \in Call
             PROVE  /\ (step[c] = "answered" /\ reply[c].code = "SUCCESS") =>
                         (ToSet(Steps(req[c])) \cap Writes) \ {"tables"} \subseteq stored[c]
                    /\ step[c] # "none" => {Steps(req[c])[i] : i \in 1..(at[c] - 1)} \cap Writes
                                             \subseteq stored[c] \cup {"tables"}
  BY DEF SuccessIsStored
<1>1. CallFine(req[c], step[c], at[c], got[c], reply[c], stored[c])
  BY DEF Calls
<1> QED BY <1>1 DEF CallFine

-----------------------------------------------------------------------------
(* The process. *)

\* The types of what is not about calls.
ProcTypes == /\ exit \in {"no", "success", "error", "panic"}
             /\ serving \in {"off", "listen", "on"}
             /\ faults \in 0..MaxFaults
             /\ mode \in Modes /\ cfg \in Config
             /\ main \in {"config", "db", "build", "start", "wait", "stop", "migrate", "out", "hung"}
             /\ attempts \in 0..MaxAttempts
             /\ listener \in {"none", "armed", "over"} /\ cancelled \in BOOLEAN /\ nil \in BOOLEAN
             /\ task \in [Task -> {"off", "run", "done", "failed", "panicked", "stuck"}]
             /\ closing \in 1..5
             /\ gaps \in Builds \cup {{}} /\ blocks \in BOOLEAN
             /\ applied \subseteq 1..Files /\ file \in 1..(Files + 1)
             /\ signals \in 0..MaxSignals /\ starts \in 1..MaxStarts

\* Where the main goroutine is, and what holds there.
Where == /\ exit = "no" => main # "out"
         /\ exit # "no" => main \in {"out", "wait", "stop"} /\ serving = "off"
         /\ serving # "off" => mode = "rpc" /\ main \in {"wait", "stop"}
         /\ main = "migrate" => mode = "migrate"
         /\ main \in {"build", "start", "wait", "stop"} => mode # "migrate"
         /\ main # "config" => cfg.syncInterval # 0 /\ cfg.workerInterval # 0
         /\ main = "config" => attempts = 0
         /\ main = "db" => attempts < MaxAttempts
         /\ 1..(file - 1) \subseteq applied
         /\ main \in {"config", "db", "build", "start", "migrate"} => \A w \in Task : task[w] = "off"
         /\ mode = "rpc" => \A w \in Task : task[w] = "off"

\* Stop has awaited the tasks before the one it is at.
Awaited == main = "stop" =>
  /\ closing <= Len(Order) + 1
  /\ \A i \in 1..(closing - 1) : task[Order[i]] \in {"done", "panicked"}

\* The inductive invariant.
LifecycleInv == Calls /\ ProcTypes /\ Where /\ Awaited /\ ExitIsClean /\ SetupPanicHasCause

LEMMA InvTypes == Calls /\ ProcTypes => TypeOK
<1> SUFFICES ASSUME Calls, ProcTypes PROVE TypeOK
  OBVIOUS
<1>1. DOMAIN at = Call /\ at = [c \in Call |-> at[c]] /\ DOMAIN stored = Call
  BY DEF Calls, IsTable
<1>2. ASSUME NEW c \in Call
      PROVE  /\ at[c] \in 1..6
             /\ step[c] # "none" => req[c] \in Asked
             /\ step[c] = "answered" => reply[c] \in ResponseType(req[c].method)
             /\ \/ got[c] = NoAnswer
                \/ \E k \in ToSet(Steps(req[c])) \cap NodeCalls : got[c] \in NodeResponse(req[c], k)
  <2>1. CallFine(req[c], step[c], at[c], got[c], reply[c], stored[c])
    BY DEF Calls
  <2> QED BY <2>1 DEF CallFine
<1>3. at \in [Call -> 1..6]
  BY <1>1, <1>2
<1>4. step \in [Call -> {"none", "sent", "run", "hung", "answered", "status", "cut"}]
  BY DEF Calls, StepNames
<1> QED BY <1>1, <1>2, <1>3, <1>4, Zenon DEF ProcTypes, TypeOK

\* The tasks that Stop waits for.
LEMMA OrderSeq ==
  ASSUME mode \in Modes
  PROVE  /\ Len(Order) \in 0..4 /\ DOMAIN Order = 1..Len(Order)
         /\ \A i \in 1..Len(Order) : Order[i] \in Task
         /\ mode \in {"rpc", "migrate"} => Len(Order) = 0
<1>1. CASE mode = "sync"
  BY <1>1 DEF Order, Task
<1>2. CASE mode = "notify"
  BY <1>2 DEF Order, Task
<1>3. CASE mode \in {"rpc", "migrate"}
  BY <1>3 DEF Order
<1> QED BY <1>1, <1>2, <1>3 DEF Modes

\* What a step of the rpc server does to the process.
LEMMA RpcEffect ==
  ASSUME RpcNext, faults \in 0..MaxFaults
  PROVE  /\ serving = "on" /\ faults' \in 0..MaxFaults
         /\ \/ UNCHANGED <<exit, serving>>
            \/ /\ exit' = "panic" /\ serving' = "off" /\ CutCalls
               /\ UNCHANGED <<req, at, got, reply, stored>>
<1>1. ASSUME NEW name, Fault(name) PROVE faults' \in 0..MaxFaults
  BY <1>1, RpcAssumption DEF Fault
<1>2. ASSUME NEW c \in Call, NEW r, Invoke(c, r) PROVE serving = "on" /\ UNCHANGED <<exit, serving, faults>>
  BY <1>2 DEF Invoke
<1>3. ASSUME NEW c \in Call, HandlerPanics(c)
      PROVE  /\ serving = "on" /\ faults' \in 0..MaxFaults
             /\ exit' = "panic" /\ serving' = "off" /\ CutCalls
             /\ UNCHANGED <<req, at, got, reply, stored>>
  BY <1>1, <1>3 DEF HandlerPanics, Dereferences, Is
<1>4. ASSUME NEW c \in Call, Handle(c), ~HandlerPanics(c)
      PROVE  /\ serving = "on" /\ faults' \in 0..MaxFaults
             /\ UNCHANGED <<exit, serving>>
  <2>1. CASE Handler(c) \/ WriteRow(c) \/ Return(c)
    BY <2>1 DEF Handler, WriteRow, Return, Is
  <2>2. CASE NodeAnswers(c) \/ NodeFails(c)
    BY <1>1, <2>2 DEF NodeAnswers, NodeFails, Is
  <2>3. CASE QueryHotWalletInfo(c) \/ QueryVinsByAddress(c) \/ WriteFails(c)
    BY <1>1, <2>3 DEF QueryHotWalletInfo, QueryVinsByAddress, QueryFails, WriteFails, Is
  <2> QED BY <1>4, <2>1, <2>2, <2>3 DEF Handle
<1> QED BY <1>2, <1>3, <1>4 DEF RpcNext

\* What LoadConfig leaves is a configuration with intervals other than 0.
LEMMA Loaded ==
  ASSUME NEW f \in Config
  PROVE  LET g == LoadConfig(f)
         IN  g \in Config /\ g.syncInterval # 0 /\ g.workerInterval # 0
<1> DEFINE c == Default(f.confirmations, defaulConfirmations)
           i == Default(f.syncInterval, defaultSynchronizerInterval)
           j == Default(f.workerInterval, defaultWorkerInterval)
           b == Default(f.blocksStep, defaultBlocksStep)
           g == [confirmations |-> c, syncInterval |-> i, workerInterval |-> j, blocksStep |-> b,
                 startingHeight |-> f.startingHeight]
<1>1. /\ f = [confirmations |-> f.confirmations, syncInterval |-> f.syncInterval,
              workerInterval |-> f.workerInterval, blocksStep |-> f.blocksStep,
              startingHeight |-> f.startingHeight]
      /\ f.confirmations \in Nat /\ f.syncInterval \in Int /\ f.workerInterval \in Int
      /\ f.blocksStep \in Nat /\ f.startingHeight \in Nat
  BY DEF Config
<1>2. c \in Nat /\ i \in Int /\ j \in Int /\ b \in Nat /\ i # 0 /\ j # 0
  BY <1>1 DEF Default, defaulConfirmations, defaultSynchronizerInterval, defaultWorkerInterval,
              defaultBlocksStep
<1>3. LoadConfig(f) = [f EXCEPT !.confirmations = c, !.syncInterval = i, !.workerInterval = j,
                                !.blocksStep = b]
  BY DEF LoadConfig
<1> HIDE DEF c, i, j, b
<1>4. LoadConfig(f) = g
  BY <1>1, <1>3
<1>5. g \in Config /\ g.syncInterval # 0 /\ g.workerInterval # 0
  BY <1>1, <1>2 DEF Config
<1> QED BY <1>4, <1>5

\* A fault of the process.
LEMMA ProcFaults ==
  ASSUME faults \in 0..MaxFaults, NEW name, ProcFault(name)
  PROVE  faults' \in 0..MaxFaults
BY RpcAssumption DEF ProcFault

\* When the process has ended, it is only started again.
LEMMA Ended ==
  ASSUME ProcTypes, Where, exit # "no", Next PROVE Restart
<1>1. main \in {"out", "wait", "stop"} /\ serving = "off"
  BY DEF Where
<1>2. ~Setup
  BY <1>1 DEF Setup, Configure, Connect, ConnectFails, Build, BuildFails, BuildHangs, StartAll, Listen, Migrate
<1>3. ~(Arm \/ Signal \/ BeginStop \/ Stop \/ StoreBlocks \/ LoopPanics)
  BY DEF Arm, Signal, BeginStop, Stop, StoreBlocks, LoopPanics, Runs
<1>4. ~\E w \in Task : TaskFails(w) \/ TaskPanics(w) \/ TaskSticks(w) \/ TaskEnds(w)
  BY DEF TaskFails, TaskPanics, TaskSticks, TaskEnds, Runs
<1>5. ~Serve
  BY <1>1, RpcEffect DEF Serve, ProcTypes
<1> QED BY <1>2, <1>3, <1>4, <1>5 DEF Next

\* The steps of the process keep its types.
LEMMA ProcTypesNext ==
  ASSUME ProcTypes, Where, Awaited, [Next]_vars PROVE ProcTypes'
<1>f. ASSUME NEW name, ProcFault(name) PROVE faults' \in 0..MaxFaults
  BY <1>f, ProcFaults DEF ProcTypes
<1>1. CASE Configure
  <2>1. cfg' \in Config
    BY <1>1, Loaded DEF Configure, ProcTypes
  <2> QED BY <1>1, <2>1 DEF Configure, ProcTypes, rpcVars, taskVars, migrateVars, syncVars
<1>2. CASE Connect
  BY <1>2 DEF Connect, AfterSetup, ProcTypes, rpcVars, taskVars, migrateVars, syncVars
<1>3. CASE ConnectFails
  <2>1. attempts' \in 0..MaxAttempts
    BY <1>3, LifecycleAssumption DEF ConnectFails, Where, ProcTypes
  <2>2. faults' \in 0..MaxFaults
    BY <1>3, <1>f DEF ConnectFails
  <2> QED BY <1>3, <2>1, <2>2 DEF ConnectFails, Leave, ProcTypes, taskVars, migrateVars, syncVars
<1>4. CASE Build
  <2>1. nil' \in BOOLEAN
    BY <1>4, Zenon DEF Build
  <2>2. faults' \in 0..MaxFaults
    BY <1>4, <1>f DEF Build, ProcTypes
  <2> QED BY <1>4, <2>1, <2>2 DEF Build, ProcTypes, migrateVars, syncVars
<1>5. CASE BuildFails
  <2>1. faults' \in 0..MaxFaults
    BY <1>5, <1>f DEF BuildFails, ProcTypes
  <2> QED BY <1>5, <2>1 DEF BuildFails, Leave, ProcTypes, taskVars, migrateVars, syncVars
<1>6. CASE StartAll
  BY <1>6 DEF StartAll, Leave, ProcTypes, migrateVars, syncVars
<1>7. CASE Listen
  <2>1. faults' \in 0..MaxFaults
    BY <1>7, <1>f DEF Listen, ProcTypes
  <2> QED BY <1>7, <2>1 DEF Listen, Leave, ProcTypes, taskVars, migrateVars, syncVars
<1>8. CASE Migrate
  <2>1. faults' \in 0..MaxFaults
    BY <1>8, <1>f DEF Migrate, ProcTypes
  <2>2. /\ applied' \subseteq 1..Files /\ file' \in 1..(Files + 1)
    <3>1. CASE UNCHANGED migrateVars
      BY <3>1 DEF migrateVars, ProcTypes
    <3>2. CASE file <= Files /\ applied' = applied \cup {file} /\ file' = file + 1
      <4>1. Files \in Nat /\ file \in 1..(Files + 1) /\ applied \subseteq 1..Files
        BY LifecycleAssumption DEF ProcTypes
      <4>2. file \in 1..Files /\ file' \in 1..(Files + 1)
        BY <3>2, <4>1
      <4> QED BY <3>2, <4>1, <4>2, Zenon
    <3> QED BY <1>8, <3>1, <3>2 DEF Migrate
  <2> QED BY <1>8, <2>1, <2>2 DEF Migrate, Leave, ProcTypes, taskVars, syncVars
<1>9. CASE Arm
  BY <1>9 DEF Arm, ProcTypes, rpcVars, taskVars, migrateVars, syncVars
<1>10. CASE Signal
  <2>1. cancelled' \in BOOLEAN
    BY <1>10, Zenon DEF Signal, ProcTypes
  <2>2. signals' \in 0..MaxSignals
    BY <1>10, LifecycleAssumption DEF Signal, ProcTypes
  <2> QED BY <1>10, <2>1, <2>2 DEF Signal, ProcTypes, rpcVars, taskVars, migrateVars, syncVars
<1>11. ASSUME NEW w \in Task, TaskFails(w) \/ TaskPanics(w) \/ TaskSticks(w) \/ TaskEnds(w)
       PROVE  ProcTypes'
  <2>1. cancelled' \in BOOLEAN
    BY <1>11, Zenon DEF TaskFails, TaskPanics, TaskSticks, TaskEnds, ProcTypes
  <2>2. faults' \in 0..MaxFaults
    BY <1>11, <1>f DEF TaskFails, TaskPanics, TaskSticks, TaskEnds, ProcTypes
  <2>3. task' \in [Task -> {"off", "run", "done", "failed", "panicked", "stuck"}]
    BY <1>11 DEF TaskFails, TaskPanics, TaskSticks, TaskEnds, ProcTypes
  <2>4. TaskFrame /\ UNCHANGED <<exit, main>>
    BY <1>11 DEF TaskFails, TaskPanics, TaskSticks, TaskEnds
  <2> QED BY <2>1, <2>2, <2>3, <2>4 DEF TaskFrame, ProcTypes, migrateVars, syncVars
<1>12. CASE LoopPanics
  <2>1. faults' \in 0..MaxFaults
    BY <1>12, <1>f DEF LoopPanics, ProcTypes
  <2> QED BY <1>12, <2>1 DEF LoopPanics, TaskFrame, ProcTypes, migrateVars, syncVars
<1>13. CASE BeginStop
  BY <1>13 DEF BeginStop, ProcTypes, rpcVars, migrateVars, syncVars
<1>14. CASE Stop
  <2>1. closing' \in 1..5
    <3>1. Len(Order) \in 0..4
      BY OrderSeq DEF ProcTypes
    <3> QED BY <1>14, <3>1 DEF Stop, Close, ProcTypes
  <2> QED BY <1>14, <2>1 DEF Stop, Close, Leave, ProcTypes, migrateVars, syncVars
<1>15. CASE Restart
  <2>1. cfg' \in Config
    BY <1>15, LifecycleAssumption DEF Restart
  <2>2. cancelled' \in BOOLEAN /\ nil' \in BOOLEAN
    BY <1>15, Zenon DEF Restart
  <2>3. starts' \in 1..MaxStarts /\ file' \in 1..(Files + 1) /\ attempts' \in 0..MaxAttempts
    BY <1>15, LifecycleAssumption DEF Restart, ProcTypes
  <2>4. task' \in [Task -> {"off", "run", "done", "failed", "panicked", "stuck"}]
    BY <1>15 DEF Restart
  <2> QED BY <1>15, <2>1, <2>2, <2>3, <2>4 DEF Restart, ProcTypes, syncVars
<1>16. CASE Serve
  BY <1>16, RpcEffect DEF Serve, ProcTypes, procVars, taskVars, migrateVars, syncVars
<1>17. CASE UNCHANGED vars
  BY <1>17 DEF vars, rpcVars, procVars, taskVars, migrateVars, syncVars, ProcTypes
<1>18. CASE BuildHangs
  <2>1. faults' \in 0..MaxFaults
    BY <1>18, <1>f DEF BuildHangs
  <2> QED BY <1>18, <2>1 DEF BuildHangs, ProcTypes, taskVars, migrateVars, syncVars
<1>19. CASE StoreBlocks
  <2>1. blocks' \in BOOLEAN
    BY <1>19, Zenon DEF StoreBlocks
  <2> QED BY <1>19, <2>1 DEF StoreBlocks, ProcTypes, rpcVars, taskVars, migrateVars
<1> QED BY <1>1, <1>2, <1>3, <1>4, <1>5, <1>6, <1>7, <1>8, <1>9, <1>10, <1>11, <1>12, <1>13,
           <1>14, <1>15, <1>16, <1>17, <1>18, <1>19 DEF Next, Setup

\* Where the main goroutine goes.
LEMMA WhereNext ==
  ASSUME ProcTypes, Where, [Next]_vars PROVE Where'
<1>t. /\ attempts \in Nat /\ faults \in Nat /\ MaxAttempts \in Nat \ {0} /\ mode \in Modes /\ cfg \in Config
      /\ MaxAttempts > 0
  BY LifecycleAssumption, RpcAssumption DEF ProcTypes
<1>1. CASE Configure
  <2>1. cfg'.syncInterval # 0 /\ cfg'.workerInterval # 0
    BY <1>1, <1>t, Loaded DEF Configure
  <2> QED BY <1>1, <1>t, <2>1 DEF Configure, Where, rpcVars, taskVars, migrateVars
<1>2. CASE Connect
  BY <1>2 DEF Connect, AfterSetup, Where, rpcVars, taskVars, migrateVars
<1>3. CASE ConnectFails
  <2>1. main' = "db" => attempts' < MaxAttempts
    BY <1>3, <1>t DEF ConnectFails, Leave, Where
  <2> QED BY <1>3, <2>1 DEF ConnectFails, Leave, Where, taskVars, migrateVars
<1>4. CASE Build \/ BuildHangs
  BY <1>4 DEF Build, BuildHangs, Where, taskVars, migrateVars
<1>5. CASE BuildFails
  BY <1>5 DEF BuildFails, Leave, Where, taskVars, migrateVars
<1>6. CASE StartAll
  <2>1. mode = "rpc" => \A w \in Task : task'[w] = "off"
    <3>1. mode = "rpc" => ToSet(Order) = {}
      BY DEF Order, ToSet
    <3> QED BY <1>6, <3>1 DEF StartAll, Where
  <2> QED BY <1>6, <2>1 DEF StartAll, Leave, Where, migrateVars
<1>7. CASE Listen
  BY <1>7 DEF Listen, Leave, Where, taskVars, migrateVars
<1>8. CASE Migrate
  <2>1. 1..(file' - 1) \subseteq applied'
    <3>1. CASE UNCHANGED migrateVars
      BY <3>1 DEF migrateVars, Where
    <3>2. CASE applied' = applied \cup {file} /\ file' = file + 1
      BY <3>2 DEF ProcTypes, Where
    <3> QED BY <1>8, <3>1, <3>2 DEF Migrate
  <2> QED BY <1>8, <2>1 DEF Migrate, Leave, Where, taskVars
<1>9. CASE Arm \/ Signal \/ StoreBlocks
  BY <1>9 DEF Arm, Signal, StoreBlocks, Where, rpcVars, taskVars, migrateVars
<1>10. ASSUME NEW w \in Task, TaskFails(w) \/ TaskPanics(w) \/ TaskSticks(w) \/ TaskEnds(w)
       PROVE  Where'
  <2>1. task[w] = "run"
    BY <1>10 DEF TaskFails, TaskPanics, TaskSticks, TaskEnds, Runs
  <2>2. main \notin {"config", "db", "build", "start", "migrate"} /\ mode # "rpc"
    BY <2>1 DEF Where
  <2>3. UNCHANGED <<exit, main, serving, mode, cfg, attempts, nil, applied, file>>
    BY <1>10 DEF TaskFails, TaskPanics, TaskSticks, TaskEnds, TaskFrame, migrateVars
  <2> QED BY <2>2, <2>3 DEF Where
<1>11. CASE LoopPanics
  <2>1. task["producer"] = "run" /\ "producer" \in Task
    BY <1>11 DEF LoopPanics, Runs, Task
  <2>2. mode # "rpc" /\ main # "config" /\ exit = "no"
    BY <1>11, <2>1 DEF Where, LoopPanics, Runs
  <2> QED BY <1>11, <2>2 DEF LoopPanics, TaskFrame, Where, migrateVars
<1>12. CASE BeginStop
  BY <1>12 DEF BeginStop, Where, rpcVars, migrateVars
<1>13. CASE Stop
  BY <1>13 DEF Stop, Close, Leave, Where, migrateVars
<1>14. CASE Restart
  <2>1. 1..(file' - 1) = {}
    BY <1>14 DEF Restart
  <2> QED BY <1>14, <2>1 DEF Restart, Where, callVars
<1>15. CASE Serve
  <2>1. RpcNext /\ faults \in 0..MaxFaults
    BY <1>15 DEF Serve, ProcTypes
  <2>2. /\ serving = "on"
        /\ \/ UNCHANGED <<exit, serving>>
           \/ exit' = "panic" /\ serving' = "off"
    BY <2>1, RpcEffect
  <2>3. UNCHANGED <<mode, main, cfg, attempts, task, applied, file>>
    BY <1>15 DEF Serve, procVars, taskVars, migrateVars
  <2>4. main \in {"wait", "stop"}
    BY <2>2 DEF Where
  <2> QED BY <2>2, <2>3, <2>4 DEF Where
<1>16. CASE UNCHANGED vars
  BY <1>16 DEF vars, rpcVars, procVars, taskVars, migrateVars, Where
<1> QED BY <1>1, <1>2, <1>3, <1>4, <1>5, <1>6, <1>7, <1>8, <1>9, <1>10, <1>11, <1>12, <1>13,
           <1>14, <1>15, <1>16 DEF Next, Setup

\* What has ended stays so while Stop goes on.
LEMMA AwaitedNext ==
  ASSUME ProcTypes, Where, Awaited, [Next]_vars PROVE Awaited'
<1>o. /\ Len(Order) \in 0..4 /\ DOMAIN Order = 1..Len(Order)
      /\ \A i \in 1..Len(Order) : Order[i] \in Task
  BY OrderSeq DEF ProcTypes
<1>m. mode' = mode => Order' = Order
  BY DEF Order
<1>s. ASSUME UNCHANGED <<mode, main, closing, task>> PROVE Awaited'
  BY <1>s, <1>m DEF Awaited
<1>1. CASE Setup
  <2>1. main # "stop" => main' # "stop"
    BY <1>1 DEF Setup, Configure, Connect, ConnectFails, Build, BuildFails, BuildHangs, StartAll, Listen, Migrate,
                Leave, AfterSetup
  <2>2. CASE Listen
    <3>1. main' = "out" \/ UNCHANGED <<mode, main, closing, task>>
      BY <2>2 DEF Listen, Leave, taskVars
    <3> QED BY <3>1, <1>s DEF Awaited
  <2>3. CASE ~Listen
    <3>1. main # "stop"
      BY <1>1, <2>3 DEF Setup, Configure, Connect, ConnectFails, Build, BuildFails, BuildHangs, StartAll, Migrate
    <3> QED BY <2>1, <3>1 DEF Awaited
  <2> QED BY <2>2, <2>3
<1>2. CASE Arm \/ Signal \/ StoreBlocks
  BY <1>2, <1>s DEF Arm, Signal, StoreBlocks, taskVars
<1>3. ASSUME NEW w \in Task, TaskFails(w) \/ TaskPanics(w) \/ TaskSticks(w) \/ TaskEnds(w)
      PROVE  Awaited'
  <2>1. /\ task[w] = "run" /\ UNCHANGED <<mode, main, closing>>
        /\ \E x : task' = [task EXCEPT ![w] = x]
    BY <1>3 DEF TaskFails, TaskPanics, TaskSticks, TaskEnds, TaskFrame, Runs
  <2>2. ASSUME main = "stop", NEW i \in 1..(closing - 1)
        PROVE  task'[Order[i]] = task[Order[i]]
    <3>1. i \in 1..Len(Order) /\ task[Order[i]] \in {"done", "panicked"}
      BY <1>o, <2>2 DEF Awaited, ProcTypes
    <3> QED BY <1>o, <2>1, <3>1 DEF ProcTypes
  <2> QED BY <1>m, <2>1, <2>2 DEF Awaited
<1>4. CASE LoopPanics \/ Restart
  BY <1>4 DEF LoopPanics, Restart, Awaited
<1>5. CASE BeginStop
  <2>1. closing' = 1 /\ mode' = mode
    BY <1>5 DEF BeginStop
  <2> QED BY <1>o, <1>m, <2>1 DEF Awaited
<1>6. CASE Stop
  <2>1. CASE main' = "out"
    BY <2>1 DEF Awaited
  <2>2. CASE main' # "out"
    <3>1. /\ main = "stop" /\ closing <= Len(Order) /\ closing' = closing + 1
          /\ task[Order[closing]] \in {"done", "panicked"} /\ UNCHANGED <<mode, task>>
      BY <1>6, <2>2 DEF Stop, Close, Leave
    <3>2. /\ closing \in 1..5
          /\ \A i \in 1..(closing - 1) : task[Order[i]] \in {"done", "panicked"}
      BY <3>1 DEF Awaited, ProcTypes
    <3>3. ASSUME NEW i \in 1..(closing' - 1) PROVE task[Order[i]] \in {"done", "panicked"}
      <4>1. i = closing \/ i \in 1..(closing - 1)
        BY <3>1, <3>2
      <4> QED BY <3>1, <3>2, <4>1
    <3>4. closing' <= Len(Order) + 1
      BY <1>o, <3>1, <3>2
    <3> QED BY <1>m, <3>1, <3>3, <3>4 DEF Awaited
  <2> QED BY <2>1, <2>2
<1>7. CASE Serve \/ UNCHANGED vars
  BY <1>7, <1>s DEF Serve, vars, procVars, taskVars
<1> QED BY <1>1, <1>2, <1>3, <1>4, <1>5, <1>6, <1>7 DEF Next

\* How the process ends: the steps that do not end it leave the rest as it was.
LEMMA ExitNext ==
  ASSUME ProcTypes, Where, Awaited, ExitIsClean, [Next]_vars PROVE ExitIsClean'
<1>o. /\ Len(Order) \in 0..4 /\ DOMAIN Order = 1..Len(Order)
      /\ \A i \in 1..Len(Order) : Order[i] \in Task
      /\ ToSet(Order) = {Order[i] : i \in 1..Len(Order)}
      /\ mode = "migrate" => Len(Order) = 0
  BY OrderSeq DEF ProcTypes, ToSet
<1>m. mode' = mode => Order' = Order
  BY DEF Order
<1>s. ASSUME UNCHANGED <<mode, exit, task, applied>> PROVE ExitIsClean'
  BY <1>s, <1>m DEF ExitIsClean
<1>q. ASSUME exit' \in {"no", "panic"} PROVE ExitIsClean'
  BY <1>q DEF ExitIsClean
\* An error before anything has been started.
<1>e. ASSUME exit' = "error", UNCHANGED <<mode, task>>, \A w \in Task : task[w] = "off"
      PROVE  ExitIsClean'
  BY <1>e, <1>m, <1>o DEF ExitIsClean
<1>1. CASE UNCHANGED vars
  BY <1>1, <1>s DEF vars, rpcVars, procVars, taskVars, migrateVars
<1>2. CASE Next /\ exit # "no"
  <2>1. Restart
    BY <1>2, Ended
  <2> QED BY <2>1, <1>q DEF Restart
<1>3. CASE Next /\ exit = "no"
  <2>1. CASE Setup
    <3>1. CASE ConnectFails \/ BuildFails
      <4>1. /\ exit' \in {"no", "panic", "error"} /\ UNCHANGED <<mode, task>>
            /\ \A w \in Task : task[w] = "off"
        BY <1>3, <3>1 DEF ConnectFails, BuildFails, Leave, taskVars, Where
      <4> QED BY <4>1, <1>q, <1>e
    <3>2. CASE Migrate
      <4>1. /\ exit' \in {"no", "error", "success"} /\ UNCHANGED <<mode, task>>
            /\ mode = "migrate" /\ \A w \in Task : task[w] = "off"
        BY <1>3, <3>2 DEF Migrate, Leave, taskVars, Where
      <4>2. CASE exit' = "success"
        <5>1. file > Files /\ applied' = applied
          BY <1>3, <3>2, <4>2 DEF Migrate, Leave, migrateVars
        <5>2. applied = 1..Files
          <6>1. /\ Files \in Nat /\ file \in 1..(Files + 1) /\ applied \subseteq 1..Files
                /\ 1..(file - 1) \subseteq applied
            BY LifecycleAssumption DEF Where, ProcTypes
          <6>2. file - 1 = Files
            BY <5>1, <6>1
          <6> QED BY <6>1, <6>2, Zenon
        <5>3. ToSet(Order') = {}
          BY <1>m, <1>o, <4>1
        <5> QED BY <4>1, <4>2, <5>1, <5>2, <5>3 DEF ExitIsClean
      <4> QED BY <4>1, <4>2, <1>q, <1>e
    <3>3. CASE Configure \/ Connect \/ Build \/ BuildHangs \/ StartAll \/ Listen
      <4>1. exit' \in {"no", "panic"}
        BY <1>3, <3>3 DEF Configure, Connect, Build, BuildHangs, StartAll, Listen, Leave, rpcVars
      <4> QED BY <4>1, <1>q
    <3> QED BY <2>1, <3>1, <3>2, <3>3 DEF Setup
  <2>2. CASE Arm \/ Signal \/ StoreBlocks \/ LoopPanics \/ BeginStop \/ Restart
    <3>1. exit' \in {"no", "panic"}
      BY <1>3, <2>2 DEF Arm, Signal, StoreBlocks, LoopPanics, BeginStop, Restart, rpcVars
    <3> QED BY <3>1, <1>q
  <2>3. ASSUME NEW w \in Task, TaskFails(w) \/ TaskPanics(w) \/ TaskSticks(w) \/ TaskEnds(w)
        PROVE  ExitIsClean'
    <3>1. exit' = "no"
      BY <1>3, <2>3 DEF TaskFails, TaskPanics, TaskSticks, TaskEnds
    <3> QED BY <3>1, <1>q
  <2>4. CASE Serve
    <3>1. RpcNext /\ faults \in 0..MaxFaults
      BY <2>4 DEF Serve, ProcTypes
    <3>2. exit' \in {"no", "panic"}
      BY <1>3, <3>1, RpcEffect
    <3> QED BY <3>2, <1>q
  <2>5. CASE Stop
    <3>1. /\ main = "stop" /\ UNCHANGED <<mode, task>> /\ closing \in 1..5
          /\ closing <= Len(Order) + 1
          /\ \A i \in 1..(closing - 1) : task[Order[i]] \in {"done", "panicked"}
      BY <2>5 DEF Stop, Awaited, ProcTypes
    <3>2. CASE exit' = "no"
      BY <3>2, <1>q
    <3>3. CASE closing > Len(Order) /\ exit' = "success"
      <4>1. \A w \in ToSet(Order) : task[w] \in {"done", "panicked"}
        BY <1>o, <3>1, <3>3
      <4>2. mode # "migrate"
        BY <3>1 DEF Where
      <4> QED BY <1>m, <3>1, <3>3, <4>1, <4>2 DEF ExitIsClean
    <3>4. CASE closing <= Len(Order) /\ task[Order[closing]] = "failed" /\ exit' = "error"
      <4>1. ASSUME NEW j \in DOMAIN Order, task[Order[j]] \in {"run", "stuck"}
            PROVE  \E i \in 1..(j - 1) : task[Order[i]] = "failed"
        <5>1. j \in 1..Len(Order) /\ j # closing /\ j \notin 1..(closing - 1)
          BY <1>o, <3>1, <3>4, <4>1
        <5>2. closing \in 1..(j - 1)
          BY <1>o, <3>1, <5>1
        <5> QED BY <3>4, <5>2
      <4> QED BY <1>m, <3>1, <3>4, <4>1 DEF ExitIsClean
    <3> QED BY <1>3, <2>5, <3>2, <3>3, <3>4 DEF Stop, Close, Leave
  <2> QED BY <1>3, <2>1, <2>2, <2>3, <2>4, <2>5 DEF Next
<1> QED BY <1>1, <1>2, <1>3

\* A panic in the set-up has a cause.
LEMMA PanicNext ==
  ASSUME ProcTypes, Where, SetupPanicHasCause, [Next]_vars PROVE SetupPanicHasCause'
<1>t. cfg.syncInterval \in Int /\ cfg.workerInterval \in Int
  BY DEF ProcTypes, Config
<1>q. ASSUME exit' # "panic" PROVE SetupPanicHasCause'
  BY <1>q DEF SetupPanicHasCause
<1>r. ASSUME mode' # "sync" PROVE SetupPanicHasCause'
  BY <1>r DEF SetupPanicHasCause
<1>1. CASE UNCHANGED vars
  BY <1>1 DEF vars, rpcVars, procVars, taskVars, syncVars, SetupPanicHasCause
<1>2. CASE Next /\ exit # "no"
  <2>1. Restart
    BY <1>2, Ended
  <2> QED BY <2>1, <1>q DEF Restart
<1>3. CASE Next /\ exit = "no"
  <2>1. CASE Configure \/ Connect \/ ConnectFails \/ Build \/ BuildHangs \/ Migrate
    <3>1. exit' # "panic"
      BY <1>3, <2>1 DEF Configure, Connect, ConnectFails, Build, BuildHangs, Migrate, Leave, rpcVars
    <3> QED BY <3>1, <1>q
  <2>2. CASE Arm \/ Signal \/ StoreBlocks \/ BeginStop \/ Restart
    <3>1. exit' # "panic"
      BY <1>3, <2>2 DEF Arm, Signal, StoreBlocks, BeginStop, Restart, rpcVars
    <3> QED BY <3>1, <1>q
  \* Set up with intervals other than 0: see Where.
  <2>3. CASE BuildFails
    <3>1. UNCHANGED <<cfg, nil, gaps, blocks>>
      BY <2>3 DEF BuildFails, taskVars, syncVars
    <3>2. CASE TickerPanics
      <4>1. cfg.workerInterval < 0
        BY <1>t, <2>3, <3>2 DEF BuildFails, TickerPanics, Where
      <4> QED BY <3>1, <4>1 DEF SetupPanicHasCause
    <3>3. CASE LatestPanics
      BY <3>1, <3>3 DEF LatestPanics, AsksNode, SetupPanicHasCause
    <3>4. CASE ~TickerPanics /\ ~LatestPanics
      BY <1>q, <2>3, <3>4 DEF BuildFails, Leave
    <3> QED BY <3>2, <3>3, <3>4
  <2>4. CASE StartAll
    <3>1. CASE StartPanics
      <4>1. cfg' = cfg /\ nil' = nil /\ (nil \/ cfg.syncInterval < 0)
        BY <1>t, <2>4, <3>1 DEF StartAll, StartPanics, Where
      <4> QED BY <4>1 DEF SetupPanicHasCause
    <3>2. CASE ~StartPanics
      BY <1>3, <1>q, <2>4, <3>2 DEF StartAll
    <3> QED BY <3>1, <3>2
  <2>5. CASE Listen
    <3>1. mode = "rpc" /\ mode' = mode
      BY <2>5 DEF Listen, Where
    <3> QED BY <3>1, <1>r
  <2>6. ASSUME NEW w \in Task, TaskFails(w) \/ TaskPanics(w) \/ TaskSticks(w) \/ TaskEnds(w)
        PROVE  SetupPanicHasCause'
    <3>1. exit' = "no"
      BY <1>3, <2>6 DEF TaskFails, TaskPanics, TaskSticks, TaskEnds
    <3> QED BY <3>1, <1>q
  <2>7. CASE LoopPanics
    <3>1. task' = task /\ task["producer"] # "off" /\ "producer" \in Task
      BY <2>7 DEF LoopPanics, Runs, Task
    <3> QED BY <3>1 DEF SetupPanicHasCause
  <2>8. CASE Stop
    BY <1>3, <1>q, <2>8 DEF Stop, Close, Leave
  <2>9. CASE Serve
    <3>1. RpcNext /\ faults \in 0..MaxFaults /\ mode' = mode
      BY <2>9 DEF Serve, ProcTypes, procVars
    <3>2. mode = "rpc"
      BY <3>1, RpcEffect DEF Where
    <3> QED BY <3>1, <3>2, <1>r
  <2> QED BY <1>3, <2>1, <2>2, <2>3, <2>4, <2>5, <2>6, <2>7, <2>8, <2>9 DEF Next, Setup
<1> QED BY <1>1, <1>2, <1>3

\* The steps of the process and those of the handlers keep the calls as they
\* should be.
LEMMA CallsNext == ASSUME Calls, [Next]_vars PROVE Calls'
<1>l. ASSUME NEW code, Leave(code), UNCHANGED <<req, at, got, reply, stored>> PROVE Calls'
  BY <1>l, CallsCut DEF Leave
<1>u. ASSUME UNCHANGED <<req, step, at, got, reply, stored>> PROVE Calls'
  BY <1>u, CallsUnchanged DEF callVars
<1>1. CASE \/ Configure \/ Connect \/ Build \/ BuildHangs \/ Arm \/ Signal \/ StoreBlocks
           \/ BeginStop \/ Restart \/ UNCHANGED vars
  BY <1>1, <1>u DEF Configure, Connect, Build, BuildHangs, Arm, Signal, StoreBlocks, BeginStop,
                    Restart, vars, rpcVars, callVars
<1>2. CASE ConnectFails
  BY <1>2, <1>l, <1>u DEF ConnectFails
<1>3. CASE BuildFails
  BY <1>3, <1>l DEF BuildFails
<1>4. CASE StartAll
  BY <1>4, <1>l, <1>u DEF StartAll
<1>5. CASE Listen
  BY <1>5, <1>l, <1>u DEF Listen
<1>6. CASE Migrate
  BY <1>6, <1>l, <1>u DEF Migrate
<1>7. ASSUME NEW w \in Task, TaskFails(w) \/ TaskPanics(w) \/ TaskSticks(w) \/ TaskEnds(w)
      PROVE  Calls'
  BY <1>7, <1>u DEF TaskFails, TaskPanics, TaskSticks, TaskEnds, TaskFrame, callVars
<1>8. CASE LoopPanics
  BY <1>8, <1>u DEF LoopPanics, TaskFrame, callVars
<1>9. CASE Stop
  BY <1>9, <1>l, <1>u DEF Stop, Close
<1>10. CASE Serve
  BY <1>10, CallsInvoke, CallsHandle DEF Serve, RpcNext
<1> QED BY <1>1, <1>2, <1>3, <1>4, <1>5, <1>6, <1>7, <1>8, <1>9, <1>10 DEF Next, Setup

\* Before the first request, and before anything has been set up.
LEMMA LifecycleStart == Init => LifecycleInv
<1> SUFFICES ASSUME Init PROVE LifecycleInv
  OBVIOUS
<1>1. Calls
  <2>1. IsTable(req) /\ IsTable(at) /\ IsTable(got) /\ IsTable(reply) /\ IsTable(stored)
    BY DEF Init, RpcInit, IsTable
  <2>2. step \in [Call -> StepNames]
    BY DEF Init, RpcInit, StepNames
  <2>3. ASSUME NEW c \in Call
        PROVE  CallFine(req[c], step[c], at[c], got[c], reply[c], stored[c])
    <3>1. step[c] = "none" /\ at[c] = 1 /\ got[c] = NoAnswer
      BY DEF Init, RpcInit
    <3> QED BY <3>1 DEF CallFine
  <2> QED BY <2>1, <2>2, <2>3 DEF Calls
<1>2. ProcTypes
  <2>1. mode \in Modes /\ cfg \in Config
    BY LifecycleAssumption DEF Init
  <2>2. cancelled \in BOOLEAN /\ nil \in BOOLEAN /\ gaps \in Builds \cup {{}} /\ blocks \in BOOLEAN
    BY Zenon DEF Init
  <2>3. /\ attempts \in 0..MaxAttempts /\ faults \in 0..MaxFaults /\ file \in 1..(Files + 1)
        /\ signals \in 0..MaxSignals /\ starts \in 1..MaxStarts /\ closing \in 1..5
    BY LifecycleAssumption, RpcAssumption DEF Init, RpcInit
  <2>4. task \in [Task -> {"off", "run", "done", "failed", "panicked", "stuck"}]
    BY DEF Init
  <2> QED BY <2>1, <2>2, <2>3, <2>4 DEF Init, RpcInit, ProcTypes
<1>3. Where
  BY DEF Init, RpcInit, Where
<1>4. Awaited /\ ExitIsClean /\ SetupPanicHasCause
  BY DEF Init, RpcInit, Awaited, ExitIsClean, SetupPanicHasCause
<1> QED BY <1>1, <1>2, <1>3, <1>4 DEF LifecycleInv

\* The inductive invariant holds throughout.
LEMMA LifecycleInvHolds == Spec => []LifecycleInv
<1>1. LifecycleInv /\ [Next]_vars => LifecycleInv'
  BY CallsNext, ProcTypesNext, WhereNext, AwaitedNext, ExitNext, PanicNext DEF LifecycleInv
<1> QED BY <1>1, LifecycleStart, PTL DEF Spec

-----------------------------------------------------------------------------
(* The theorems. *)

\* Every variable keeps its type, and the answer of a call is a message of its
\* method (src/services/handle.go), for every set of requests.
THEOREM LifecycleTypes == Spec => []TypeOK
<1>1. LifecycleInv => TypeOK
  BY InvTypes DEF LifecycleInv
<1> QED BY <1>1, LifecycleInvHolds, PTL

\* A process exits with success only when every task of MultiChainSync.Stop has
\* ended without an error and every migration is executed, and with an error cuts
\* a task off only behind one that returned an error: whatever the signals, the
\* faults and the restarts.
THEOREM ExitsAreClean == Spec => []ExitIsClean
<1>1. LifecycleInv => ExitIsClean
  BY DEF LifecycleInv
<1> QED BY <1>1, LifecycleInvHolds, PTL

\* Set-up of sync panics only for a negative interval, a scanner that NewDeposit
\* failed to make, or the latest header asked for by a build that cannot, which
\* needs an empty table of blocks and no starting height: an interval that is left
\* out or 0 never makes it panic, for LoadConfig fills it in
\* (src/config/config.go, src/worker/deposit.go).
THEOREM SetupPanicsHaveACause == Spec => []SetupPanicHasCause
<1>1. LifecycleInv => SetupPanicHasCause
  BY DEF LifecycleInv
<1> QED BY <1>1, LifecycleInvHolds, PTL

\* A request answered with SUCCESS has all its rows but perhaps the tables of a
\* business, and a later row never without the earlier ones: for any number of
\* calls at once, of failing ones and of restarts (src/services/handle.go).
THEOREM SuccessesAreStored == Spec => []SuccessIsStored
<1>1. LifecycleInv => SuccessIsStored
  BY CallsSuccess DEF LifecycleInv
<1> QED BY <1>1, LifecycleInvHolds, PTL
=============================================================================
