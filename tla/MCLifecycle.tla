---------------------------- MODULE MCLifecycle ----------------------------
(* Every command without flags, and sync with an interval of 0 or below, one *)
(* with a starting height; a build that lacks nothing, one that cannot ask  *)
(* for the latest header, one that lacks the rest, and that of this commit;  *)
(* requests for a business with a hot wallet and for one that registers.     *)
EXTENDS Lifecycle

NoFlags == [f \in {} |-> 0]
MCCommand == {<<m, NoFlags>> : m \in Modes}
               \cup {<<"sync", [syncInterval |-> i, workerInterval |-> j, startingHeight |-> h]>> :
                       <<i, j, h>> \in {<<0, 0, 7>>, <<-1, 0, 0>>, <<5, -1, 0>>}}
MCBuilds == {{}, {"latest"}, {"tx", "insert", "time"}, {"latest", "tx", "insert", "time"}}

MCAsked == {[method |-> "register", id |-> "", url |-> TRUE],
            [method |-> "register", id |-> "new", url |-> TRUE],
            [method |-> "export", id |-> "new", keys |-> {"hot"}],
            [method |-> "export", id |-> "new", keys |-> {}],
            [method |-> "unsign", id |-> "new", token |-> TRUE],
            [method |-> "unsign", id |-> "old", token |-> TRUE],
            [method |-> "sign", id |-> "old", token |-> TRUE, uuid |-> 1],
            [method |-> "sign", id |-> "new", token |-> TRUE, uuid |-> NoCall],
            [method |-> "submit", id |-> "old", token |-> TRUE],
            [method |-> "submit", id |-> "old", token |-> FALSE]}
=============================================================================
