------------------------------ MODULE MCN8nRun ------------------------------
EXTENDS N8nRun, TLC

CONSTANTS hook, hook2, w1, w2

Hook(path, id) == [type |-> "webhook", path |-> path, webhookId |-> id]
Plain == [type |-> "other", path |-> NoParams, webhookId |-> NoPath]
Untyped == [type |-> "untyped", path |-> NoParams, webhookId |-> NoPath]

WaitsForLastNode == [nodes |-> <<Plain, Hook(hook, NoPath)>>, mode |-> "lastNode"]
AnswersAtOnce == [nodes |-> <<Hook(NoPath, NoPath), Hook(NoPath, hook2)>>, mode |-> "onReceived"]
Unreadable == [nodes |-> <<Untyped, Hook(hook2, NoPath)>>, mode |-> "lastNode"]
MCDefinitions == {WaitsForLastNode, AnswersAtOnce, Unreadable}
MCBeginnings == {(w1 :> WaitsForLastNode @@ w2 :> d) : d \in {AnswersAtOnce, Unreadable}}
=============================================================================
