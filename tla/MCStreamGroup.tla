--------------------------- MODULE MCStreamGroup ---------------------------
(* Small instances of StreamGroup. *)
EXTENDS StreamGroup

PythonWorkers      == [claims |-> TRUE,  acksErrors |-> FALSE, batch |-> 2]
Renderer           == [claims |-> FALSE, acksErrors |-> FALSE, batch |-> 2]
CompletionConsumer == [claims |-> FALSE, acksErrors |-> TRUE,  batch |-> 2]

AllPrograms == {PythonWorkers, Renderer, CompletionConsumer}
OnlyRenderer == {Renderer}
OnlyCompletionConsumer == {CompletionConsumer}
=============================================================================
