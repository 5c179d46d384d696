-------------------------- MODULE MCWorkerThreads --------------------------
(* Instances of WorkerThreads: the calls that are made.                     *)
EXTENDS WorkerThreads

OneRestart == <<"http">>
TwoRestarts == <<"http", "http">>
RestartsAndShutdown == <<"http", "http", "shutdown">>
RestartAllAndShutdown == <<"all", "shutdown">>
RestartHttpAndAll == <<"http", "all">>
=============================================================================
