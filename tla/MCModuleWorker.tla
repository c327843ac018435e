------------------------------ MODULE MCModuleWorker ------------------------------
(* Constants of ModuleWorker for TLC. *)
EXTENDS ModuleWorker

MCCallers == {"caller"}
MCStages == {"close"}
MCKinds == {"sync", "async", "replace"}
==================================================================================
