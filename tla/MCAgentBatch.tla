----------------------------- MODULE MCAgentBatch -----------------------------
(* AgentBatch on three pipelines. In the first both nodes stop for a steward, and
   the ledger knows the gate by another kind than its step. *)
EXTENDS AgentBatch

WritePipeline == <<"gate", "contract_write">>
ScanPipeline == <<"profile_scan", "classify">>
PublishPipeline == <<"profile_scan", "publish">>
===============================================================================
