---------------------------- MODULE MCCheckpoint ----------------------------
(* Small instances of Checkpoint: the configurations of each run.           *)
EXTENDS Checkpoint

\* Every configuration: which of the four facts hold decides what the senders do.
MCConfigs == Config

\* What config.LoadAndValidate lets through with checkpointing configured.
MCDeployed ==
    {c \in Config : c.interval /\ c.target /\ c.encoding = "rawurl" /\ c.recognised}
=============================================================================
