-------------------------- MODULE MCBackupRestore --------------------------
(* The instance of BackupRestore for TLC: one command of each verb.         *)
EXTENDS BackupRestore, TLC

CONSTANTS create, update, ingest

MCVerb == create :> "create_entity" @@ update :> "update_entity" @@ ingest :> "ingest_artifact"
=============================================================================
