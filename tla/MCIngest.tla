------------------------------ MODULE MCIngest ------------------------------
(* Constants for checking Ingest.                                          *)
EXTENDS Ingest

\* One step of the workflow has a label; a dispatch into another has none.
MCStepLabels == {"review"}

=============================================================================
