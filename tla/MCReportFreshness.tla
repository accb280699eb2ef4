-------------------------- MODULE MCReportFreshness ---------------------------
(***************************************************************************)
(* Sources of every kind: a required one, one that gra-issues itself        *)
(* rewrites, one that most reports read and a collection.                   *)
(***************************************************************************)
EXTENDS ReportFreshness

MCSources == {"findings", "issue_ledger", "patch_validations"}
MCOriginal == {"findings"}
===============================================================================
