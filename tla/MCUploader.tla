----------------------------- MODULE MCUploader ------------------------------
(* Instances of Uploader; the configuration gives the reports.             *)
EXTENDS Uploader
=============================================================================
