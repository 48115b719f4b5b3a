------------------------------- MODULE MCSftp -------------------------------
(***************************************************************************)
(* The SFTP pipeline with write tasks that reach the connection in any     *)
(* order, as tasks of a JoinSet on several worker threads do.              *)
(***************************************************************************)
EXTENDS SftpPipeline
=============================================================================
