------------------------------ MODULE WebPages ------------------------------
(***************************************************************************)
(* The configuration web server of 07switch (user_webserver.c): the parts  *)
(* of its requests, what they configure, and the pages of a scan.  The     *)
(* three share no variable of the code but run in the one server.          *)
(***************************************************************************)
EXTENDS WebRequest, WebConfig, WebScan

(* All three at once.                                                      *)
WebKept == RequestsKept /\ ConfigKept /\ ScanKept
=============================================================================
