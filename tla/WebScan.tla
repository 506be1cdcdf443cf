------------------------------- MODULE WebScan -------------------------------
(***************************************************************************)
(* Scanning for access points through 07switch's web server and reading    *)
(* the result page by page (json_scan_cb, scan_get, json_send and the scan *)
(* requests of webserver_recv in src/apps/07switch/user/user_webserver.c). *)
(*                                                                         *)
(* One block serves all connections.  Reading a page takes its entries off *)
(* the list and frees them.                                                *)
(***************************************************************************)
EXTENDS Integers

CONSTANTS
  PAGE,         \* entries on a page, 8
  MaxFound      \* bound: access points found

ASSUME ScanAssumption == PAGE \in Nat \ {0} /\ MaxFound \in Nat

VARIABLES
  pscaninfo,    \* null, or the block
  scannum,      \* the SDK's count of access points found
  scanning,     \* a scan is under way: json_scan_cb will be called
  hurried,      \* history: a page was asked for between a scan and its result
  scan_halted   \* a null pointer was followed

scanVars == <<pscaninfo, scannum, scanning, hurried, scan_halted>>

\* pbss is the number of entries left in the list, -1 for no list.
NoInfo == [pbss |-> -1, pagenum |-> 0, page_sn |-> 0, data_cnt |-> 0, totalpage |-> 0,
           null |-> TRUE]
Pages(n) == (n + PAGE - 1) \div PAGE

ScanTypeOK ==
  /\ pscaninfo \in [pbss : -1..MaxFound, pagenum : 0..(Pages(MaxFound) + 1),
                    page_sn : 0..Pages(MaxFound), data_cnt : 0..MaxFound,
                    totalpage : 0..Pages(MaxFound), null : BOOLEAN]
  /\ scannum \in 0..MaxFound /\ {scanning, hurried, scan_halted} \subseteq BOOLEAN

ScanInit ==
  /\ pscaninfo = NoInfo /\ scannum = 0
  /\ scanning = FALSE /\ hurried = FALSE /\ scan_halted = FALSE
----------------------------------------------------------------------------
\* Mutant: the count of entries handed out goes on.
BugCountsOn ==
  /\ pscaninfo' = [pscaninfo EXCEPT !.null = FALSE, !.pagenum = 0, !.page_sn = 0]
  /\ scanning' = TRUE /\ hurried' = FALSE
  /\ UNCHANGED <<scannum, scan_halted>>

\* GET scan without a page: the counts of the block begin again, its list and
\* number of pages stay until the result comes.
get_scan ==
  /\ pscaninfo' = [pscaninfo EXCEPT !.null = FALSE, !.pagenum = 0, !.page_sn = 0,
                                    !.data_cnt = 0]
  /\ scanning' = TRUE /\ hurried' = FALSE
  /\ UNCHANGED <<scannum, scan_halted>>

\* The SDK has finished: the list, and how many pages it makes.
json_scan_cb ==
  /\ scanning /\ scanning' = FALSE
  /\ scannum' \in 0..MaxFound
  /\ IF pscaninfo.null
     THEN scan_halted' = TRUE /\ UNCHANGED pscaninfo
     ELSE /\ pscaninfo' = [pscaninfo EXCEPT !.pbss = scannum', !.totalpage = Pages(scannum')]
          /\ UNCHANGED scan_halted
  /\ UNCHANGED hurried

\* json_send of a page of the block p: an empty list ends the block, the page
\* read last is refused once, a page beyond the count of entries is refused;
\* otherwise as many entries as the page has are taken off the list.
Page(p) ==
  LET left == scannum - (p.pagenum - 1) * PAGE
      n == IF left >= PAGE THEN PAGE ELSE left
  IN IF p.pbss = 0 THEN pscaninfo' = NoInfo /\ UNCHANGED scan_halted
     ELSE IF p.page_sn = p.pagenum
     THEN pscaninfo' = [p EXCEPT !.page_sn = 0] /\ UNCHANGED scan_halted
     ELSE IF p.data_cnt + n > scannum
     THEN pscaninfo' = [p EXCEPT !.page_sn = p.pagenum] /\ UNCHANGED scan_halted
     ELSE IF n > p.pbss
     THEN pscaninfo' = p /\ scan_halted' = TRUE
     ELSE /\ pscaninfo' = [p EXCEPT !.page_sn = p.pagenum, !.data_cnt = @ + n, !.pbss = @ - n]
          /\ UNCHANGED scan_halted

\* GET scan of page k.
get_page(k) ==
  /\ hurried' = (hurried \/ scanning)
  /\ IF pscaninfo.null THEN UNCHANGED <<pscaninfo, scan_halted>>
     ELSE LET p == [pscaninfo EXCEPT !.pagenum = k]
          IN IF k = 0 \/ k > p.totalpage
             THEN pscaninfo' = p /\ UNCHANGED scan_halted
             ELSE Page(p)
  /\ UNCHANGED <<scannum, scanning>>

ScanNext ==
  /\ ~scan_halted
  /\ get_scan \/ json_scan_cb \/ \E k \in 0..(Pages(MaxFound) + 1) : get_page(k)

ScanSpec == ScanInit /\ [][ScanNext]_scanVars
----------------------------------------------------------------------------
\* Null pointers are followed only if a page is asked for while a scan runs.
ScanHalts == scan_halted => hurried

\* Every entry found is in the list or has been handed out, whatever pages are
\* asked for in whatever order.
EntriesCounted ==
  ~pscaninfo.null /\ ~scanning /\ ~hurried =>
    pscaninfo.pbss + pscaninfo.data_cnt = scannum

ScanKept == ScanHalts /\ EntriesCounted
============================================================================
