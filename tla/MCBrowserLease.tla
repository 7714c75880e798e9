--------------------------- MODULE MCBrowserLease ---------------------------
(***************************************************************************)
(* The instances of BrowserLease, given whole by their configurations.     *)
(*   browser_lease: three workers (one holds, one waits and one is turned  *)
(*   away), a takeover, one event of the person, one request to show the   *)
(*   picture and one viewer whose stream is detached.                      *)
(*   lease_leak: two workers and a viewer that leaves.                     *)
(***************************************************************************)
EXTENDS BrowserLease, TLC
=============================================================================
