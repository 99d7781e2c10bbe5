-------------------------- MODULE MCBrowserSession --------------------------
(* An instance of BrowserSession for TLC.                                   *)
EXTENDS BrowserSession
=============================================================================
