---------------------------- MODULE MCBrowserAgent -----------------------------
(* A page that is reported in a few events, and budgets that may run out.       *)
EXTENDS BrowserAgent
===============================================================================
