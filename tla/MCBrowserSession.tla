--------------------------- MODULE MCBrowserSession ---------------------------
(***************************************************************************)
(* Small instances of the browser's session.                               *)
(***************************************************************************)
EXTENDS BrowserSession, TLC

Interchangeable ==
    Permutations(Tabs) \cup Permutations(Widgets) \cup Permutations(Accounts)
    \cup Permutations(TokenIds)
=============================================================================
