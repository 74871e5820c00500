--------------------------- MODULE MCNbpBulletin ---------------------------
(* Rows of small bulletins.                                                *)
EXTENDS NbpBulletin

CONSTANTS Stars, Other  \* tokens that are not numbers

MCMarkers == {Stars, Other}

MCRows ==
    { [label |-> "UTC", cells |-> <<18, 0>>],
      [label |-> "FHR", cells |-> <<24, 36>>],
      [label |-> "TXN", cells |-> <<68, 999>>],
      [label |-> "TXNSD", cells |-> <<Stars, 2>>] }

\* One blank cell in a table of two columns.
MCSparseRows ==
    { [label |-> "UTC", cells |-> <<18, 0>>],
      [label |-> "TXN", cells |-> <<Blank, 68>>] }
=============================================================================
