------------------------------ MODULE Optional ------------------------------
(* Values that may be absent.                                              *)

CONSTANT
    None        \* std::nullopt, or an empty string
=============================================================================
