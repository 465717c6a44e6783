--------------------------- MODULE MCValidatorApi ---------------------------
(***************************************************************************)
(* ValidatorApi for TLC: x pays y and gets change, y pays z; one           *)
(* transaction is mined and has no sender.                                 *)
(***************************************************************************)
EXTENDS ValidatorApi

SmallSent ==
    {<<"x", "p">>, <<"p", "y">>, <<"p", "x">>, <<"y", "q">>, <<"q", "z">>, <<"mint", "x">>}
=============================================================================
