---------------------------- MODULE MCFormatting ----------------------------
(* A small instance of Formatting for TLC. *)
EXTENDS Formatting

MCLines == {<<>>, <<"sp">>, <<"x", "x", "x", "x", "sp">>, <<"img">>, <<"bad">>,
            <<"row">>, <<"row", "row">>, <<"sep">>,
            <<"quote">>, <<"quote", "sp", "x">>, <<"void">>}
=============================================================================
