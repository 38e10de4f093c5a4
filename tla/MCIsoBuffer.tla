---------------------------- MODULE MCIsoBuffer ----------------------------
(***************************************************************************)
(* IsoBuffer with a buffer of seven bytes and items of one to three bytes, one *)
(* more than a long has.                                                      *)
(***************************************************************************)
EXTENDS IsoBuffer

MCItems ==
    {[kind |-> "byte", data |-> 259], [kind |-> "word", data |-> 66051],
     [kind |-> "mem", data |-> <<>>], [kind |-> "mem", data |-> <<200>>],
     [kind |-> "mem", data |-> <<1, 200, 3>>],
     [kind |-> "bcd", data |-> <<7>>], [kind |-> "bcd", data |-> <<1, 2, 3>>],
     [kind |-> "bcd", data |-> <<4, 5>>]}
=============================================================================
