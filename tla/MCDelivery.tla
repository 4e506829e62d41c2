------------------------------ MODULE MCDelivery ------------------------------
(* Model-checking instance of Delivery: a transcript of size 1 fits both   *)
(* sinks, one of size 3 none.                                               *)
EXTENDS Delivery

Kind(m, b, o) == [mode |-> m, bytes |-> b, outputs |-> o]
MCKinds ==
    { Kind("foreground", 1, <<"clipboard">>),
      Kind("foreground", 1, <<"type_at_cursor">>),
      Kind("foreground", 3, <<"notification", "clipboard", "type_at_cursor">>),
      Kind("auto", 1, <<"file", "clipboard", "type_at_cursor">>) }
=============================================================================
