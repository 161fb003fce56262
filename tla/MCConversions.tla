---------------------------- MODULE MCConversions ----------------------------
(* The instance of Conversions for TLC: lock ranges at the ends of off_t,     *)
(* option values with a comma or a backslash in every place that matters, and *)
(* attribute values of every length up to two bytes.                          *)
EXTENDS Conversions

MCOffsets == {-OFF_MAX - 1, -1, 0, 1, OFF_MAX - 1, OFF_MAX}

MCPids == {-1, 0, 1, PID_MAX}

MCValues == {<<>>, <<"a">>, <<Comma>>, <<"a", Backslash>>, <<Backslash, Comma>>}

MCDefault == <<"a">>

MCXattrValues == {<<>>, <<1>>, <<2>>, <<1, 2>>, <<2, 2>>}

=============================================================================
