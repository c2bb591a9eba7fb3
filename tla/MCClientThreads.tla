-------------------------- MODULE MCClientThreads --------------------------
(***************************************************************************)
(* A small instance of ClientThreads: lists that differ in length, with a  *)
(* name that has a comma, one that is too long for the driver and a serial *)
(* number that is refused; registry values of any shape.                   *)
(***************************************************************************)
EXTENDS ClientThreads

Dev(host, busid, serial) ==
  [host |-> host, service |-> <<"3240">>, busid |-> <<busid>>, serial |-> <<serial>>]

MCAlnum == {"S1", "11"}
MCTooLong == {"long"}

MCLists == {
  <<Dev(<<"pc">>, "1-1", "S1")>>,
  <<Dev(<<"long">>, "1-1", ""), Dev(<<"pc", "x">>, "11", ""), Dev(<<"pc">>, "2-1", "S1")>>,
  <<Dev(<<"pc">>, "1-1", "no-serial")>>}

MCValues == {
  Absent,
  [type |-> "REG_SZ", strings |-> <<<<"pc">>, <<"x">>>>],
  MultiSz(<<<<"pc", "3240", "1-1">>, <<"pc", "3240">>, <<"pc", "3240", "2-1", "S1">>>>)}
=============================================================================
