------------------------------ MODULE MCClient ------------------------------
(* One customer and one seller; two rounds of login and logout. *)
EXTENDS ClientSession

MCAccounts == {1, 2}
MCSellers == {2}
MCNumbers == {"7"}
MCLines ==
  {<<"login", "ann">>, <<"register", "ann">>, <<"search", "tea">>, <<"list">>, <<"logout">>,
   <<"add", "7">>, <<"add", "x">>, <<"add">>, <<"cart">>, <<"cart", "list">>, <<"list", "7">>,
   <<"seller">>, <<"seller", "edit", "7">>, <<"edit", "7">>, <<"main">>,
   <<"main", "seller", "sale">>, <<"main", "orders">>, <<"help">>, <<"exit">>}
=============================================================================
