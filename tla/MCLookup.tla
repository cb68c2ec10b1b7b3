------------------------------- MODULE MCLookup -------------------------------
(***************************************************************************)
(* The proxy's lookup for TLC: entries have room for five characters.  One  *)
(* known name leaves room to spare and its second entry shows the tail of  *)
(* a longer one, one fits to the last digit, one has its address cut to    *)
(* another one, and one has no room for any.  One nobody knows.            *)
(***************************************************************************)
EXTENDS ProxyLookup, TLC

CONSTANT x

Short == <<"a">>
Exact == <<"b", "c">>
Long  == <<"d", "e", "f">>
Full  == <<"g", "h", "i", "j">>
Unknown == <<"k">>

MCAddresses == {<<"1">>, <<"2", "3">>, <<"2">>}
MCAddressOf == Short :> <<"1">> @@ Exact :> <<"2", "3">> @@ Long :> <<"2", "3">> @@ Full :> <<"2">>
MCRequests ==
    {[method |-> "GET", host |-> Short, file |-> Default],
     [method |-> "GET", host |-> Exact, file |-> x],
     [method |-> "GET", host |-> Long, file |-> Default],
     [method |-> "GET", host |-> Full, file |-> Default],
     [method |-> "GET", host |-> Unknown, file |-> Default],
     [method |-> "POST", host |-> Short, file |-> Default]}
MCLines == {<<"2">>}
===============================================================================
