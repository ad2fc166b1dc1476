----------------------------- MODULE MCRequests -----------------------------
(***************************************************************************)
(* Requests on two keys and two values: the commands, one with too few     *)
(* parameters, one with a parameter too many, an unknown one.              *)
(***************************************************************************)
EXTENDS Requests

MCKeys == {"k1", "key2"}
MCValues == {"v1", "value2"}

MCRequest ==
  {<<"set", k, v>> : k \in MCKeys, v \in MCValues}
    \cup {<<c, k>> : c \in {"get", "del", "set"}, k \in MCKeys}
    \cup {<<"get", "k1", "v1", "v1">>, <<"ping">>}

MCSize == [w \in {"set", "get", "del"} |-> 3]
            @@ ("ping" :> 4) @@ ("k1" :> 2) @@ ("key2" :> 4) @@ ("v1" :> 2) @@ ("value2" :> 6)
=============================================================================
