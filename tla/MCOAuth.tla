------------------------------ MODULE MCOAuth ------------------------------
(* A small instance of OAuthProps.                                         *)
EXTENDS OAuthProps

Setting(actors, menu, n, most) ==
    [actors |-> actors, menu |-> menu, ops |-> n,
     asks |-> most[1], turns |-> most[2], faults |-> most[3], crashes |-> most[4]]

MCSettings ==
    {Setting({"connect1", Revoker}, {}, 2, <<1, 1, 0, 0>>),
     Setting({"connect1", "connect2"}, {}, 2, <<1, 0, 0, 0>>),
     Setting({"connect1"}, {"restart"}, 2, <<1, 0, 0, 0>>),
     Setting({"connect1", Caller}, {}, 2, <<2, 0, 0, 0>>),
     Setting({"connect1"}, {}, 1, <<1, 2, 1, 1>>),
     Setting({Caller}, {}, 2, <<1, 2, 1, 1>>),
     Setting({Caller}, {"edit", "update", "remove", "add"}, 3, <<1, 1, 0, 0>>),
     Setting({Revoker}, {"edit", "remove", "add"}, 2, <<1, 1, 1, 0>>)}
=============================================================================
