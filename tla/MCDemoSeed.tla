----------------------------- MODULE MCDemoSeed -----------------------------
(* Instances of DemoSeed for TLC: one row of each kind is worked on. *)
EXTENDS DemoSeed

MCTouched ==
    {<<"employee", 1>>, <<"contact", "khabarovsk">>, <<"category", "portovaya">>,
     <<"category", "krany">>, <<"key", "operating_weight">>,
     <<"machine", <<"terex", "kran", "krany">>>>,
     <<"picture", <<"terex", "kran", "krany">>>>, <<"menu", "header">>,
     <<"page", "politika-konfidencialnosti">>, <<"logo", "2gis">>,
     <<"terms", "leasing">>, <<"rule", <<"price", "prodazhi-tehniki">>>>}
    \union Rows("landing", {l \in RangeLandings : l.low = 300000} \union {l \in CatalogLandings : l.brand = "terex"})
=============================================================================
