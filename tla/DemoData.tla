------------------------------ MODULE DemoData ------------------------------
(***************************************************************************)
(* The demonstration data: the tables seed_demo fills the site from, down  *)
(* to the names its lookups go by.  Titles, texts and contacts are left    *)
(* out; numbers with a fraction are counted in tenths.                     *)
(***************************************************************************)
EXTENDS Integers

Brands == {"komatsu", "bomag", "manitou", "denyo", "generac-mobile", "terex", "techking"}

Roots == {"stroitelnaya-i-dorozhnaya", "skladskaya", "portovaya", "elektrooborudovanie"}

\* Root category -> its children.
Categories ==
    [c \in Roots |->
       CASE c = "stroitelnaya-i-dorozhnaya" ->
               {"ekskavatory", "bulldozery", "frontalnye-pogruzchiki", "dorozhnye-katki",
                "samosvaly"}
         [] c = "skladskaya" -> {"vilochnye-pogruzchiki", "teleskopicheskie-pogruzchiki"}
         [] c = "portovaya" -> {"krany"}
         [] c = "elektrooborudovanie" -> {"generatory"}]

MachineTypes ==
    {"ekskavator", "bulldozer", "frontalnyy-pogruzchik", "vilochnyy-pogruzchik",
     "teleskopicheskiy-pogruzchik", "dorozhnyy-katok", "samosval", "kran", "generator"}

SpecGroups == {"dvigatel", "massy-i-gabarity", "rabochee-oborudovanie",
               "khodovaya-chast", "osnaschenie"}

Key(group, type, decimals) == [group |-> group, type |-> type, decimals |-> decimals]

SpecKeys ==
    [engine_power |-> Key("dvigatel", "number", 0),
     engine_model |-> Key("dvigatel", "string", 0),
     fuel_tank |-> Key("dvigatel", "number", 0),
     emission_stage |-> Key("dvigatel", "option", 0),
     operating_weight |-> Key("massy-i-gabarity", "number", 0),
     transport_length |-> Key("massy-i-gabarity", "number", 0),
     bucket_capacity |-> Key("rabochee-oborudovanie", "number", 2),
     digging_depth |-> Key("rabochee-oborudovanie", "number", 1),
     lifting_capacity |-> Key("rabochee-oborudovanie", "number", 0),
     lift_height |-> Key("rabochee-oborudovanie", "number", 1),
     drum_width |-> Key("rabochee-oborudovanie", "number", 0),
     power_output |-> Key("rabochee-oborudovanie", "number", 0),
     max_speed |-> Key("khodovaya-chast", "number", 1),
     track_type |-> Key("khodovaya-chast", "option", 0),
     cabin_ac |-> Key("osnaschenie", "bool", 0)]

SpecOptions == [emission_stage |-> {"stage-2", "stage-3a", "stage-5"},
                track_type |-> {"gusenichnaya", "kolesnaya"}]

Common == {"engine_power", "engine_model", "operating_weight"}
Lifting == Common \union {"lifting_capacity", "lift_height", "cabin_ac"}

\* Bug: a slip of the pen in the key of a height.
TypeSpecsMisspelt ==
    [t \in MachineTypes |-> Lifting \union {"lift_heigth"}]

TypeSpecs ==
    [t \in MachineTypes |->
       CASE t = "ekskavator" ->
               Common \union {"fuel_tank", "emission_stage", "transport_length",
                "bucket_capacity", "digging_depth", "max_speed", "track_type", "cabin_ac"}
         [] t = "bulldozer" ->
               Common \union {"fuel_tank", "emission_stage", "transport_length",
                "bucket_capacity", "max_speed", "track_type", "cabin_ac"}
         [] t = "frontalnyy-pogruzchik" ->
               Common \union {"fuel_tank", "emission_stage", "bucket_capacity",
                "lifting_capacity", "max_speed", "track_type", "cabin_ac"}
         [] t = "vilochnyy-pogruzchik" -> Lifting \union {"max_speed"}
         [] t = "teleskopicheskiy-pogruzchik" ->
               Lifting \union {"max_speed", "emission_stage"}
         [] t = "dorozhnyy-katok" ->
               Common \union {"drum_width", "max_speed", "emission_stage", "cabin_ac"}
         [] t = "samosval" ->
               Common \union {"fuel_tank", "lifting_capacity", "max_speed", "track_type",
                "cabin_ac"}
         [] t = "kran" -> Lifting \union {"track_type"}
         [] t = "generator" ->
               Common \union {"fuel_tank", "power_output", "emission_stage"}]

\* The values a machine of a type may be given, in tenths of the key's unit.
SpecRanges ==
    [t \in MachineTypes |->
       CASE t = "ekskavator" ->
               [engine_power |-> <<800, 4600>>, operating_weight |-> <<130000, 960000>>,
                bucket_capacity |-> <<5, 52>>, digging_depth |-> <<50, 84>>,
                transport_length |-> <<75000, 135000>>, fuel_tank |-> <<3000, 12500>>,
                max_speed |-> <<30, 55>>]
         [] t = "bulldozer" ->
               [engine_power |-> <<1200, 2600>>, operating_weight |-> <<180000, 440000>>,
                bucket_capacity |-> <<30, 94>>, transport_length |-> <<52000, 74000>>,
                fuel_tank |-> <<4000, 9000>>, max_speed |-> <<35, 110>>]
         [] t = "frontalnyy-pogruzchik" ->
               [engine_power |-> <<1200, 4000>>, operating_weight |-> <<150000, 520000>>,
                bucket_capacity |-> <<25, 65>>, lifting_capacity |-> <<40000, 120000>>,
                fuel_tank |-> <<2800, 7000>>, max_speed |-> <<200, 380>>]
         [] t = "vilochnyy-pogruzchik" ->
               [engine_power |-> <<350, 900>>, operating_weight |-> <<35000, 95000>>,
                lifting_capacity |-> <<15000, 50000>>, lift_height |-> <<30, 70>>,
                max_speed |-> <<170, 250>>]
         [] t = "teleskopicheskiy-pogruzchik" ->
               [engine_power |-> <<550, 1050>>, operating_weight |-> <<65000, 125000>>,
                lifting_capacity |-> <<25000, 50000>>, lift_height |-> <<60, 180>>,
                max_speed |-> <<250, 400>>]
         [] t = "dorozhnyy-katok" ->
               [engine_power |-> <<550, 1600>>, operating_weight |-> <<70000, 250000>>,
                drum_width |-> <<13000, 22000>>, max_speed |-> <<60, 120>>]
         [] t = "samosval" ->
               [engine_power |-> <<2500, 7800>>, operating_weight |-> <<280000, 780000>>,
                lifting_capacity |-> <<250000, 630000>>, fuel_tank |-> <<4000, 11000>>,
                max_speed |-> <<450, 650>>]
         [] t = "kran" ->
               [engine_power |-> <<1800, 4000>>, operating_weight |-> <<360000, 960000>>,
                lifting_capacity |-> <<550000, 1300000>>, lift_height |-> <<400, 680>>]
         [] t = "generator" ->
               [engine_power |-> <<200, 3200>>, power_output |-> <<250, 4000>>,
                operating_weight |-> <<7000, 42000>>, fuel_tank |-> <<600, 7000>>]]

\* Brand, type and category; a line of models stands for all of them.
MachineLines ==
    {<<"komatsu", "ekskavator", "ekskavatory">>, <<"komatsu", "bulldozer", "bulldozery">>,
     <<"komatsu", "frontalnyy-pogruzchik", "frontalnye-pogruzchiki">>,
     <<"komatsu", "samosval", "samosvaly">>,
     <<"komatsu", "vilochnyy-pogruzchik", "vilochnye-pogruzchiki">>,
     <<"bomag", "dorozhnyy-katok", "dorozhnye-katki">>,
     <<"manitou", "teleskopicheskiy-pogruzchik", "teleskopicheskie-pogruzchiki">>,
     <<"manitou", "vilochnyy-pogruzchik", "vilochnye-pogruzchiki">>,
     <<"denyo", "generator", "generatory">>, <<"generac-mobile", "generator", "generatory">>,
     <<"terex", "kran", "krany">>}

PartCategories == {"originalnye-zapchasti", "khodovaya-chast", "filtry", "kovshi-i-zuby",
                   "gidromoloty", "rvd", "smazochnye-materialy", "shiny"}

\* The categories parts are made for.
PartTemplates == {"filtry", "khodovaya-chast", "kovshi-i-zuby", "rvd",
                  "smazochnye-materialy", "gidromoloty", "shiny", "originalnye-zapchasti"}

ServiceCategories == {"to-i-remont", "diagnostika", "analiz-masel", "vyezd-na-obekt",
                      "obuchenie", "shinomontazh"}

\* Service and its category.
Services ==
    {"planovoe-to-komatsu", "kapitalnyy-remont-dvigatelya", "remont-gidravliki",
     "zamena-khodovoy"} \X {"to-i-remont"}
    \union {"kompyuternaya-diagnostika", "diagnostika-komtrax"} \X {"diagnostika"}
    \union {"laboratornyy-analiz-masel", "programma-monitoringa-masel"} \X {"analiz-masel"}
    \union {"vyezdnoy-remont", "avariynyy-vyezd-24-7"} \X {"vyezd-na-obekt"}
    \union {"obuchenie-operatorov", "obuchenie-mekhanikov", "stropalshchik"} \X {"obuchenie"}
    \union {"shinomontazh-karernyy", "podbor-shin"} \X {"shinomontazh"}

Departments == {"prodazhi-tehniki", "zapchasti", "servis", "skladskoe-oborudovanie",
                "uchebnyy-centr"}

\* The rest of the site, by name or number.
Employees == 1 .. 6
News == 1 .. 5
Vacancies == 1 .. 3
LeasingPartners == 1 .. 4
DeliveryOptions == 1 .. 4
Reviews == 1 .. 5
ReviewSources == {"2gis", "yandex"}

Unset == "none"

\* Landings with their brand, type, and condition on a number: key and bounds in tenths.
Landing(slug, brand, type, key, low, high) ==
    [slug |-> slug, brand |-> brand, type |-> type, key |-> key, low |-> low, high |-> high]

Unbounded == 10000000
Plain(slug, brand, type) == Landing(slug, brand, type, Unset, 0, Unbounded)

CatalogLandings ==
    {Plain("ekskavatory-komatsu-habarovsk", "komatsu", "ekskavator"),
     Plain("bulldozery-komatsu-habarovsk", "komatsu", "bulldozer"),
     Plain("frontalnye-pogruzchiki-habarovsk", "komatsu", "frontalnyy-pogruzchik"),
     Plain("dorozhnye-katki-bomag-habarovsk", "bomag", "dorozhnyy-katok"),
     Plain("vilochnye-pogruzchiki-habarovsk", Unset, "vilochnyy-pogruzchik"),
     Plain("teleskopicheskie-pogruzchiki-manitou", "manitou", "teleskopicheskiy-pogruzchik"),
     Plain("generatory-habarovsk", Unset, "generator"),
     Plain("krany-habarovsk", "terex", "kran")}

RangeLandings ==
    {Landing("ekskavatory-20-25-tonn", Unset, "ekskavator", "operating_weight", 200000, 250000),
     Landing("ekskavatory-ot-30-tonn", Unset, "ekskavator", "operating_weight", 300000, Unbounded),
     Landing("pogruzchiki-do-3-tonn", Unset, "vilochnyy-pogruzchik", "lifting_capacity", 0, 30000)}

\* Routing rules, by lead type or machine type, and their departments.
LeadRules ==
    {<<"vilochnyy-pogruzchik", "skladskoe-oborudovanie">>,
     <<"teleskopicheskiy-pogruzchik", "skladskoe-oborudovanie">>,
     <<"parts", "zapchasti">>, <<"service", "servis">>, <<"vacancy", "uchebnyy-centr">>}
    \union {"price", "selection", "callback", "tco", "leasing"} \X {"prodazhi-tehniki"}
=============================================================================
