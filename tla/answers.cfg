SPECIFICATION Spec
CONSTANTS
    None = None
    Empty = Empty
    Bad = Bad
    weight = weight
    drive = drive
    cabin = cabin
    Options <- MCOptions
    Brands <- MCBrands
    Types <- MCTypes
    Categories <- MCCategories
    Parts = 2
    Limit = 8
    Words <- MCWords
    Raw <- MCRaw
    Numbers <- MCNumbers
    Lists <- MCLists
    Flags <- MCFlags
    Catalogues <- MCCatalogues
    Addresses <- MCAddresses
    Landings <- MCLandings
    Terms <- MCTerms
    Deals <- MCDeals
    Ownerships <- MCOwnerships
    Texts <- MCTexts
INVARIANTS
    CountsKept
    IndexedAsItself
    AmountsAddUp
    ParsedIsStorable
