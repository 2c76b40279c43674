---------------------------- MODULE MCRequestGate ----------------------------
(* An instance of RequestGate for TLC. *)
EXTENDS RequestGate, TLC

CONSTANTS ad, adLong

MCLimit == [b \in Buckets |-> IF b = "burst" THEN 1 ELSE 2]
MCWindow == [b \in Buckets |-> IF b = "burst" THEN 1 ELSE 2]

\* The campaign too long for a cookie has no click identifier.
MCKeysOf == [c \in Campaigns |-> IF c \in Oversized THEN UtmKeys ELSE Keys]

Pdf == [extension |-> ".pdf", content |-> "pdf", size |-> "fits"]

Good == [door |-> "form", fields |-> TRUE, consent |-> TRUE, contacts |-> TRUE,
         live |-> FALSE, trap |-> FALSE, stamp |-> "fair", query |-> None,
         files |-> <<>>]

MCInputs ==
    { [Good EXCEPT !.files = <<Pdf>>],
      [Good EXCEPT !.files = <<Pdf, Pdf>>],
      [Good EXCEPT !.files = <<[Pdf EXCEPT !.content = "zip"]>>],
      [Good EXCEPT !.door = "api", !.query = adLong],
      [Good EXCEPT !.door = "api", !.stamp = "hasty"],
      [Good EXCEPT !.door = "calculator", !.consent = FALSE],
      [Good EXCEPT !.door = "calculator", !.live = TRUE] }

Interchangeable == Permutations(Workers)
==============================================================================
