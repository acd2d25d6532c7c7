----------------------------- MODULE HotelLookup -----------------------------
(***************************************************************************)
(* Which hotel a booking means: resolve_hotel of                           *)
(* app/services/price_source/liteapi.py, and the rule by which its answer  *)
(* is accepted without asking (app/services/ingestion.py and               *)
(* app/routers/jobs.py).                                                   *)
(***************************************************************************)
EXTENDS Naturals, FiniteSets

CONSTANTS
    None,            \* not stated, not found
    Catalogue,       \* hotels LiteAPI's name search yields: [id, country, city]
    Countries,       \* two-letter codes; anything else is no country code
    DefaultCountry   \* settings.liteapi_country_code, or None

ASSUME HotelLookupAssumption ==
    /\ None \notin Countries
    /\ None \notin Catalogue
    /\ IsFiniteSet(Catalogue)
    /\ \A h \in Catalogue : h.country \in Countries
    /\ DefaultCountry \in Countries \cup {None}

-----------------------------------------------------------------------------

\* The booking's own country if it is a code, else the deployment's.
CountryCode(stated) == IF stated \in Countries THEN stated ELSE DefaultCountry

\* What LiteAPI's search finds, in that country, and in that city if one is
\* stated.  The search is fuzzy: what it yields may bear another name.
\* Without a country it refuses, and the caller goes on with nothing.
Hits(stated, city) ==
    {h \in Catalogue : /\ h.country = CountryCode(stated)
                       /\ city # None => h.city = city}

\* In hundredths.
Confidence(hits) == IF Cardinality(hits) = 1 THEN 95 ELSE 50

\* A single confident match is taken; else the user picks.
Accepted(hits) ==
    IF Cardinality(hits) = 1 /\ Confidence(hits) >= 90
    THEN CHOOSE h \in hits : TRUE
    ELSE None

\* The hotels the user is asked to choose from.
PickList(hits) == IF Accepted(hits) = None THEN hits ELSE {}

=============================================================================
