------------------------------ MODULE Forecast ------------------------------
(***************************************************************************)
(* What a process keeps of slow reads: the weather (one fetch at a time,   *)
(* shared by whoever asks meanwhile, the old view when it fails) and the   *)
(* catalog (each reader builds its own and stores it when done).           *)
(*                                                                         *)
(* A view is the tick its source was read at.  A fetch takes at most       *)
(* MaxWait ticks: the weather's by its timeout, the catalog's by            *)
(* assumption.                                                             *)
(***************************************************************************)
EXTENDS Naturals, FiniteSets

CONSTANTS
  Readers,    \* bound: requests at once
  CacheAge,   \* CACHE_MS, CACHE_TTL_MS, in ticks
  MaxWait,    \* the fetch's timeout
  MaxTick     \* bound

ASSUME ForecastAssumption == CacheAge \in Nat /\ MaxWait \in Nat /\ MaxTick \in Nat /\ IsFiniteSet(Readers)

VARIABLES
  now,
  weather, weatherAt,   \* the view kept, and since when; Never without one
  fetches,              \* when the fetches in progress began
  catalog, catalogAt,   \* the same for the catalog
  build,                \* for each reader, when its build read the rows
  asking,               \* who waits for the weather
  slip                  \* history

forecastVars == <<now, weather, weatherAt, fetches, catalog, catalogAt, build, asking, slip>>

Never == MaxTick + 1
Ticks == 0..MaxTick
Kept(at) == at # Never /\ now - at < CacheAge

ForecastTypeOK ==
  /\ now \in Ticks
  /\ {weather, weatherAt, catalog, catalogAt} \subseteq Ticks \cup {Never}
  /\ build \in [Readers -> Ticks \cup {Never}] /\ asking \subseteq Readers
  /\ (asking # {} => fetches # {}) /\ fetches \subseteq Ticks /\ \A b \in fetches : now <= b + MaxWait
  /\ slip \subseteq {"oldCatalog"}

ForecastInit ==
  /\ now = 0 /\ weather = Never /\ weatherAt = Never /\ fetches = {}
  /\ catalog = Never /\ catalogAt = Never
  /\ build = [r \in Readers |-> Never] /\ asking = {} /\ slip = {}

-----------------------------------------------------------------------------
(* The weather.                                                            *)

\* A kept view is answered at once; otherwise the reader joins the fetch in progress or starts one.
current(r) ==
  /\ r \notin asking /\ build[r] = Never /\ ~Kept(weatherAt)
  /\ fetches' = IF fetches = {} THEN {now} ELSE fetches
  /\ asking' = asking \cup {r}
  /\ UNCHANGED <<now, weather, weatherAt, catalog, catalogAt, build, slip>>

\* The view describes the weather at some moment of the fetch.
fetchFresh ==
  /\ \E b \in fetches :
       /\ \E read \in b..now : weather' = read
       /\ fetches' = fetches \ {b}
  /\ weatherAt' = now /\ asking' = {}
  /\ UNCHANGED <<now, catalog, catalogAt, build, slip>>

\* "stale beats nothing": the readers get the view kept, or 503 without one.
FetchFailed ==
  /\ \E b \in fetches : fetches' = fetches \ {b}
  /\ asking' = {}
  /\ UNCHANGED <<now, weather, weatherAt, catalog, catalogAt, build, slip>>

-----------------------------------------------------------------------------
(* The catalog.                                                            *)

loadRows(r) ==
  /\ r \notin asking /\ build[r] = Never /\ ~Kept(catalogAt)
  /\ build' = [build EXCEPT ![r] = now]
  /\ UNCHANGED <<now, weather, weatherAt, fetches, catalog, catalogAt, asking, slip>>

\* The reader answers what it built and keeps it from now on, whatever was stored meanwhile.
getCatalog(r) ==
  /\ build[r] # Never
  /\ catalog' = build[r] /\ catalogAt' = now
  /\ build' = [build EXCEPT ![r] = Never]
  /\ UNCHANGED <<now, weather, weatherAt, fetches, asking, slip>>

CatalogHit(r) ==
  /\ r \notin asking /\ build[r] = Never /\ Kept(catalogAt)
  /\ slip' = IF now - catalog > CacheAge + MaxWait THEN slip \cup {"oldCatalog"} ELSE slip
  /\ UNCHANGED <<now, weather, weatherAt, fetches, catalog, catalogAt, build, asking>>

Later ==
  /\ now < MaxTick /\ now' = now + 1
  /\ \A b \in fetches : now < b + MaxWait
  /\ \A r \in Readers : build[r] # Never => now < build[r] + MaxWait
  /\ UNCHANGED <<weather, weatherAt, fetches, catalog, catalogAt, build, asking, slip>>

ForecastNext ==
  \/ \E r \in Readers : current(r) \/ loadRows(r) \/ getCatalog(r) \/ CatalogHit(r)
  \/ fetchFresh \/ FetchFailed \/ Later
ForecastSpec == ForecastInit /\ [][ForecastNext]_forecastVars

-----------------------------------------------------------------------------
(* The properties.                                                         *)

(* Readers share one fetch, so a view is never replaced by an older one,   *)
(* however slow the service answers.                                       *)
WeatherForward == [][weather # Never => weather' >= weather]_forecastVars

(* Although builds overlap and the slower overwrites the faster, a catalog *)
(* served was read from the database no longer ago than the cache's age    *)
(* and one build.                                                          *)
CatalogFresh == "oldCatalog" \notin slip

=============================================================================
