------------------------------- MODULE Rates -------------------------------
(***************************************************************************)
(* The exchange rates a process shows: a table fetched from the bank's     *)
(* page when a visitor asks and the last fetch is old, kept when a fetch   *)
(* fails, completed from the previous table when the bank has posted only  *)
(* part of its rows.  A rate is the date of the row it was read from; 0 is *)
(* the table bundled with the code.                                        *)
(***************************************************************************)
EXTENDS Naturals, FiniteSets, FiniteSetsExt

CONSTANTS
  Visitors,         \* bound: visitors waiting for rates
  Currencies, Usd, Eur,
  Retry, Refresh,   \* RETRY_MS, REFRESH_MS, in ticks
  MaxDate,          \* bound: dates the bank posts
  MaxClock          \* bound: ticks

ASSUME RatesAssumption ==
  /\ IsFiniteSet(Currencies) /\ {Usd, Eur} \subseteq Currencies
  /\ Retry \in Nat \ {0} /\ Refresh \in Nat /\ Retry <= Refresh
  /\ MaxDate \in Nat /\ MaxClock \in Nat

VARIABLES
  page,                \* the date of each currency's row on the bank's page, 0 without one
  table, asOf, live,   \* the table; whether it was ever fetched
  nextFetch, inflight,
  clock,
  waiting,             \* visitors who wait for the first table
  failed, ended,       \* history: a fetch failed; when the last one ended
  mishap               \* history

ratesVars == <<page, table, asOf, live, nextFetch, inflight, clock, waiting, failed, ended, mishap>>

Dates == 0..MaxDate

RatesTypeOK ==
  /\ page \in [Currencies -> Dates] /\ table \in [Currencies -> Dates] /\ asOf \in Dates
  /\ live \in BOOLEAN /\ inflight \in BOOLEAN /\ failed \in BOOLEAN
  /\ clock \in 0..MaxClock /\ nextFetch \in 0..(MaxClock + Refresh) /\ ended \in 0..MaxClock
  /\ waiting \subseteq Visitors /\ (waiting # {} => inflight)
  /\ mishap \subseteq {"bundled", "early"}

RatesInit ==
  /\ page = [c \in Currencies |-> 0]
  /\ table = [c \in Currencies |-> 0] /\ asOf = 0 /\ live = FALSE
  /\ nextFetch = 0 /\ inflight = FALSE /\ clock = 0 /\ waiting = {}
  /\ failed = FALSE /\ ended = 0 /\ mishap = {}

-----------------------------------------------------------------------------

newest == Max({page[c] : c \in Currencies})

\* Mutant: rows of every date are taken.
rowsOfAnyDate == {c \in Currencies : page[c] # 0}

\* The newest date wins.
rowsOfNewest == {c \in Currencies : page[c] # 0 /\ page[c] = newest}

\* No table is recognised without the dollar and the euro.
parsed == IF rowsOfNewest \cap {Usd, Eur} = {} THEN {} ELSE rowsOfNewest

\* Mutant: what the page lacks falls back to the bundled rate.
mergedBundled == [c \in Currencies |-> IF c \in parsed THEN page[c] ELSE 0]

\* A currency the new table lacks keeps its last rate.
merged == [c \in Currencies |-> IF c \in parsed THEN page[c] ELSE table[c]]

(* A visitor asks; an old table has a fetch started.  Only the first table *)
(* is waited for, and the next fetch is due once this one has ended.       *)
rates(v) ==
  /\ v \notin waiting
  /\ IF clock >= nextFetch
     THEN /\ inflight' = TRUE
          /\ waiting' = IF live THEN waiting ELSE waiting \cup {v}
          /\ mishap' = IF ~inflight /\ (live \/ failed) /\ clock < ended + Retry
                       THEN mishap \cup {"early"} ELSE mishap
     ELSE /\ mishap' = IF ~live /\ ~failed THEN mishap \cup {"bundled"} ELSE mishap
          /\ UNCHANGED <<inflight, waiting>>
  /\ UNCHANGED <<page, table, asOf, live, nextFetch, clock, failed, ended>>

\* With rows missing the page is read again sooner.
refresh ==
  /\ inflight /\ parsed # {}
  /\ table' = merged /\ asOf' = newest /\ live' = TRUE
  /\ nextFetch' = clock + (IF parsed = Currencies THEN Refresh ELSE Retry)
  /\ inflight' = FALSE /\ waiting' = {} /\ ended' = clock
  /\ UNCHANGED <<page, clock, failed, mishap>>

\* The bank does not answer in time, or its page holds no table.
FetchFails ==
  /\ inflight
  /\ nextFetch' = clock + Retry
  /\ failed' = TRUE
  /\ inflight' = FALSE /\ waiting' = {} /\ ended' = clock
  /\ UNCHANGED <<page, table, asOf, live, clock, mishap>>

\* The bank updates its page row by row.
Post ==
  /\ \E c \in Currencies, d \in Dates : d > page[c] /\ page' = [page EXCEPT ![c] = d]
  /\ UNCHANGED <<table, asOf, live, nextFetch, inflight, clock, waiting, failed, ended, mishap>>

RatesTick ==
  /\ clock < MaxClock /\ clock' = clock + 1
  /\ UNCHANGED <<page, table, asOf, live, nextFetch, inflight, waiting, failed, ended, mishap>>

RatesNext == (\E v \in Visitors : rates(v)) \/ refresh \/ FetchFails \/ Post \/ RatesTick
RatesSpec == RatesInit /\ [][RatesNext]_ratesVars

-----------------------------------------------------------------------------
(* The properties.                                                         *)

(* "A currency the new table lacks keeps its last good rate": no rate is   *)
(* ever replaced by an older one, nor by the bundled one.                  *)
RatesNeverOlder == [][\A c \in Currencies : table'[c] >= table[c]]_ratesVars

(* What the date beside the rates says of them.  It is that of the dollar  *)
(* or the euro, and no rate is newer.  Rates may be older than it, or      *)
(* bundled: a currency whose row the bank had not posted keeps the one it  *)
(* had.  But a table of several dates is not kept for long: whoever asks a *)
(* retry period after the last fetch has the page read again, and only a   *)
(* table of one date is kept for the whole refresh period (refresh).       *)
AsOfTrue ==
  /\ \A c \in Currencies : table[c] <= asOf
  /\ live => asOf \in {table[Usd], table[Eur]}
  /\ (\E c \in Currencies : table[c] # asOf) => nextFetch <= ended + Retry

(* "The very first request waits so visitors get live rates from the       *)
(* start": as long as no table was fetched, a visitor is answered with the *)
(* bundled one only after a fetch has failed.  Single bundled rates in a   *)
(* fetched table are another matter (AsOfTrue).                            *)
FirstWait == "bundled" \notin mishap

(* The bank is asked by one request at a time and never sooner than the    *)
(* retry period after the last answer, however many visitors ask.          *)
BankSpared == "early" \notin mishap

=============================================================================
