----------------------------- MODULE ExternalData -----------------------------
(***************************************************************************)
(* What registries say of a prefix or an AS, and the table that caches it: *)
(* services/integrations/external_info.py with ExternalDataCache of        *)
(* models/integration.py and the external-info endpoints.                  *)
(*                                                                         *)
(* Nothing makes a key unique in the table.  A query reads the cache, asks *)
(* the source, and looks for the row again before it writes; queries in    *)
(* progress together do all of this in any order.  A search that finds two *)
(* rows raises an error, which reading takes for no row and writing drops. *)
(***************************************************************************)
EXTENDS Integers, Sequences, FiniteSets

CONSTANTS
  Nothing,              \* no query in progress; nothing found
  Keys,                 \* cache keys: kind, prefix or AS, and the IRR source
  Sites,                \* the URLs a caller may ask, which no key contains
  Facts,                \* what a site may say of a key
  Queries,              \* queries that may be in progress together
  Ttl, MaxHour          \* DEFAULT_CACHE_TTL; bounds the clock

ASSUME TtlAssumption == Ttl \in Nat

VARIABLES
  cache,        \* external_data_cache: the rows, [key, fact, expires]
  says,         \* per hour, site and key, what is said; hours are appended
  queries       \* the queries in progress

externalVars == <<cache, says, queries>>

hour == Len(says) - 1
Now == says[Len(says)]
Saying == [Sites -> [Keys -> Facts \cup {Nothing}]]

ExternalInit ==
  /\ cache = <<>>
  /\ queries = [q \in Queries |-> Nothing]
  /\ \E saying \in Saying : says = <<saying>>

RowsOf(key) == {i \in DOMAIN cache : cache[i].key = key}

\* Mutant of Cached: a row that has expired is served as well.
CachedForever(key) ==
  IF Cardinality(RowsOf(key)) = 1 THEN {cache[i].fact : i \in RowsOf(key)} ELSE {}

(* _get_cached_data: the one row of the key that has not expired.          *)
Cached(key) ==
  LET current == {i \in RowsOf(key) : cache[i].expires > hour}
  IN IF Cardinality(current) = 1 THEN {cache[i].fact : i \in current} ELSE {}

(* query_rir, query_irr, query_peeringdb: an answer from the cache ends    *)
(* the query at once, and only without one is the source asked.            *)
AskCache(q, key, site) ==
  /\ queries[q] = Nothing /\ Cached(key) = {}
  /\ queries' = [queries EXCEPT ![q] =
       [key |-> key, site |-> site, fact |-> Nothing, row |-> 0, step |-> "ask"]]
  /\ UNCHANGED <<cache, says>>

(* The source answers: an error, or nothing found, goes back to the caller *)
(* and is not cached; a fact is.                                           *)
AskSource(q, fails) ==
  /\ queries[q] # Nothing /\ queries[q].step = "ask"
  /\ LET fact == Now[queries[q].site][queries[q].key] IN
     queries' = [queries EXCEPT ![q] =
       IF fails \/ fact = Nothing THEN Nothing ELSE [@ EXCEPT !.fact = fact, !.step = "look"]]
  /\ UNCHANGED <<cache, says>>

(* _set_cached_data: the search for the row of the key, expired or not; an *)
(* error, of the search or the database, is logged and forgotten.          *)
LookForRow(q) ==
  /\ queries[q] # Nothing /\ queries[q].step = "look"
  /\ queries' = [queries EXCEPT ![q] =
       LET rows == RowsOf(queries[q].key) IN
       CASE rows = {} -> [@ EXCEPT !.step = "insert"]
         [] Cardinality(rows) = 1 -> [@ EXCEPT !.step = "update", !.row = CHOOSE i \in rows : TRUE]
         [] OTHER -> Nothing]
  /\ UNCHANGED <<cache, says>>

Row(q) == [key |-> queries[q].key, fact |-> queries[q].fact, expires |-> hour + Ttl]
WriteRow(q, fails) ==
  /\ queries[q] # Nothing /\ queries[q].step \in {"insert", "update"}
  /\ cache' = IF fails THEN cache
              ELSE IF queries[q].step = "insert" THEN Append(cache, Row(q))
              ELSE [cache EXCEPT ![queries[q].row] = Row(q)]
  /\ queries' = [queries EXCEPT ![q] = Nothing]
  /\ UNCHANGED says

(* Time passes between queries: one takes seconds and the hours here are   *)
(* parts of the day an answer is kept for.                                 *)
NextHour ==
  /\ hour < MaxHour /\ \A q \in Queries : queries[q] = Nothing
  /\ \E saying \in Saying : says' = Append(says, saying)
  /\ UNCHANGED <<cache, queries>>

ExternalNext ==
  \/ \E q \in Queries :
       \/ \E key \in Keys, site \in Sites : AskCache(q, key, site)
       \/ \E fails \in BOOLEAN : AskSource(q, fails) \/ WriteRow(q, fails)
       \/ LookForRow(q)
  \/ NextHour

-----------------------------------------------------------------------------
(* FRESH: whatever was doubled, overwritten late or lost on the way, what  *)
(* the cache serves for a key was said of that key, by one of the sites,   *)
(* within the time an answer is kept for.                                  *)
FactsFresh ==
  \A key \in Keys : \A fact \in Cached(key) :
    \E then \in 0 .. hour, site \in Sites :
      then > hour - Ttl /\ says[then + 1][site][key] = fact
==============================================================================
