---------------------------- MODULE RequestLimits ----------------------------
(***************************************************************************)
(* The request limit of middleware/rate_limit.py, and the address list of  *)
(* middleware/ip_whitelist.py behind it.  The times of a client's requests *)
(* are kept in the memory of the process.                                  *)
(***************************************************************************)
EXTENDS Integers, Sequences, FiniteSets

CONSTANTS
  Clients, Exempt,      \* client identities; the one of an exempt path
  RateLimit, Window,    \* rate_limit and window_seconds
  MaxMoment             \* bounds the clock

ASSUME RateAssumption == RateLimit \in Nat /\ Window \in Nat

VARIABLES
  hits,         \* _memory_store: per client, the times kept
  admitted,     \* every request let through, as <<client, time>> pairs
  moment        \* the time

limitVars == <<hits, admitted, moment>>

LimitsInit == hits = [c \in Clients |-> <<>>] /\ admitted = <<>> /\ moment = 0

(* RateLimitMiddleware._check_rate: the times still in the window; the     *)
(* request is recorded when fewer than the limit are left, and a refused   *)
(* one is not.  No await lies between.  The times are in order, so that    *)
(* those still in the window are the last ones.                            *)
Recent(times) ==
  LET expired == {i \in DOMAIN times : times[i] <= moment - Window}
  IN SubSeq(times, Cardinality(expired) + 1, Len(times))
CheckRate(client) ==
  LET recent == Recent(hits[client]) IN
  IF Len(recent) < RateLimit
  THEN [granted |-> TRUE, times |-> Append(recent, moment)]
  ELSE [granted |-> FALSE, times |-> recent]

(* A request: exempt paths pass unrecorded; the address list is asked only *)
(* after the limit, so that a request it refuses has used up a place.      *)
Dispatch(client, listed) ==
  /\ Len(admitted) < RateLimit + 2
  /\ IF client = Exempt THEN UNCHANGED <<hits, admitted>>
     ELSE /\ hits' = [hits EXCEPT ![client] = CheckRate(client).times]
          /\ admitted' = IF CheckRate(client).granted /\ listed
                         THEN Append(admitted, <<client, moment>>) ELSE admitted
  /\ UNCHANGED moment

NextMoment ==
  /\ moment < MaxMoment
  /\ moment' = moment + 1
  /\ UNCHANGED <<hits, admitted>>

LimitsNext ==
  \/ \E client \in Clients, listed \in BOOLEAN : Dispatch(client, listed)
  \/ NextMoment

-----------------------------------------------------------------------------
(* RATE: however the requests of a client fall, no stretch of time as long *)
(* as the window holds more of them than the limit, although the times are *)
(* thrown away as the window moves.                                        *)
RateHolds ==
  \A client \in Clients, from \in 0 .. MaxMoment :
    Cardinality({i \in DOMAIN admitted :
      admitted[i][1] = client /\ admitted[i][2] \in from .. from + Window - 1}) <= RateLimit
=============================================================================
