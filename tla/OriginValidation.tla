--------------------------- MODULE OriginValidation ---------------------------
(***************************************************************************)
(* Route origin validation over the VRP table that ROAChange maintains:    *)
(* vrp_service.validate_bgp_announcement, which tells the operators how    *)
(* the network treats an announcement, and rov_simulation_service, which   *)
(* forecasts it for a ROA change before anybody approves the change.       *)
(*                                                                         *)
(* A prefix of ROAChange is a spelling here, Spelled[p] = [addr, len] with *)
(* the address as written: it may have bits set past its length.  The      *)
(* addresses have Width bits instead of 32 or 128.                         *)
(***************************************************************************)
EXTENDS ROAChange

CONSTANTS
  Width,      \* bits of an address
  Spelled     \* prefix -> [addr, len]

Addresses == 0 .. 2^Width - 1
Spellings == [addr : Addresses, len : 0..Width]

ASSUME ValidationAssumption ==
  /\ Width \in Nat
  /\ Spelled \in [Prefixes -> Spellings]
  /\ Lengths \subseteq Nat

(* What is left of an address under a mask of n bits. *)
Masked(addr, n) == addr - (addr % 2^(Width - n))

(* ip_network(..., strict=False) clears the host bits. *)
Network(s) == [addr |-> Masked(s.addr, s.len), len |-> s.len]
Networks == {Network(s) : s \in Spellings}
Announcements == [prefix : Networks, origin : Origins]

\* Mutant of CoveringPrefixes: the prefix itself is left out.
CoveringPrefixesAbove(net) == {[addr |-> Masked(net.addr, n), len |-> n] : n \in 0..(net.len - 1)}

(* _get_covering_prefixes: the ancestor chain, each as it is spelled. *)
CoveringPrefixes(net) == {[addr |-> Masked(net.addr, n), len |-> n] : n \in 0..net.len}

(* vrp.max_length or vrp.prefix_length: None and 0 stand for the length. *)
EffectiveMax(v) ==
  IF v.content["max"] \in {None, 0} THEN Spelled[v.content["prefix"]].len
  ELSE v.content["max"]

\* Mutant of Validate: a revoked VRP still authorises.
ValidateRevoked(table, ann) ==
  LET matched == {v \in table : Spelled[v.content["prefix"]] \in CoveringPrefixes(ann.prefix)}
  IN  CASE matched = {} -> "not_found"
        [] \E v \in matched : v.content["origin"] = ann.origin
                                /\ ann.prefix.len <= EffectiveMax(v) -> "valid"
        [] OTHER -> "invalid"

(* validate_bgp_announcement and _validate_against_vrps: revoked VRPs count as
   matches but authorise nothing. *)
Validate(table, ann) ==
  LET matched == {v \in table : Spelled[v.content["prefix"]] \in CoveringPrefixes(ann.prefix)}
      live    == {v \in matched : v.valid}
      same    == {v \in live : v.content["origin"] = ann.origin}
  IN  CASE matched = {} -> "not_found"
        [] \E v \in same : ann.prefix.len <= EffectiveMax(v) -> "valid"
        [] OTHER -> "invalid"

Table(t) == UNION {t[r] : r \in Roas}
Status(ann) == Validate(Table(vrps), ann)

(* What the RTR server sends: _load_vrps_from_db takes the valid VRPs. *)
Published == {v \in Table(vrps) : v.valid}

-----------------------------------------------------------------------------
(* rov_simulation_service *)

\* Mutant of SimulatedMax: the ROA's own max_length is ignored.
SimulatedMaxMinimal(asked, old, length) ==
  LET max == IF asked["max"] # None THEN asked["max"] ELSE length
  IN  IF max < length THEN length ELSE max

(* The new maximum, else the ROA's, else the length; never below it. *)
SimulatedMax(asked, old, length) ==
  LET merged == Merge(asked, old)["max"]
      max    == IF merged # None THEN merged ELSE length
  IN  IF max < length THEN length ELSE max

(* _create_simulated_vrp: a modified ROA keeps the old prefix_length. *)
SimulatedVrp(asked, old) ==
  LET content == Merge(asked, old)
      length  == Spelled[IF old["prefix"] # None THEN old["prefix"] ELSE content["prefix"]].len
  IN  [content |-> [content EXCEPT !["max"] = SimulatedMax(asked, old, length)],
       valid |-> TRUE]

(* _apply_roa_change: the VRP table after the change that is asked for. *)
Simulated(req) ==
  CASE req.type = "revoke" -> Table([vrps EXCEPT ![req.roa] = {}])
    [] req.type = "modify" -> Table([vrps EXCEPT ![req.roa] =
                                  {SimulatedVrp(req.change, roas[req.roa].content)}])
    [] req.type = "create" -> Table(vrps) \union {SimulatedVrp(req.change, NoFields)}

(* _get_affected_prefix_ranges: the old prefix and the new one. *)
PrefixRanges(req) ==
  {roas[r].content["prefix"] : r \in {req.roa} \ {None}}
    \union ({req.change["prefix"]} \ {None})

(* _filter_affected_announcements: those in a range, host bits ignored. *)
Affected(req) ==
  {ann \in Announcements : \E p \in PrefixRanges(req) :
     LET range == Network(Spelled[p])
     IN  /\ range.len <= ann.prefix.len
         /\ Masked(ann.prefix.addr, range.len) = range.addr}

-----------------------------------------------------------------------------
(* Properties *)

(* RFC 6811 by arithmetic: a VRP covers an announcement when the network is no
   longer than the announced one and the bits up to its length agree. *)
Covers(v, ann) ==
  LET net == Network(Spelled[v.content["prefix"]])
  IN  /\ net.len <= ann.prefix.len
      /\ ann.prefix.addr \div 2^(Width - net.len) = net.addr \div 2^(Width - net.len)

MaxOf(v) ==
  IF v.content["max"] = None THEN Spelled[v.content["prefix"]].len ELSE v.content["max"]

Rfc6811(table, ann) ==
  LET covering == {v \in table : Covers(v, ann)}
  IN  CASE covering = {} -> "not_found"
        [] \E v \in covering : v.content["origin"] = ann.origin
                                 /\ ann.prefix.len <= MaxOf(v) -> "valid"
        [] OTHER -> "invalid"

Canonical(v) == Spelled[v.content["prefix"]] = Network(Spelled[v.content["prefix"]])

(* A VRP that the fields of a prefix PDU can express; every other one makes
   encode_vrp raise. *)
Encodable(v) ==
  Canonical(v) /\ MaxOf(v) >= Spelled[v.content["prefix"]].len

(* While every VRP can be sent, its prefix spelled without host bits and its
   max_length not below its length, the platform says valid of exactly the
   announcements that a router holding the published VRPs says valid of, and
   not_found of none that the router would drop. *)
AgreesWithRouters ==
  (\A v \in Table(vrps) : Encodable(v)) =>
    \A ann \in Announcements :
      /\ Status(ann) = "valid" <=> Rfc6811(Published, ann) = "valid"
      /\ Status(ann) = "not_found" => Rfc6811(Published, ann) = "not_found"

(* While calls do not overlap, nothing is valid without a valid ROA that
   authorises it, after any sequence of changes, rollbacks and rebuilds of the
   table: a VRP never outlives the content or the validity of its ROA. *)
AuthorizedOnly ==
  \A ann \in Announcements : Status(ann) = "valid" =>
    \E r \in Roas :
      LET v == [content |-> roas[r].content, valid |-> TRUE]
      IN  /\ roas[r].status = "valid"
          /\ Covers(v, ann) /\ v.content["origin"] = ann.origin
          /\ ann.prefix.len <= EffectiveMax(v)

Executes(q) == requests[q].status = "approved" /\ requests'[q].status = "executed"

\* Where forecast and execution build the same VRP: a valid ROA that has one,
\* the same length of prefix, and a max_length not below it.  Elsewhere they
\* differ: the forecast keeps the old length under a new prefix, raises a
\* max_length to the length, and draws a VRP for a ROA that has none.
Forecastable(req) ==
  LET old == IF req.roa = None THEN NoFields ELSE roas[req.roa].content
      new == Merge(req.change, old)
      length == Spelled[new["prefix"]].len
  IN  /\ new["max"] = None \/ new["max"] >= length
      /\ req.type = "modify" =>
           /\ roas[req.roa].status = "valid" /\ vrps[req.roa] # {}
           /\ length = Spelled[old["prefix"]].len

(* A forecast of the tables that the execution finds comes true: of a creation
   or modification every status, whatever other ROAs cover the announcement; of
   a revocation which announcements stay valid.  The forecast of a revocation
   drops the VRPs that the execution keeps as revoked, so it may say not_found
   of what is invalid afterwards, never the other way round.  A forecast asked
   for earlier can be overtaken by changes in between: nothing renews it. *)
ForecastHolds ==
  [][\A q \in Requests : Executes(q) =>
       \A ann \in Announcements :
         LET forecast == Validate(Simulated(requests[q]), ann)
         IN  IF requests[q].type = "revoke"
             THEN /\ Status(ann)' = "valid" <=> forecast = "valid"
                  /\ Status(ann)' = "not_found" => forecast = "not_found"
             ELSE Forecastable(requests[q]) => Status(ann)' = forecast]_vars

(* No announcement outside the ranges that the simulation examines changes its
   status when the request is executed, a revocation included. *)
ForecastComplete ==
  [][\A q \in Requests : Executes(q) =>
       \A ann \in Announcements \ Affected(requests[q]) :
         Status(ann)' = Status(ann)]_vars

(* While calls do not overlap, a simulation of a request that is asked for right
   before the execution is what happens: the statuses that it shows come true,
   except for what Forecastable and the revocation leave open, and those that it
   does not show stay. *)
ForecastTrue == ForecastHolds /\ ForecastComplete
=============================================================================
