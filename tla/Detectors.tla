------------------------------ MODULE Detectors ------------------------------
(***************************************************************************)
(* The detectors of services/detection as operators.  A detector looks at  *)
(* an announcement and, by queries, at what the tables say of its prefix.  *)
(* The answers of those queries are one record, the situation s:           *)
(*                                                                         *)
(*   vrps      VRPs as [net, origin, max, revoked]                         *)
(*   origins   the ASes that announced the prefix in the last 30 days      *)
(*   recent    the ASes that announced it in the last 60 minutes           *)
(*   scope     observation points that saw the prefix from its origin      *)
(*   baseline  the most common AS path of the last 7 days, or None         *)
(*   withdraws, announces          events of the flap window               *)
(*   withdrawPoints, announcePoints  observation points they came from     *)
(*   invalids  points with a stored announcement marked invalid            *)
(*                                                                         *)
(* recent and origins are queries on one table, so that recent is part of  *)
(* origins (Consistent).  A network is [addr, len] over Width bits.        *)
(***************************************************************************)
EXTENDS Integers, Sequences, FiniteSets, FiniteSetsExt

CONSTANTS
  None,
  Width,     \* bits of an address
  AsnInfo    \* AS -> the row of asns: [type, anycast, risk], or None

Masked(addr, n) == addr - (addr % 2^(Width - n))

(* The networks a prefix lies in, as _get_covering_prefixes and
   _find_covering_vrps list them. *)
Ancestors(net) == {[addr |-> Masked(net.addr, n), len |-> n] : n \in 0..net.len}

SubnetOf(net, other) == other \in Ancestors(net)

EffectiveMax(v) == IF v.max \in {None, 0} THEN v.net.len ELSE v.max

(* validate_bgp_announcement, with its reasons. *)
Validation(vrps, ann) ==
  LET matched == {v \in vrps : v.net \in Ancestors(ann.net)}
      live    == {v \in matched : ~v.revoked}
      same    == {v \in live : v.origin = ann.origin}
      Invalid(reason) == [status |-> "invalid", reason |-> reason]
  IN  CASE matched = {} -> [status |-> "not_found", reason |-> None]
        [] \E v \in same : ann.net.len <= EffectiveMax(v) -> [status |-> "valid", reason |-> None]
        [] live = {} -> Invalid("roa_revoked")
        [] live # {} /\ same = {} -> Invalid("origin_as_mismatch")
        [] OTHER -> Invalid("length_exceeded")

(* One table answers all queries about origins. *)
Consistent(s) == s.recent \subseteq s.origins

-----------------------------------------------------------------------------
(* Results.  Only what later steps read is kept of the evidence: status is
   rpki_validation_status, scope propagation_scope, authorized
   authorized_origin_as, mutation and transit the verdicts of those names. *)

Quiet == [detected |-> FALSE, severity |-> "P3", status |-> None, scope |-> 0,
          authorized |-> None, mutation |-> FALSE, transit |-> FALSE]

Severities == {"P0", "P1", "P2", "P3", "P4"}

(* _get_authorized_origin_as: the most common origin of the valid VRPs that are
   no longer than the prefix, wherever they are; equal counts leave the choice
   to the database. *)
AuthorizedOrigins(s, net) ==
  LET votes == {v \in s.vrps : ~v.revoked /\ v.net.len <= net.len}
      Count(a) == Cardinality({v \in votes : v.origin = a})
      all == {v.origin : v \in votes}
  IN  IF all = {} THEN {None} ELSE {a \in all : \A b \in all : Count(b) <= Count(a)}

(* detect_origin_as_hijack: RPKI first, then the authorised origin, then a new
   origin seen by many. *)
Hijack(s, ann) ==
  {LET rpki    == Validation(s.vrps, ann)
       new     == ann.origin \notin s.origins
       invalid == rpki.status = "invalid" /\ rpki.reason \in {"origin_as_mismatch", "length_exceeded"}
       foreign == auth # None /\ ann.origin # auth /\ new
       spread  == new /\ s.scope >= 3
       found   == invalid \/ foreign \/ spread
   IN  [Quiet EXCEPT
          !.detected   = found,
          !.severity   = IF invalid \/ foreign \/ (found /\ s.scope >= 10) THEN "P0"
                         ELSE IF found THEN "P1" ELSE "P3",
          !.status     = rpki.status,
          !.scope      = s.scope,
          !.authorized = auth] : auth \in AuthorizedOrigins(s, ann.net)}

\* Mutant of SubprefixHijack: max_length is compared the wrong way round.
SubprefixHijackReversed(s, ann) ==
  LET parents == {v \in s.vrps : ~v.revoked /\ v.net \in Ancestors(ann.net) \ {ann.net}}
      longest == {v \in parents : \A w \in parents : w.net.len <= v.net.len}
  IN  {[Quiet EXCEPT !.detected = v.origin # ann.origin \/ ann.net.len < EffectiveMax(v)] : v \in longest}
        \union (IF parents = {} THEN {Quiet} ELSE {})

(* detect_subprefix_hijack and _find_covering_vrps: the covering VRPs of other
   prefixes, longest first (equal lengths in any order); the first that forbids
   the announcement decides. *)
SubprefixHijack(s, ann) ==
  LET parents    == {v \in s.vrps : ~v.revoked /\ v.net \in Ancestors(ann.net) \ {ann.net}}
      Foreign(v) == v.origin # ann.origin
      TooLong(v) == ann.net.len > EffectiveMax(v)
      guilty     == {v \in parents : Foreign(v) \/ TooLong(v)}
      first      == {v \in guilty : \A w \in guilty : w.net.len <= v.net.len}
  IN  IF guilty = {} THEN {Quiet}
      ELSE {[Quiet EXCEPT !.detected = TRUE,
                          !.severity = IF Foreign(v) THEN "P0" ELSE "P1"] : v \in first}

-----------------------------------------------------------------------------
(* moas_detector *)

Info(asn) == AsnInfo[asn]
AsnType(asn) == IF Info(asn) = None THEN "unknown" ELSE Info(asn).type
HighRisk(asn) == Info(asn) # None /\ Info(asn).risk = "high_risk"

(* _classify_moas: history first, then the types, then the anycast tag. *)
ClassifyMoas(current, history) ==
  IF current \subseteq history /\ Cardinality(history) >= 2 THEN "authorized_multi_origin"
  ELSE IF \E a \in current : AsnType(a) = "scrubber" THEN "scrubber"
  ELSE IF \A a \in current : AsnType(a) \in {"own", "customer"} THEN "managed"
  ELSE IF \E a \in current : Info(a) # None /\ Info(a).anycast THEN "anycast"
  ELSE "unknown"

(* detect_moas *)
Moas(s, ann) ==
  {IF Cardinality(s.recent) > 1 /\ ClassifyMoas(s.recent, s.origins) = "unknown"
   THEN [Quiet EXCEPT !.detected = TRUE, !.severity = "P2"]
   ELSE Quiet}

-----------------------------------------------------------------------------
(* route_leak_detector: the path is read from the observer to the origin. *)

(* _analyze_path_pattern: the kind of leak at hop i, or None. *)
LeakAt(path, i) ==
  LET left  == AsnType(path[i])
      right == AsnType(path[i + 1])
  IN  CASE left = "customer" /\ right = "provider" -> "customer_to_provider"
        [] left = "provider" /\ right = "customer" /\ i < Len(path) - 1 -> "provider_to_customer"
        [] left = "peer" /\ right = "peer" -> "peer_to_peer"
        [] OTHER -> None

(* detect_route_leak: the first leaking hop decides. *)
RouteLeak(s, ann) ==
  LET hops  == {i \in 1..(Len(ann.path) - 1) : LeakAt(ann.path, i) # None}
      first == CHOOSE i \in hops : \A j \in hops : i <= j
  IN  {IF hops = {} THEN Quiet
       ELSE [Quiet EXCEPT !.detected = TRUE,
                          !.severity = IF LeakAt(ann.path, first) = "peer_to_peer" THEN "P2" ELSE "P1"]}

-----------------------------------------------------------------------------
(* path_anomaly_detector *)

Members(path) == {path[i] : i \in DOMAIN path}

(* _detect_path_mutation *)
PathMutation(path, baseline) ==
  /\ baseline # None
  /\ Cardinality(Members(path) \ Members(baseline)) >= 2
  /\ Cardinality(Members(path)) >= 3

(* _detect_abnormal_transit: a middle hop that is unknown, no transit or risky. *)
AbnormalTransit(path) ==
  \E i \in 2..(Len(path) - 1) :
    Info(path[i]) = None \/ AsnType(path[i]) \in {"ixp", "route_server"} \/ HighRisk(path[i])

(* _detect_path_elongation *)
PathElongation(path, baseline) ==
  /\ baseline # None
  /\ Len(path) >= 5
  /\ Len(path) >= 2 * Len(baseline)

(* _detect_blackhole_risk *)
BlackholeRisk(path) ==
  Len(path) = 1 /\ Info(path[1]) # None /\ Info(path[1]).risk \in {"high_risk", "blackhole"}

(* detect_path_anomaly *)
PathAnomaly(s, ann) ==
  LET mutation  == PathMutation(ann.path, s.baseline)
      transit   == AbnormalTransit(ann.path)
      blackhole == BlackholeRisk(ann.path)
      found     == mutation \/ transit \/ PathElongation(ann.path, s.baseline) \/ blackhole
  IN  {IF ann.path = <<>> THEN Quiet
       ELSE [Quiet EXCEPT
               !.detected = found,
               !.severity = CASE blackhole -> "P1" [] found /\ ~blackhole -> "P2" [] OTHER -> "P3",
               !.mutation = mutation,
               !.transit  = transit]}

-----------------------------------------------------------------------------
(* withdraw_detector and rpki_invalid_detector *)

(* detect_withdraw_flap: many points withdraw, half an event a minute, or
   announcements far beyond withdrawals. *)
WithdrawFlap(s, window) ==
  LET large    == s.withdrawPoints >= 5
      frequent == 2 * (s.withdraws + s.announces) >= window /\ window > 0
      diverges == s.announces >= 10 /\ s.announces > 3 * s.withdraws
  IN  {[Quiet EXCEPT
          !.detected = large \/ frequent \/ diverges,
          !.severity = CASE large \/ frequent -> "P1" [] diverges /\ ~large /\ ~frequent -> "P2"
                         [] OTHER -> "P3"]}

(* detect_rpki_invalid_propagation *)
RpkiInvalid(s) ==
  {[Quiet EXCEPT
      !.detected = s.invalids > 0,
      !.severity = CASE s.invalids >= 10 -> "P0"
                     [] s.invalids \in 5..9 -> "P1"
                     [] s.invalids \in 1..4 -> "P2"
                     [] OTHER -> "P3"]}

RuleTypes == {"hijack", "subprefix_hijack", "moas", "route_leak", "path_anomaly",
              "withdraw_flap", "rpki_invalid"}

(* DETECTOR_MAPPING and _run_special_detector: the results a detector may give.
   Three detectors need an origin. *)
Detect(type, s, ann, window) ==
  CASE type \in {"hijack", "subprefix_hijack", "moas"} /\ ann.origin = None -> {Quiet}
    [] type = "hijack" /\ ann.origin # None -> Hijack(s, ann)
    [] type = "subprefix_hijack" /\ ann.origin # None -> SubprefixHijack(s, ann)
    [] type = "moas" /\ ann.origin # None -> Moas(s, ann)
    [] type = "route_leak" -> RouteLeak(s, ann)
    [] type = "path_anomaly" -> PathAnomaly(s, ann)
    [] type = "withdraw_flap" -> WithdrawFlap(s, window)
    [] type = "rpki_invalid" -> RpkiInvalid(s)

=============================================================================
