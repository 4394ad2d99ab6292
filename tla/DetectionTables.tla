--------------------------- MODULE DetectionTables ---------------------------
(***************************************************************************)
(* The tables the detectors query, and what the detectors say as the       *)
(* tables change: VRPs are published and revoked, announcements and        *)
(* withdrawals of one prefix are stored, time passes.                      *)
(*                                                                         *)
(* Ages are the classes the queries tell apart: an hour, a day, a week,    *)
(* 30 days, older.                                                         *)
(***************************************************************************)
EXTENDS RiskScore

CONSTANTS
  Net,            \* the prefix under observation
  Origins,
  Paths,          \* AS paths of stored announcements, by origin
  Points,         \* observation points
  PossibleVrps,   \* rows of vrps, not revoked
  Probes,         \* announcements the detectors are asked about
  Asset,          \* the row of prefixes for Net
  MaxRows,        \* bound on stored announcements
  MaxWithdraws,   \* bound on stored withdrawals
  MaxVrps         \* bound on VRPs

(* A VRP is stored before it is revoked.  The detectors of hijacks are asked   *)
(* about announcements with an origin; without one they are not run.           *)
ASSUME TablesAssumption ==
  /\ PossibleVrps \subseteq
       [net : [addr : Nat, len : Nat], origin : {v.origin : v \in PossibleVrps},
        max : Nat \union {None}, revoked : {FALSE}]
  /\ \A ann \in Probes : ann.origin # None /\ ann.net.len \in Nat

VARIABLES
  vrps,           \* the VRP table
  announcements,  \* rows of bgp_announcements for Net
  withdraws       \* rows of bgp_withdraws for Net of the last hour

tableVars == <<vrps, announcements, withdraws>>

Ages == 0..4
Hour == 0
Day == 1
Week == 2
Month == 3

TablesInit ==
  /\ vrps = {}
  /\ announcements = {}
  /\ withdraws = {}

Free(rows, max) == {i \in 1..max : \A r \in rows : r.id # i}

(* A collector stores an announcement, with the status it has now. *)
StoreAnnouncement(origin, point) ==
  /\ Free(announcements, MaxRows) # {}
  /\ announcements' = announcements \union
       {[id |-> Min(Free(announcements, MaxRows)), origin |-> origin, point |-> point,
         status |-> Validation(vrps, [net |-> Net, origin |-> origin]).status, age |-> Hour]}
  /\ UNCHANGED <<vrps, withdraws>>

StoreWithdraw(point) ==
  /\ Free(withdraws, MaxWithdraws) # {}
  /\ withdraws' = withdraws \union {[id |-> Min(Free(withdraws, MaxWithdraws)), point |-> point]}
  /\ UNCHANGED <<vrps, announcements>>

PublishVrp(p) ==
  /\ p \in vrps \/ Cardinality(vrps) < MaxVrps
  /\ vrps' = (vrps \ {[p EXCEPT !.revoked = TRUE]}) \union {p}
  /\ UNCHANGED <<announcements, withdraws>>

RevokeVrp(v) ==
  /\ vrps' = (vrps \ {v}) \union {[v EXCEPT !.revoked = TRUE]}
  /\ UNCHANGED <<announcements, withdraws>>

Older(rows) == {[r EXCEPT !.age = IF @ = 4 THEN 4 ELSE @ + 1] : r \in rows}

TimePasses ==
  /\ announcements' = Older(announcements)
  /\ withdraws' = {}
  /\ UNCHANGED vrps

TablesNext ==
  \/ \E o \in Origins, p \in Points : StoreAnnouncement(o, p)
  \/ \E p \in Points : StoreWithdraw(p)
  \/ \E p \in PossibleVrps : PublishVrp(p)
  \/ \E v \in vrps : RevokeVrp(v)
  \/ TimePasses

TablesSpec == TablesInit /\ [][TablesNext]_tableVars

-----------------------------------------------------------------------------
(* The queries. *)

(* _get_historical_origin_asns: 30 days. *)
HistoricalOrigins == {a.origin : a \in {r \in announcements : r.age <= Month}}

(* _get_recent_origin_asns: 60 minutes. *)
RecentOrigins == {a.origin : a \in {r \in announcements : r.age = Hour}}

PointsOf(rows) == {r.point : r \in rows}

(* _count_propagation_scope: no limit of time. *)
PropagationScope(origin) == Cardinality(PointsOf({r \in announcements : r.origin = origin}))

(* _get_baseline_path: the most common path of a week. *)
BaselinePaths ==
  LET rows == {r \in announcements : r.age <= Week}
      paths == {Paths[r.origin] : r \in rows}
      Count(p) == Cardinality({r \in rows : Paths[r.origin] = p})
  IN  IF paths = {} THEN {None} ELSE {p \in paths : \A q \in paths : Count(q) <= Count(p)}

(* detect_rpki_invalid_propagation: points with a stored invalid, 24 hours. *)
InvalidPoints == Cardinality(PointsOf({r \in announcements : r.age <= Day /\ r.status = "invalid"}))

(* _count_withdraws and _count_announcements, a window of 60 minutes. *)
RecentAnnouncements == {r \in announcements : r.age = Hour}

(* What the detectors see for an announcement of Net. *)
Situations(ann) ==
  {[vrps |-> vrps, origins |-> HistoricalOrigins, recent |-> RecentOrigins,
    scope |-> PropagationScope(ann.origin), baseline |-> path, invalids |-> InvalidPoints,
    withdraws |-> Cardinality(withdraws), announces |-> Cardinality(RecentAnnouncements),
    withdrawPoints |-> Cardinality(PointsOf(withdraws)),
    announcePoints |-> Cardinality(PointsOf(RecentAnnouncements))] : path \in BaselinePaths}

-----------------------------------------------------------------------------
(* Properties. *)

Verdicts(type, ann) == UNION {Detect(type, s, ann, 60) : s \in Situations(ann)}

Live == {v \in vrps : ~v.revoked}

Parents(ann) == {v \in Live : SubnetOf(ann.net, v.net) /\ v.net # ann.net}

(* When a single VRP covers an announcement, and covers more than its prefix,
   the subprefix detector (hijack_detector.py) and route origin validation
   (vrp_service.py) judge alike: a hijack is exactly what is invalid. *)
SubprefixAgreesWithRpki ==
  \A ann \in Probes :
    Cardinality(Parents(ann)) = 1 /\ {v \in Live : SubnetOf(ann.net, v.net)} = Parents(ann)
      => \A r \in Verdicts("subprefix_hijack", ann) :
           r.detected = (Validation(vrps, ann).status = "invalid")

(* What the third branch of detect_origin_as_hijack amounts to: the origin is
   new for 30 days and yet three points have seen it, so that every sighting
   that counts is older than 30 days; nothing that just spread is caught. *)
SpreadIsOld ==
  \A ann \in Probes : \A r \in Verdicts("hijack", ann) :
    r.detected /\ r.severity = "P1" =>
      \A a \in announcements : a.origin = ann.origin => a.age > Month

(* What the two hijack detectors say is what the tables support: the announcements
   that are invalid, and origins whose sightings are all old. *)
DetectorsSound == SubprefixAgreesWithRpki /\ SpreadIsOld

Score(ann, result) ==
  Max({TotalScore(s, ann, result, Asset) : s \in Situations(ann)})

(* Publishing or revoking a VRP that makes an announcement invalid never lowers
   its risk, whatever the change does to the authorised origin. *)
RiskFollowsRpki ==
  [][vrps # vrps' => \A ann \in Probes :
       /\ Validation(vrps, ann).status # "invalid"
       /\ Validation(vrps, ann)'.status = "invalid"
       => \A r \in Verdicts("hijack", ann), q \in Verdicts("hijack", ann)' :
            Score(ann, r) <= Score(ann, q)']_tableVars
=============================================================================
