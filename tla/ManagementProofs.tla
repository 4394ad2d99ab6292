---------------------------- MODULE ManagementProofs --------------------------
(***************************************************************************)
(* Theorems about six components of Management, for any values of their    *)
(* constants:                                                              *)
(*  - Sources: rows and tasks agree after a call that ran alone.           *)
(*    TasksFollowRows speaks of sources without a call in progress; IInv   *)
(*    adds what a call that runs alone has done so far (CallOK) and that   *)
(*    no other call is about its source (AloneOnly).                       *)
(*  - ExternalData: FreshInv says of each cached row when and from whom    *)
(*    its fact was heard, and that what a query is about to write is said  *)
(*    at this hour.                                                        *)
(*  - Tenants: SeatsInv counts the members and the requests bound to       *)
(*    insert one together; SeatsBounded speaks of the members alone.       *)
(*  - RequestLimits: RateInv counts, for every moment, the requests let    *)
(*    through since, which must still be among the times kept.             *)
(*  - PrefixAssets: ParentsInv says of what a call has found what          *)
(*    ParentsContain says of rows, since a commit turns one into the other. *)
(*  - Accounts: AccountsInv keeps the rows that sessions and logins are   *)
(*    about.  LockInv bounds the wrong answers since a user was last let    *)
(*    in by the rank of what the logins in progress have loaded             *)
(*    (LockoutBounded).  LocksEnd says that no lock outlasts one made now   *)
(*    (LocksStand).                                                        *)
(***************************************************************************)
EXTENDS FiniteSetTheorems, SequenceTheorems, FunctionTheorems, WellFoundedInduction,
        Management, TLAPS

(* Sequences, entry by entry. *)
LEMMA JoinIs ==
  ASSUME NEW A, NEW u \in Seq(A), NEW w \in Seq(A)
  PROVE  /\ u \o w \in Seq(A) /\ Len(u \o w) = Len(u) + Len(w)
         /\ \A i \in 1 .. Len(u) + Len(w) : (u \o w)[i] = IF i <= Len(u) THEN u[i] ELSE w[i - Len(u)]
OBVIOUS

LEMMA AsFunction ==
  ASSUME NEW A, NEW s \in Seq(A)
  PROVE  s = [i \in 1 .. Len(s) |-> s[i]]
OBVIOUS

Statuses == {"active", "disabled", "error"}
Steps == {"look", "pop", "write", "register", "remove"}
CallType ==
  [op : {"start", "stop", "update", "delete"}, source : 1 .. created, at : Steps,
   loaded : Statuses, status : Statuses, alone : BOOLEAN]

\* The steps that each kind of call may be at.
InPlace(call) ==
  \/ call.op = "start" /\ call.at \in {"write", "register"}
  \/ call.op = "stop" /\ call.at \in {"pop", "write"}
  \/ call.op = "update" /\ call.at = "write"
  \/ call.op = "delete" /\ call.at \in {"look", "pop", "write", "remove"}

TypeOK ==
  /\ created \in Nat
  /\ sources \in [DOMAIN sources -> Statuses]
  /\ DOMAIN sources \subseteq 1 .. created
  /\ running \subseteq 1 .. created
  /\ controls \in [DOMAIN controls -> CallType]
  /\ \A c \in DOMAIN controls : InPlace(controls[c])

AloneOnly ==
  \A c, d \in DOMAIN controls :
    controls[c].alone /\ controls[d].source = controls[c].source => d = c

Healthy(s) == s \in DOMAIN sources /\ sources[s] = "active"
IsRunning(s) == s \in running

(* TasksFollowRows, in these words. *)
RowsAgree ==
  \A s \in (1 .. created) \ unlinked :
    (\A c \in DOMAIN controls : controls[c].source # s) => (Healthy(s) <=> IsRunning(s))

(* What a call that runs alone has done so far to its row and its task. *)
CallOK(call) ==
  LET s == call.source IN
  /\ call.at \in {"look", "pop", "write"} => s \in DOMAIN sources /\ sources[s] = call.loaded
  /\ call.at = "register" => s \in DOMAIN sources /\ sources[s] = "active"
  /\ call.op \in {"stop", "delete"} /\ call.at \in {"write", "remove"} => s \notin running
  /\ call.op = "update" /\ s \notin unlinked => (Healthy(s) <=> IsRunning(s))

CallsOK == \A c \in DOMAIN controls : controls[c].alone => CallOK(controls[c])

IInv == TypeOK /\ AloneOnly /\ CallsOK /\ RowsAgree

-----------------------------------------------------------------------------
(* An entry of the right type keeps a function's type. *)
LEMMA EnteredType ==
  ASSUME NEW T, NEW f, f \in [DOMAIN f -> T], NEW x, NEW y \in T
  PROVE  Entered(f, x, y) \in [DOMAIN Entered(f, x, y) -> T]
  BY DEF Entered

(* The initial states satisfy the invariant. *)
LEMMA InitInv == SourcesInit => IInv
<1> SUFFICES ASSUME SourcesInit PROVE IInv
  OBVIOUS
<1>1. DOMAIN sources = {} /\ DOMAIN controls = {}
  BY DEF SourcesInit
<1>2. sources \in [DOMAIN sources -> Statuses] /\ controls \in [DOMAIN controls -> CallType]
  BY <1>1 DEF SourcesInit
<1> QED
  BY <1>1, <1>2 DEF SourcesInit, IInv, TypeOK, AloneOnly, CallsOK, RowsAgree

(* A call that ends. *)
LEMMA OverFacts ==
  ASSUME TypeOK, NEW c \in DOMAIN controls, Over(c)
  PROVE  /\ DOMAIN controls' = DOMAIN controls \ {c}
         /\ \A d \in DOMAIN controls' : controls'[d] = controls[d]
         /\ controls' \in [DOMAIN controls' -> CallType]
  BY DEF Over, TypeOK

(* A call that goes on. *)
LEMMA GoesToFacts ==
  ASSUME TypeOK, NEW c \in DOMAIN controls, NEW step \in Steps, GoesTo(c, step)
  PROVE  /\ DOMAIN controls' = DOMAIN controls
         /\ \A d \in DOMAIN controls : d # c => controls'[d] = controls[d]
         /\ controls'[c] = [controls[c] EXCEPT !.at = step]
         /\ controls' \in [DOMAIN controls' -> CallType]
  BY DEF GoesTo, TypeOK, CallType

-----------------------------------------------------------------------------
(* A step of one call touches the row, the task and the mark of its source *)
(* only.                                                                   *)
Touches(s) ==
  /\ created' = created
  /\ \A t \in (1 .. created) \ {s} :
       /\ t \in DOMAIN sources' <=> t \in DOMAIN sources
       /\ t \in DOMAIN sources => sources'[t] = sources[t]
       /\ t \in running' <=> t \in running
       /\ t \in unlinked' <=> t \in unlinked

(* A call that ends leaves the invariant, if it marks its source when it   *)
(* overlapped others, and leaves row and task in agreement when it did not *)
(* and the source is unmarked.                                             *)
LEMMA EndStep ==
  ASSUME IInv, NEW c \in DOMAIN controls, Over(c),
         NEW s, s = controls[c].source, Touches(s),
         ~controls[c].alone => s \in unlinked',
         controls[c].alone /\ s \notin unlinked' => (Healthy(s)' <=> IsRunning(s)')
  PROVE  AloneOnly' /\ CallsOK' /\ RowsAgree'
<1>1. /\ DOMAIN controls' = DOMAIN controls \ {c}
      /\ \A d \in DOMAIN controls' : controls'[d] = controls[d]
  BY OverFacts DEF IInv
<1>2. AloneOnly'
  BY <1>1 DEF IInv, AloneOnly
<1>3. \A d \in DOMAIN controls : controls[d] \in CallType
  BY DEF IInv, TypeOK
<1>4. CallsOK'
  <2> SUFFICES ASSUME NEW d \in DOMAIN controls', controls'[d].alone
               PROVE  CallOK(controls[d])'
    BY DEF CallsOK
  <2>1. controls'[d] = controls[d] /\ d \in DOMAIN controls /\ d # c
    BY <1>1
  <2>2. controls[d].source # s /\ CallOK(controls[d])
    BY <2>1 DEF IInv, AloneOnly, CallsOK
  <2>3. controls[d].source \in (1 .. created) \ {s}
    BY <2>1, <2>2, <1>3 DEF CallType
  <2> QED
    BY <2>1, <2>2, <2>3 DEF CallOK, Touches, Healthy, IsRunning
<1>5. RowsAgree'
  <2> SUFFICES ASSUME NEW t \in 1 .. created', t \notin unlinked',
                      \A d \in DOMAIN controls' : controls'[d].source # t
               PROVE  Healthy(t)' <=> IsRunning(t)'
    BY DEF RowsAgree
  <2>1. CASE t = s
    <3>1. controls[c].alone
      BY <2>1
    <3> QED
      BY <2>1, <3>1
  <2>2. CASE t # s
    <3>1. \A d \in DOMAIN controls : controls[d].source # t
      BY <2>2, <1>1
    <3>2. t \in 1 .. created /\ t \notin unlinked
      BY <2>2 DEF Touches
    <3>3. Healthy(t) <=> IsRunning(t)
      BY <3>1, <3>2 DEF IInv, RowsAgree
    <3> QED
      BY <3>2, <3>3, <2>2 DEF Touches, Healthy, IsRunning
  <2> QED
    BY <2>1, <2>2
<1> QED
  BY <1>2, <1>4, <1>5

(* A call that goes on leaves the invariant, if what it has done so far is *)
(* right when it runs alone.                                               *)
LEMMA OnStep ==
  ASSUME IInv, NEW c \in DOMAIN controls, NEW step \in Steps, GoesTo(c, step),
         Touches(controls[c].source), unlinked' = unlinked,
         controls[c].alone => CallOK(controls[c])'
  PROVE  AloneOnly' /\ CallsOK' /\ RowsAgree'
<1> DEFINE s == controls[c].source
<1>1. /\ DOMAIN controls' = DOMAIN controls
      /\ \A d \in DOMAIN controls : d # c => controls'[d] = controls[d]
      /\ controls'[c] = [controls[c] EXCEPT !.at = step]
  BY GoesToFacts DEF IInv
<1>2. \A d \in DOMAIN controls : controls[d] \in CallType
  BY DEF IInv, TypeOK
<1>3. controls'[c].source = s /\ controls'[c].alone = controls[c].alone
  BY <1>1, <1>2 DEF CallType
<1>4. AloneOnly'
  BY <1>1, <1>3 DEF IInv, AloneOnly
<1>5. CallsOK'
  <2> SUFFICES ASSUME NEW d \in DOMAIN controls', controls'[d].alone
               PROVE  CallOK(controls[d])'
    BY DEF CallsOK
  <2>1. CASE d = c
    BY <2>1, <1>3
  <2>2. CASE d # c
    <3>1. controls'[d] = controls[d] /\ d \in DOMAIN controls
      BY <1>1, <2>2
    <3>2. controls[d].source # s /\ CallOK(controls[d])
      BY <2>2, <3>1 DEF IInv, AloneOnly, CallsOK
    <3>3. controls[d].source \in (1 .. created) \ {s}
      BY <3>1, <3>2, <1>2 DEF CallType
    <3> QED
      BY <3>1, <3>2, <3>3 DEF CallOK, Touches, Healthy, IsRunning
  <2> QED
    BY <2>1, <2>2
<1>6. RowsAgree'
  <2> SUFFICES ASSUME NEW t \in 1 .. created', t \notin unlinked',
                      \A d \in DOMAIN controls' : controls'[d].source # t
               PROVE  Healthy(t)' <=> IsRunning(t)'
    BY DEF RowsAgree
  <2>1. \A d \in DOMAIN controls : controls[d].source # t
    BY <1>1, <1>3
  <2>2. t \in (1 .. created) \ {s} /\ t \notin unlinked
    BY <2>1 DEF Touches
  <2>3. Healthy(t) <=> IsRunning(t)
    BY <2>1, <2>2 DEF IInv, RowsAgree
  <2> QED
    BY <2>2, <2>3 DEF Touches, Healthy, IsRunning
<1> QED
  BY <1>4, <1>5, <1>6

-----------------------------------------------------------------------------
(* New data sources: the id is new, so that no call is about it.           *)
LEMMA NewSource ==
  ASSUME IInv, NEW status \in Statuses,
         created' = created + 1, sources' = Entered(sources, created', status),
         UNCHANGED <<running, controls>>,
         \/ status = "disabled" /\ unlinked' = unlinked
         \/ unlinked' = unlinked \cup {created'}
  PROVE  IInv'
<1> DEFINE n == created'
<1>1. created \in Nat /\ n = created + 1 /\ n \notin 1 .. created
      /\ 1 .. n = (1 .. created) \cup {n}
  BY DEF IInv, TypeOK
<1>2. /\ DOMAIN sources' = DOMAIN sources \cup {n}
      /\ sources'[n] = status
      /\ \A t \in DOMAIN sources : t # n => sources'[t] = sources[t]
  BY DEF Entered
<1>3. sources' \in [DOMAIN sources' -> Statuses]
  BY EnteredType DEF IInv, TypeOK
<1>4. \A c \in DOMAIN controls : controls[c] \in CallType /\ controls[c].source \in 1 .. created
  BY DEF IInv, TypeOK, CallType
<1>5. CallType \subseteq CallType'
  BY <1>1 DEF CallType
<1>6. TypeOK'
  <2>1. controls' \in [DOMAIN controls' -> CallType']
    BY <1>5 DEF IInv, TypeOK
  <2>2. created' \in Nat /\ running' \subseteq 1 .. created' /\ DOMAIN sources' \subseteq 1 .. created'
    BY <1>1, <1>2 DEF IInv, TypeOK
  <2>3. \A c \in DOMAIN controls' : InPlace(controls[c])'
    BY DEF IInv, TypeOK, InPlace
  <2> QED
    BY <1>3, <2>1, <2>2, <2>3 DEF TypeOK
<1>7. AloneOnly'
  BY DEF IInv, AloneOnly
<1>8. CallsOK'
  <2> SUFFICES ASSUME NEW c \in DOMAIN controls, controls[c].alone
               PROVE  CallOK(controls[c])'
    BY DEF CallsOK
  <2>1. CallOK(controls[c])
    BY DEF IInv, CallsOK
  <2>2. controls[c].source # n /\ controls[c].source \in 1 .. created
    BY <1>1, <1>4
  <2> QED
    BY <1>2, <2>1, <2>2 DEF CallOK, Healthy, IsRunning
<1>9. RowsAgree'
  <2> SUFFICES ASSUME NEW t \in 1 .. n, t \notin unlinked',
                      \A c \in DOMAIN controls : controls[c].source # t
               PROVE  Healthy(t)' <=> IsRunning(t)'
    BY DEF RowsAgree
  <2>1. CASE t = n
    <3>1. status = "disabled"
      BY <2>1
    <3>2. ~Healthy(t)'
      BY <1>2, <2>1, <3>1 DEF Healthy
    <3>3. t \notin running'
      BY <1>1, <2>1 DEF IInv, TypeOK
    <3> QED
      BY <3>2, <3>3 DEF IsRunning
  <2>2. CASE t # n
    <3>1. t \in 1 .. created /\ t \notin unlinked
      BY <1>1, <2>2
    <3>2. Healthy(t) <=> IsRunning(t)
      BY <3>1 DEF IInv, RowsAgree
    <3> QED
      BY <1>2, <2>2, <3>2 DEF Healthy, IsRunning
  <2> QED
    BY <2>1, <2>2
<1> QED
  BY <1>6, <1>7, <1>8, <1>9 DEF IInv

(* A call begins: alone, or from here on none of its source is alone.      *)
LEMMA BeginInv ==
  ASSUME IInv, NEW c, NEW op \in {"start", "stop", "update", "delete"},
         NEW s, NEW status \in Statuses, Begin(c, op, s, status)
  PROVE  IInv'
<1> DEFINE others == {d \in DOMAIN controls : controls[d].source = s}
           first == CASE op = "stop" -> "pop" [] op = "delete" -> "look" [] OTHER -> "write"
           call == [op |-> op, source |-> s, at |-> first, loaded |-> sources[s],
                    status |-> status, alone |-> others = {}]
           met == [d \in DOMAIN controls |->
                     IF d \in others THEN [controls[d] EXCEPT !.alone = FALSE] ELSE controls[d]]
<1>1. /\ c \notin DOMAIN controls /\ s \in DOMAIN sources
      /\ controls' = Entered(met, c, call)
      /\ UNCHANGED <<sources, created, running, unlinked>>
  BY DEF Begin
<1>2. controls \in [DOMAIN controls -> CallType] /\ s \in 1 .. created /\ sources[s] \in Statuses
  BY <1>1 DEF IInv, TypeOK
<1>3. met \in [DOMAIN controls -> CallType] /\ DOMAIN met = DOMAIN controls
  BY <1>2 DEF CallType
<1>4. first \in Steps /\ call \in CallType
  <2>1. first \in Steps
    BY DEF Steps
  <2> HIDE DEF first, others
  <2> QED
    BY <1>2, <2>1 DEF CallType
<1>5. DOMAIN controls' = DOMAIN controls \cup {c} /\ controls'[c] = call
      /\ \A d \in DOMAIN controls : controls'[d] = met[d]
  <2> HIDE DEF met, call
  <2> QED
    BY <1>1, <1>3 DEF Entered
<1>6. controls' \in [DOMAIN controls' -> CallType]
  <2> HIDE DEF met, call
  <2> QED
    BY <1>1, <1>3, <1>4, EnteredType
<1>7. \A d \in DOMAIN controls :
        /\ controls'[d].source = controls[d].source /\ controls'[d].at = controls[d].at
        /\ controls'[d].op = controls[d].op /\ controls'[d].loaded = controls[d].loaded
        /\ controls'[d].alone <=> controls[d].alone /\ controls[d].source # s
  BY <1>2, <1>5 DEF CallType
<1>8. controls'[c].source = s /\ controls'[c].op = op /\ controls'[c].at = first
      /\ controls'[c].loaded = sources[s] /\ (controls'[c].alone <=> others = {})
  <2> HIDE DEF first, others
  <2>1. controls'[c].source = s /\ controls'[c].op = op /\ controls'[c].at = first
        /\ controls'[c].loaded = sources[s]
    BY <1>5
  <2>2. call.alone = (others = {})
    BY Zenon
  <2>3. controls'[c].alone = call.alone
    <3> HIDE DEF call
    <3> QED
      BY <1>5
  <2> HIDE DEF call
  <2> QED
    BY <2>1, <2>2, <2>3, Zenon
<1>9. TypeOK'
  <2>1. CallType' = CallType
    BY <1>1 DEF CallType
  <2>2. \A d \in DOMAIN controls' : InPlace(controls[d])'
    BY <1>5, <1>7, <1>8 DEF IInv, TypeOK, InPlace
  <2> QED
    BY <1>1, <1>6, <2>1, <2>2 DEF IInv, TypeOK
<1>10. AloneOnly'
  BY <1>5, <1>7, <1>8 DEF IInv, AloneOnly
<1>11. CallsOK'
  <2> SUFFICES ASSUME NEW d \in DOMAIN controls', controls'[d].alone
               PROVE  CallOK(controls[d])'
    BY DEF CallsOK
  <2>1. CASE d = c
    <3>1. s \notin unlinked => (Healthy(s) <=> IsRunning(s))
      BY <1>2, <1>8, <2>1 DEF IInv, RowsAgree
    <3>2. first # "register" /\ first # "remove" /\ (first = "write" => op \notin {"stop", "delete"})
      OBVIOUS
    <3> HIDE DEF first, call, met, others
    <3> QED
      BY <1>1, <1>8, <2>1, <3>1, <3>2 DEF CallOK, Healthy, IsRunning
  <2>2. CASE d # c
    <3>1. d \in DOMAIN controls /\ controls[d].alone
      BY <1>5, <1>7, <2>2
    <3>2. CallOK(controls[d])
      BY <3>1 DEF IInv, CallsOK
    <3> QED
      BY <1>1, <1>7, <3>1, <3>2 DEF CallOK, Healthy, IsRunning
  <2> QED
    BY <2>1, <2>2
<1>12. RowsAgree'
  <2> SUFFICES ASSUME NEW t \in 1 .. created', t \notin unlinked',
                      \A d \in DOMAIN controls' : controls'[d].source # t
               PROVE  Healthy(t)' <=> IsRunning(t)'
    BY DEF RowsAgree
  <2>1. \A d \in DOMAIN controls : controls[d].source # t
    BY <1>5, <1>7
  <2> QED
    BY <1>1, <2>1 DEF IInv, RowsAgree, Healthy, IsRunning
<1> QED
  BY <1>9, <1>10, <1>11, <1>12 DEF IInv

-----------------------------------------------------------------------------
(* Types after a step of a call.                                           *)
LEMMA EndType ==
  ASSUME IInv, NEW c \in DOMAIN controls, Over(c), created' = created,
         sources' \in [DOMAIN sources' -> Statuses],
         DOMAIN sources' \subseteq DOMAIN sources, running' \subseteq 1 .. created
  PROVE  TypeOK'
<1>1. /\ DOMAIN controls' = DOMAIN controls \ {c}
      /\ \A d \in DOMAIN controls' : controls'[d] = controls[d]
      /\ controls' \in [DOMAIN controls' -> CallType]
  BY OverFacts DEF IInv
<1>2. CallType' = CallType
  BY DEF CallType
<1> QED
  BY <1>1, <1>2 DEF IInv, TypeOK, InPlace

LEMMA OnType ==
  ASSUME IInv, NEW c \in DOMAIN controls, NEW step \in Steps, GoesTo(c, step),
         created' = created, sources' \in [DOMAIN sources' -> Statuses],
         DOMAIN sources' \subseteq DOMAIN sources, running' \subseteq 1 .. created,
         InPlace([controls[c] EXCEPT !.at = step])
  PROVE  TypeOK'
<1>1. /\ DOMAIN controls' = DOMAIN controls
      /\ \A d \in DOMAIN controls : d # c => controls'[d] = controls[d]
      /\ controls'[c] = [controls[c] EXCEPT !.at = step]
      /\ controls' \in [DOMAIN controls' -> CallType]
  BY GoesToFacts DEF IInv
<1>2. CallType' = CallType
  BY DEF CallType
<1>3. \A d \in DOMAIN controls' : InPlace(controls[d])'
  <2> SUFFICES ASSUME NEW d \in DOMAIN controls' PROVE InPlace(controls'[d])
    BY DEF InPlace
  <2> QED
    BY <1>1 DEF IInv, TypeOK
<1> QED
  BY <1>1, <1>2, <1>3 DEF IInv, TypeOK

(* What the invariant says of one call. *)
LEMMA CallFacts ==
  ASSUME IInv, NEW c \in DOMAIN controls
  PROVE  /\ controls[c] \in CallType /\ InPlace(controls[c])
         /\ controls[c].source \in 1 .. created
         /\ controls[c].alone \in BOOLEAN
         /\ controls[c].alone => CallOK(controls[c])
         /\ sources \in [DOMAIN sources -> Statuses]
  BY DEF IInv, TypeOK, CallsOK, CallType

LEMMA StartWriteInv == ASSUME IInv, NEW c, StartWrite(c) PROVE IInv'
<1> DEFINE s == controls[c].source
<1>1. c \in DOMAIN controls /\ controls[c].at = "write" /\ controls[c].op = "start"
      /\ UNCHANGED <<created, running>>
  BY DEF StartWrite, At
<1>2. controls[c] \in CallType /\ s \in 1 .. created
      /\ (controls[c].alone => s \in DOMAIN sources) /\ sources \in [DOMAIN sources -> Statuses]
  BY <1>1, CallFacts DEF CallOK
<1>3. CASE s \in DOMAIN sources
  <2>1. sources' = [sources EXCEPT ![s] = "active"] /\ GoesTo(c, "register") /\ unlinked' = unlinked
    BY <1>3 DEF StartWrite
  <2>2. sources' \in [DOMAIN sources' -> Statuses] /\ DOMAIN sources' = DOMAIN sources
    BY <1>2, <2>1 DEF Statuses
  <2>3. /\ controls'[c].source = s /\ controls'[c].at = "register" /\ controls'[c].op = "start"
        /\ InPlace([controls[c] EXCEPT !.at = "register"])
    BY <1>1, <1>2, <2>1, GoesToFacts DEF IInv, InPlace, CallType, Steps
  <2>4. Touches(s)
    BY <1>1, <1>2, <2>1 DEF Touches
  <2>5. CallOK(controls[c])'
    BY <1>2, <1>3, <2>1, <2>2, <2>3 DEF CallOK
  <2>6. TypeOK'
    BY <1>1, <2>1, <2>2, <2>3, OnType DEF Steps, IInv, TypeOK
  <2> QED
    BY <1>1, <2>1, <2>4, <2>5, <2>6, OnStep DEF Steps, IInv
<1>4. CASE s \notin DOMAIN sources
  <2>1. Over(c) /\ unlinked' = unlinked \cup {s} /\ sources' = sources
    BY <1>4 DEF StartWrite
  <2>2. Touches(s)
    BY <1>1, <2>1 DEF Touches
  <2>3. TypeOK'
    BY <1>1, <1>2, <2>1, EndType DEF IInv, TypeOK
  <2> QED
    BY <1>1, <2>1, <2>2, <2>3, EndStep DEF IInv
<1> QED
  BY <1>3, <1>4

LEMMA StartRegisterInv == ASSUME IInv, NEW c, StartRegister(c) PROVE IInv'
<1>0. PICK s : s = controls[c].source
  OBVIOUS
<1>1. /\ c \in DOMAIN controls /\ controls[c].at = "register" /\ Over(c)
      /\ running' = running \cup {s} /\ unlinked' = Linked(c) /\ UNCHANGED <<sources, created>>
  BY <1>0 DEF StartRegister, At
<1>2. s \in 1 .. created /\ (controls[c].alone => Healthy(s)) /\ sources \in [DOMAIN sources -> Statuses]
  BY <1>0, <1>1, CallFacts DEF CallOK, Healthy
<1>3. Touches(s)
  BY <1>0, <1>1 DEF Touches, Linked
<1>4. (~controls[c].alone => s \in unlinked') /\ IsRunning(s)' /\ Healthy(s)' = Healthy(s)
  BY <1>0, <1>1 DEF Linked, IsRunning, Healthy
<1>5. TypeOK'
  BY <1>0, <1>1, <1>2, EndType DEF IInv, TypeOK
<1> QED
  BY <1>0, <1>1, <1>2, <1>3, <1>4, <1>5, EndStep DEF IInv

LEMMA StopPopInv == ASSUME IInv, NEW c, StopPop(c) PROVE IInv'
<1> DEFINE s == controls[c].source
<1>1. /\ c \in DOMAIN controls /\ controls[c].at = "pop" /\ GoesTo(c, "write")
      /\ running' = running \ {s} /\ UNCHANGED <<sources, created, unlinked>>
  BY DEF StopPop, At
<1>2. controls[c] \in CallType /\ InPlace(controls[c]) /\ (controls[c].alone => CallOK(controls[c]))
      /\ sources \in [DOMAIN sources -> Statuses]
  BY <1>1, CallFacts
<1>3. controls'[c] = [controls[c] EXCEPT !.at = "write"]
  BY <1>1, GoesToFacts DEF IInv, Steps
<1>4. /\ controls'[c].source = s /\ controls'[c].at = "write" /\ controls'[c].op = controls[c].op
      /\ controls'[c].loaded = controls[c].loaded /\ controls[c].op \in {"stop", "delete"}
      /\ InPlace([controls[c] EXCEPT !.at = "write"])
  BY <1>1, <1>2, <1>3 DEF InPlace, CallType
<1>5. Touches(s)
  BY <1>1 DEF Touches
<1>6. controls[c].alone => CallOK(controls[c])'
  BY <1>1, <1>2, <1>4 DEF CallOK
<1>7. TypeOK'
  BY <1>1, <1>2, <1>4, OnType DEF Steps, IInv, TypeOK
<1> QED
  BY <1>1, <1>5, <1>6, <1>7, OnStep DEF Steps, IInv

LEMMA StopWriteInv == ASSUME IInv, NEW c, StopWrite(c) PROVE IInv'
<1>0. PICK s : s = controls[c].source
  OBVIOUS
<1> DEFINE changed == controls[c].loaded # "disabled"
           failed == changed /\ s \notin DOMAIN sources
<1>1. /\ c \in DOMAIN controls /\ controls[c].at = "write" /\ controls[c].op \in {"stop", "delete"}
      /\ sources' = IF changed /\ ~failed THEN [sources EXCEPT ![s] = "disabled"] ELSE sources
      /\ UNCHANGED <<created, running>>
  BY <1>0 DEF StopWrite, At
<1>2. controls[c] \in CallType /\ s \in 1 .. created /\ sources \in [DOMAIN sources -> Statuses]
  BY <1>0, <1>1, CallFacts
<1>3. sources' \in [DOMAIN sources' -> Statuses] /\ DOMAIN sources' = DOMAIN sources
  BY <1>1, <1>2 DEF Statuses
<1>4. controls[c].alone => s \in DOMAIN sources /\ s \notin running /\ sources[s] = controls[c].loaded
  BY <1>0, <1>1, CallFacts DEF CallOK
<1>5. controls[c].alone => sources'[s] = "disabled"
  BY <1>1, <1>2, <1>4
<1>6. CASE controls[c].op = "delete" /\ ~failed
  <2>1. GoesTo(c, "remove") /\ unlinked' = unlinked
    BY <1>0, <1>6 DEF StopWrite
  <2>2. controls'[c] = [controls[c] EXCEPT !.at = "remove"]
    BY <1>1, <2>1, GoesToFacts DEF IInv, Steps
  <2>3. /\ controls'[c].source = s /\ controls'[c].at = "remove" /\ controls'[c].op = "delete"
        /\ InPlace([controls[c] EXCEPT !.at = "remove"])
    BY <1>0, <1>2, <1>6, <2>2 DEF InPlace, CallType
  <2>4. Touches(s)
    BY <1>1, <1>2, <2>1 DEF Touches
  <2>5. controls[c].alone => CallOK(controls[c])'
    BY <1>1, <1>4, <2>3 DEF CallOK
  <2>6. TypeOK'
    BY <1>1, <1>3, <2>1, <2>3, OnType DEF Steps, IInv, TypeOK
  <2> QED
    BY <1>0, <1>1, <2>1, <2>4, <2>5, <2>6, OnStep DEF Steps, IInv
<1>7. CASE ~(controls[c].op = "delete" /\ ~failed)
  <2>1. Over(c) /\ unlinked' = Linked(c)
    BY <1>0, <1>7 DEF StopWrite
  <2>2. Touches(s)
    BY <1>0, <1>1, <1>2, <2>1 DEF Touches, Linked
  <2>3. ~controls[c].alone => s \in unlinked'
    BY <1>0, <2>1 DEF Linked
  <2>4. controls[c].alone => (Healthy(s)' <=> IsRunning(s)')
    BY <1>1, <1>4, <1>5 DEF Healthy, IsRunning
  <2>5. TypeOK'
    BY <1>1, <1>3, <2>1, EndType DEF IInv, TypeOK
  <2> QED
    BY <1>0, <1>1, <2>1, <2>2, <2>3, <2>4, <2>5, EndStep DEF IInv
<1> QED
  BY <1>6, <1>7

LEMMA DeleteLookInv == ASSUME IInv, NEW c, DeleteLook(c) PROVE IInv'
<1>0. PICK s : s = controls[c].source
  OBVIOUS
<1>1. PICK step \in {"pop", "remove"} :
        /\ GoesTo(c, step)
        /\ step = "pop" => s \in running /\ s \in DOMAIN sources
        /\ step = "remove" => ~(s \in running /\ s \in DOMAIN sources)
  BY <1>0 DEF DeleteLook
<1>2. /\ c \in DOMAIN controls /\ controls[c].at = "look"
      /\ UNCHANGED <<sources, created, running, unlinked>>
  BY DEF DeleteLook, At
<1>3. controls[c] \in CallType /\ InPlace(controls[c]) /\ (controls[c].alone => CallOK(controls[c]))
      /\ sources \in [DOMAIN sources -> Statuses] /\ step \in Steps
  BY <1>2, CallFacts DEF Steps
<1>4. controls'[c] = [controls[c] EXCEPT !.at = step]
  BY <1>1, <1>2, <1>3, GoesToFacts DEF IInv
<1>5. /\ controls'[c].source = s /\ controls'[c].at = step /\ controls'[c].op = "delete"
      /\ controls'[c].loaded = controls[c].loaded /\ InPlace([controls[c] EXCEPT !.at = step])
  BY <1>0, <1>2, <1>3, <1>4 DEF InPlace, CallType
<1>6. Touches(s)
  BY <1>2 DEF Touches
<1>7. controls[c].alone => CallOK(controls[c])'
  BY <1>0, <1>1, <1>2, <1>3, <1>5 DEF CallOK
<1>8. TypeOK'
  BY <1>1, <1>2, <1>3, <1>5, OnType DEF IInv, TypeOK
<1> QED
  BY <1>0, <1>1, <1>2, <1>3, <1>6, <1>7, <1>8, OnStep DEF IInv

LEMMA DeleteRemoveInv == ASSUME IInv, NEW c, DeleteRemove(c) PROVE IInv'
<1>0. PICK s : s = controls[c].source
  OBVIOUS
<1>1. /\ c \in DOMAIN controls /\ controls[c].at = "remove" /\ Over(c)
      /\ sources' = [t \in DOMAIN sources \ {s} |-> sources[t]]
      /\ unlinked' = Linked(c) /\ UNCHANGED <<created, running>>
  BY <1>0 DEF DeleteRemove, At
<1>2. controls[c] \in CallType /\ InPlace(controls[c]) /\ sources \in [DOMAIN sources -> Statuses]
      /\ (controls[c].alone => CallOK(controls[c]))
  BY <1>1, CallFacts
<1>3. Touches(s)
  <2> SUFFICES ASSUME NEW t \in (1 .. created) \ {s}
               PROVE  /\ t \in DOMAIN sources' <=> t \in DOMAIN sources
                      /\ t \in DOMAIN sources => sources'[t] = sources[t]
                      /\ t \in running' <=> t \in running
                      /\ t \in unlinked' <=> t \in unlinked
    BY <1>1 DEF Touches
  <2> QED
    BY <1>0, <1>1 DEF Linked
<1>4. ~controls[c].alone => s \in unlinked'
  BY <1>0, <1>1 DEF Linked
<1>5. controls[c].alone => ~Healthy(s)' /\ ~IsRunning(s)'
  BY <1>0, <1>1, <1>2 DEF Healthy, IsRunning, CallOK, InPlace
<1>6. TypeOK'
  BY <1>1, <1>2, EndType DEF IInv, TypeOK
<1> QED
  BY <1>0, <1>1, <1>3, <1>4, <1>5, <1>6, EndStep DEF IInv

LEMMA UpdateWriteInv == ASSUME IInv, NEW c, UpdateWrite(c) PROVE IInv'
<1>0. PICK s : s = controls[c].source
  OBVIOUS
<1> DEFINE changed == controls[c].loaded # controls[c].status /\ s \in DOMAIN sources
<1>1. /\ c \in DOMAIN controls /\ controls[c].op = "update" /\ Over(c)
      /\ sources' = IF changed THEN [sources EXCEPT ![s] = controls[c].status] ELSE sources
      /\ unlinked' = IF changed \/ ~controls[c].alone THEN unlinked \cup {s} ELSE unlinked
      /\ UNCHANGED <<created, running>>
  BY <1>0 DEF UpdateWrite, At
<1>2. controls[c] \in CallType /\ sources \in [DOMAIN sources -> Statuses]
      /\ (controls[c].alone => CallOK(controls[c]))
  BY <1>1, CallFacts
<1>3. sources' \in [DOMAIN sources' -> Statuses] /\ DOMAIN sources' = DOMAIN sources
  BY <1>1, <1>2 DEF CallType
<1>4. Touches(s)
  BY <1>1, <1>2 DEF Touches
<1>5. controls[c].alone /\ s \notin unlinked' => (Healthy(s)' <=> IsRunning(s)')
  BY <1>0, <1>1, <1>2 DEF CallOK, Healthy, IsRunning
<1>6. TypeOK'
  BY <1>1, <1>3, EndType DEF IInv, TypeOK
<1> QED
  BY <1>0, <1>1, <1>4, <1>5, <1>6, EndStep DEF IInv

(* A restart leaves no call, and marks every source. *)
LEMMA RestartInv == ASSUME IInv, RestartCollector PROVE IInv'
<1>1. DOMAIN controls' = {} /\ controls' \in [DOMAIN controls' -> CallType']
  BY DEF RestartCollector
<1>2. TypeOK'
  BY <1>1 DEF RestartCollector, IInv, TypeOK
<1> QED
  BY <1>1, <1>2 DEF RestartCollector, IInv, AloneOnly, CallsOK, RowsAgree

-----------------------------------------------------------------------------
LEMMA NextInv == IInv /\ [SourcesNext]_sourceVars => IInv'
<1> SUFFICES ASSUME IInv, [SourcesNext]_sourceVars PROVE IInv'
  OBVIOUS
<1>1. CASE CreateSource
  BY <1>1, NewSource DEF CreateSource, Statuses
<1>2. CASE CollectorSource
  BY <1>2, NewSource DEF CollectorSource, Statuses
<1>3. CASE RestartCollector
  BY <1>3, RestartInv
<1>4. CASE \/ \E s \in DOMAIN sources : CreatePoint(s)
           \/ UNCHANGED sourceVars
  <2>1. UNCHANGED <<sources, created, running, controls, unlinked>>
    BY <1>4 DEF CreatePoint, sourceVars
  <2> QED
    BY <2>1 DEF IInv, TypeOK, CallType, InPlace, AloneOnly, CallsOK, CallOK, RowsAgree,
                Healthy, IsRunning
<1>5. CASE \E c \in Controllers, s \in DOMAIN sources :
             \/ \E op \in {"start", "stop", "delete"} : Begin(c, op, s, sources[s])
             \/ \E status \in {"active", "disabled", "error"} : Begin(c, "update", s, status)
  <2>1. \A s \in DOMAIN sources : sources[s] \in Statuses
    BY DEF IInv, TypeOK
  <2> QED
    BY <1>5, <2>1, BeginInv DEF Statuses
<1>6. CASE \E c \in Controllers :
             \/ StartWrite(c) \/ StartRegister(c) \/ StopPop(c) \/ StopWrite(c)
             \/ DeleteLook(c) \/ DeleteRemove(c) \/ UpdateWrite(c)
  BY <1>6, StartWriteInv, StartRegisterInv, StopPopInv, StopWriteInv, DeleteLookInv,
     DeleteRemoveInv, UpdateWriteInv
<1> QED
  BY <1>1, <1>2, <1>3, <1>4, <1>5, <1>6 DEF SourcesNext

(* The inductive invariant of the data sources: what each call that runs alone
   has done so far, and that row and task agree where no call runs
   (bgp_collector_service.py). *)
THEOREM SourcesInductive == SourcesSpec => []IInv
<1> QED
  BY InitInv, NextInv, PTL DEF SourcesSpec

(* However many data sources and calls there are: a source whose last start or
   stop ran alone, and whose status was not written by hand since, is reported
   active just when it is reported running, until calls for it overlap or the
   process ends (get_data_source_status in bgp_collector_service.py). *)
THEOREM TasksAgree == ManagementSpec => []TasksFollowRows
<1>1. ManagementInit => IInv
  BY InitInv DEF ManagementInit
<1>2. IInv /\ [ManagementNext]_managementVars => IInv'
  <2>1. [ManagementNext]_managementVars => [SourcesNext]_sourceVars
    BY DEF ManagementNext, managementVars
  <2> QED
    BY <2>1, NextInv
<1>3. IInv => TasksFollowRows
  BY DEF IInv, RowsAgree, Healthy, IsRunning, TasksFollowRows, Reported
<1> QED
  BY <1>1, <1>2, <1>3, PTL DEF ManagementSpec
-----------------------------------------------------------------------------
(* The cache of external data.  FactsFresh speaks of rows that have not    *)
(* expired, of a cache in which rows of one key may stand next to each     *)
(* other.  FreshInv adds, of every row, when and by whom its fact was said *)
(* (RowOK), and of a query, that what it is about to write is being said   *)
(* now (QueryOK): the clock moves only between queries.                    *)

RowOK(row) ==
  \E then \in 0 .. hour, site \in Sites :
    row.expires = then + Ttl /\ says[then + 1][site][row.key] = row.fact

QueryOK(query) ==
  /\ query.key \in Keys /\ query.site \in Sites
  /\ query.step \in {"look", "insert", "update"} => query.fact = Now[query.site][query.key]

FreshInv ==
  /\ says \in Seq(Saying) /\ Len(says) \in Nat \ {0}
  /\ \E T : cache \in Seq(T)
  /\ \A i \in DOMAIN cache : RowOK(cache[i])
  /\ DOMAIN queries = Queries
  /\ \A q \in Queries : queries[q] # Nothing => QueryOK(queries[q])

(* Another state of the queries keeps the invariant when each query in it
   is in order. *)
LEMMA QueriesFresh ==
  ASSUME FreshInv, UNCHANGED <<cache, says>>, NEW q \in Queries, NEW query,
         query # Nothing => QueryOK(query), queries' = [queries EXCEPT ![q] = query]
  PROVE  FreshInv'
  BY DEF FreshInv, RowOK, QueryOK, hour, Now

LEMMA ExternalInitInv == ExternalInit => FreshInv
<1> SUFFICES ASSUME ExternalInit PROVE FreshInv
  OBVIOUS
<1>1. PICK saying \in Saying : says = <<saying>>
  BY DEF ExternalInit
<1>2. says \in Seq(Saying) /\ Len(says) = 1
  BY <1>1
<1>3. cache \in Seq({}) /\ DOMAIN cache = {}
  BY DEF ExternalInit
<1> QED
  BY <1>2, <1>3 DEF FreshInv, ExternalInit

LEMMA AskCacheInv ==
  ASSUME FreshInv, NEW q \in Queries, NEW key \in Keys, NEW site \in Sites,
         AskCache(q, key, site)
  PROVE  FreshInv'
<1> DEFINE query == [key |-> key, site |-> site, fact |-> Nothing, row |-> 0, step |-> "ask"]
<1>1. QueryOK(query)
  BY DEF QueryOK
<1>2. UNCHANGED <<cache, says>> /\ queries' = [queries EXCEPT ![q] = query]
  BY DEF AskCache
<1> HIDE DEF query
<1> QED
  BY <1>1, <1>2, QueriesFresh

LEMMA AskSourceInv ==
  ASSUME FreshInv, NEW q \in Queries, NEW fails, AskSource(q, fails)
  PROVE  FreshInv'
<1> DEFINE fact == Now[queries[q].site][queries[q].key]
           query == IF fails \/ fact = Nothing THEN Nothing
                    ELSE [queries[q] EXCEPT !.fact = fact, !.step = "look"]
<1>1. UNCHANGED <<cache, says>> /\ queries' = [queries EXCEPT ![q] = query]
  BY DEF AskSource, FreshInv
<1>2. query # Nothing => QueryOK(query)
  BY DEF AskSource, FreshInv, QueryOK
<1> HIDE DEF query
<1> QED
  BY <1>1, <1>2, QueriesFresh

LEMMA LookForRowInv ==
  ASSUME FreshInv, NEW q \in Queries, LookForRow(q)
  PROVE  FreshInv'
<1> DEFINE rows == RowsOf(queries[q].key)
           query == CASE rows = {} -> [queries[q] EXCEPT !.step = "insert"]
                      [] Cardinality(rows) = 1 ->
                           [queries[q] EXCEPT !.step = "update", !.row = CHOOSE i \in rows : TRUE]
                      [] OTHER -> Nothing
<1>1. UNCHANGED <<cache, says>> /\ queries' = [queries EXCEPT ![q] = query]
  BY DEF LookForRow, FreshInv
<1>2. queries[q] # Nothing /\ queries[q].step = "look" /\ QueryOK(queries[q])
  BY DEF LookForRow, FreshInv
<1>3. query # Nothing => QueryOK(query)
  BY <1>2 DEF QueryOK
<1> HIDE DEF query
<1> QED
  BY <1>1, <1>3, QueriesFresh

(* Of the rows after a write each is the row written or was there before. *)
LEMMA RowsWritten ==
  ASSUME NEW T, NEW rows \in Seq(T), NEW row, NEW k, NEW after,
         after = rows \/ after = Append(rows, row) \/ after = [rows EXCEPT ![k] = row]
  PROVE  /\ after \in Seq(T \cup {row})
         /\ \A i \in DOMAIN after : after[i] = row \/ (i \in DOMAIN rows /\ after[i] = rows[i])
<1>1. rows \in Seq(T \cup {row})
  OBVIOUS
<1>2. CASE after = rows
  BY <1>1, <1>2
<1>3. CASE after = Append(rows, row)
  BY <1>1, <1>3
<1>4. CASE after = [rows EXCEPT ![k] = row]
  <2>1. CASE k \in 1 .. Len(rows)
    BY <1>1, <1>4, <2>1, ExceptSeq
  <2>2. CASE k \notin 1 .. Len(rows)
    <3>1. after = rows
      BY <1>4, <2>2
    <3> QED
      BY <1>1, <3>1
  <2> QED
    BY <2>1, <2>2
<1> QED
  BY <1>2, <1>3, <1>4

LEMMA WriteRowInv ==
  ASSUME FreshInv, NEW q \in Queries, NEW fails, WriteRow(q, fails)
  PROVE  FreshInv'
<1>1. UNCHANGED says /\ queries' = [queries EXCEPT ![q] = Nothing]
  BY DEF WriteRow
<1>2. hour \in Nat /\ hour + 1 = Len(says) /\ UNCHANGED hour
  BY <1>1 DEF hour, FreshInv
<1>3. RowOK(Row(q))
  <2>1. QueryOK(queries[q]) /\ queries[q].step \in {"insert", "update"}
    BY DEF WriteRow, FreshInv
  <2>2. says[hour + 1][queries[q].site][queries[q].key] = queries[q].fact
    BY <2>1, <1>2 DEF QueryOK, Now
  <2> QED
    BY <2>1, <2>2, <1>2 DEF QueryOK, RowOK, Row
<1>4. PICK T : cache \in Seq(T)
  BY DEF FreshInv
<1>5. /\ cache' \in Seq(T \cup {Row(q)})
      /\ \A i \in DOMAIN cache' : cache'[i] = Row(q) \/ (i \in DOMAIN cache /\ cache'[i] = cache[i])
  <2>1. \/ cache' = cache
        \/ cache' = Append(cache, Row(q))
        \/ cache' = [cache EXCEPT ![queries[q].row] = Row(q)]
    BY DEF WriteRow
  <2> QED
    BY <1>4, <2>1, RowsWritten
<1>6. \A i \in DOMAIN cache' : RowOK(cache'[i])
  BY <1>3, <1>5 DEF FreshInv
<1>7. \A i \in DOMAIN cache' : RowOK(cache[i])'
  BY <1>6, <1>1, <1>2 DEF RowOK
<1> QED
  BY <1>1, <1>5, <1>7 DEF FreshInv, QueryOK, Now

LEMMA NextHourInv ==
  ASSUME FreshInv, NextHour
  PROVE  FreshInv'
<1>1. PICK saying \in Saying : says' = Append(says, saying)
  BY DEF NextHour
<1>2. /\ says' \in Seq(Saying) /\ Len(says') = Len(says) + 1
      /\ \A n \in 1 .. Len(says) : says'[n] = says[n]
      /\ hour \in Nat /\ hour' = hour + 1 /\ Len(says) = hour + 1
  BY <1>1 DEF FreshInv, hour
<1>3. UNCHANGED <<cache, queries>> /\ \A q \in Queries : queries[q] = Nothing
  BY DEF NextHour
<1>4. \A i \in DOMAIN cache' : RowOK(cache[i])'
  <2> SUFFICES ASSUME NEW i \in DOMAIN cache PROVE RowOK(cache[i])'
    BY <1>3
  <2>1. PICK then \in 0 .. hour, site \in Sites :
          cache[i].expires = then + Ttl /\ says[then + 1][site][cache[i].key] = cache[i].fact
    BY DEF FreshInv, RowOK
  <2>2. then \in 0 .. hour' /\ then + 1 \in 1 .. Len(says)
    BY <1>2
  <2> QED
    BY <1>2, <1>3, <2>1, <2>2 DEF RowOK
<1> QED
  BY <1>2, <1>3, <1>4 DEF FreshInv

LEMMA ExternalNextInv == FreshInv /\ [ExternalNext]_externalVars => FreshInv'
<1> SUFFICES ASSUME FreshInv, [ExternalNext]_externalVars PROVE FreshInv'
  OBVIOUS
<1>1. CASE UNCHANGED externalVars
  BY <1>1 DEF externalVars, FreshInv, RowOK, QueryOK, hour, Now
<1>2. CASE ExternalNext
  BY <1>2, AskCacheInv, AskSourceInv, LookForRowInv, WriteRowInv, NextHourInv DEF ExternalNext
<1> QED
  BY <1>1, <1>2

(* What is served has not expired, and was said where RowOK says. *)
LEMMA FreshFollows == FreshInv => FactsFresh
<1> SUFFICES ASSUME FreshInv, NEW key \in Keys, NEW fact \in Cached(key)
             PROVE  \E then \in 0 .. hour, site \in Sites :
                      then > hour - Ttl /\ says[then + 1][site][key] = fact
  BY DEF FactsFresh
<1>1. PICK i \in DOMAIN cache :
        cache[i].key = key /\ cache[i].expires > hour /\ fact = cache[i].fact
  BY DEF Cached, RowsOf
<1>2. PICK then \in 0 .. hour, site \in Sites :
        cache[i].expires = then + Ttl /\ says[then + 1][site][key] = fact
  BY <1>1 DEF FreshInv, RowOK
<1>3. hour \in Nat
  BY DEF hour, FreshInv
<1> QED
  BY <1>1, <1>2, <1>3, TtlAssumption

(* However many keys, sites, queries and hours there are, and whatever the
   queries double, overwrite late or lose: what the cache serves was said of
   the key, by one of the sites, within the time an answer is kept for
   (external_info.py). *)
THEOREM FactsAlwaysFresh == ManagementSpec => []FactsFresh
<1>1. ManagementInit => FreshInv
  BY ExternalInitInv DEF ManagementInit
<1>2. FreshInv /\ [ManagementNext]_managementVars => FreshInv'
  <2>1. [ManagementNext]_managementVars => [ExternalNext]_externalVars
    BY DEF ManagementNext, managementVars
  <2> QED
    BY <2>1, ExternalNextInv
<1> QED
  BY <1>1, <1>2, FreshFollows, PTL DEF ManagementSpec
-----------------------------------------------------------------------------
(* Tenants.  SeatsBounded counts the members there are; SeatsInv counts    *)
(* with them the requests that have found room and not inserted yet: one   *)
(* that finds room leaves a seat for each of the others.                   *)

TenantRow == [slug : Slugs, max : Nat]
Adding == [tenant : TenantIds, member : Staff, max : Nat, counted : BOOLEAN]

\* The requests that are about to insert a member of t.
Bound(t) == {a \in Adders : adding[a] # Absent /\ adding[a].counted /\ adding[a].tenant = t}

TenantsType ==
  /\ tenants \in [TenantIds -> {Absent} \cup TenantRow]
  /\ founding \in [Adders -> {Absent} \cup TenantRow]
  /\ DOMAIN members = TenantIds
  /\ \A t \in TenantIds : IsFiniteSet(members[t])
  /\ adding \in [Adders -> {Absent} \cup Adding]
  /\ roof \in [TenantIds -> Nat]

UnderRoof ==
  /\ \A t \in Live : tenants[t].max <= roof[t]
  /\ \A a \in Adders : adding[a] # Absent => adding[a].max <= roof[adding[a].tenant]

SeatsLeft(t) ==
  Cardinality(members[t]) + Cardinality(Bound(t)) <= roof[t] + Cardinality(Adders) - 1

SeatsInv == TenantsType /\ UnderRoof /\ \A t \in TenantIds : SeatsLeft(t)

LEMMA BoundFinite ==
  \A t : /\ IsFiniteSet(Bound(t)) /\ Cardinality(Bound(t)) \in Nat
         /\ Cardinality(Bound(t)) <= Cardinality(Adders)
<1> SUFFICES ASSUME NEW t
             PROVE  /\ IsFiniteSet(Bound(t)) /\ Cardinality(Bound(t)) \in Nat
                    /\ Cardinality(Bound(t)) <= Cardinality(Adders)
  OBVIOUS
<1>1. Bound(t) \subseteq Adders
  BY DEF Bound
<1> QED
  BY <1>1, SeatsAssumption, FS_Subset, FS_CardinalityType

LEMMA AddersCounted == Cardinality(Adders) \in Nat \ {0}
  BY SeatsAssumption, FS_CardinalityType, FS_EmptySet

LEMMA TenantsInitInv == TenantsInit => SeatsInv
<1> SUFFICES ASSUME TenantsInit PROVE SeatsInv
  OBVIOUS
<1>1. TenantsType
  BY FS_EmptySet DEF TenantsInit, TenantsType
<1>2. UnderRoof
  BY DEF TenantsInit, UnderRoof, Live
<1>3. ASSUME NEW t \in TenantIds PROVE SeatsLeft(t)
  <2>1. members[t] = {} /\ Bound(t) = {} /\ roof[t] = 0
    BY DEF TenantsInit, Bound
  <2> QED
    BY <2>1, FS_EmptySet, AddersCounted DEF SeatsLeft
<1> QED
  BY <1>1, <1>2, <1>3 DEF SeatsInv

(* Where the requests that are bound to a tenant are not more, and its members
   not more, a roof that is not lower leaves the bound as it is. *)
LEMMA SeatsKept ==
  ASSUME SeatsInv, TenantsType', NEW t \in TenantIds,
         Bound(t)' \subseteq Bound(t), members'[t] \subseteq members[t], roof'[t] >= roof[t]
  PROVE  SeatsLeft(t)'
<1>1. Cardinality(Bound(t)') <= Cardinality(Bound(t)) /\ Cardinality(Bound(t)') \in Nat
  BY BoundFinite, FS_Subset, FS_CardinalityType
<1>2. /\ Cardinality(members'[t]) <= Cardinality(members[t])
      /\ Cardinality(members'[t]) \in Nat /\ Cardinality(members[t]) \in Nat
  BY FS_Subset, FS_CardinalityType DEF SeatsInv, TenantsType
<1> QED
  BY <1>1, <1>2, BoundFinite, AddersCounted DEF SeatsLeft, SeatsInv, TenantsType

LEMMA BeginCreateTenantInv ==
  ASSUME SeatsInv, NEW a \in Adders, NEW slug \in Slugs, NEW max \in Seats,
         BeginCreateTenant(a, slug, max)
  PROVE  SeatsInv'
<1>1. founding' = [founding EXCEPT ![a] = [slug |-> slug, max |-> max]]
        /\ UNCHANGED <<tenants, members, adding, roof>>
  BY DEF BeginCreateTenant
<1>2. TenantsType'
  BY <1>1, SeatsAssumption DEF SeatsInv, TenantsType, TenantRow
<1> QED
  BY <1>1, <1>2 DEF SeatsInv, UnderRoof, Live, SeatsLeft, Bound

LEMMA CommitCreateTenantInv ==
  ASSUME SeatsInv, NEW a \in Adders, NEW t \in TenantIds, CommitCreateTenant(a, t)
  PROVE  SeatsInv'
<1>1. /\ founding[a] # Absent /\ founding' = [founding EXCEPT ![a] = Absent]
      /\ UNCHANGED <<members, adding>>
      /\ \/ UNCHANGED <<tenants, roof>>
         \/ /\ roof[t] = 0 /\ tenants' = [tenants EXCEPT ![t] = founding[a]]
            /\ roof' = [roof EXCEPT ![t] = founding[a].max]
  BY DEF CommitCreateTenant
<1>2. founding[a] \in TenantRow
  BY <1>1 DEF SeatsInv, TenantsType
<1>3. TenantsType'
  BY <1>1, <1>2 DEF SeatsInv, TenantsType, TenantRow
<1>4. \A u \in TenantIds : roof'[u] >= roof[u]
  BY <1>1, <1>2 DEF SeatsInv, TenantsType, TenantRow
<1>5. UnderRoof'
  BY <1>1, <1>2, <1>4 DEF SeatsInv, TenantsType, TenantRow, Adding, UnderRoof, Live
<1>6. \A u \in TenantIds : SeatsLeft(u)'
  <2> SUFFICES ASSUME NEW u \in TenantIds PROVE SeatsLeft(u)'
    OBVIOUS
  <2>1. Bound(u)' = Bound(u) /\ members'[u] = members[u]
    BY <1>1 DEF Bound
  <2> QED
    BY <2>1, <1>3, <1>4, SeatsKept
<1> QED
  BY <1>3, <1>5, <1>6 DEF SeatsInv

LEMMA UpdateTenantInv ==
  ASSUME SeatsInv, NEW user, NEW t \in TenantIds, NEW max \in Seats, UpdateTenant(user, t, max)
  PROVE  SeatsInv'
<1>1. /\ t \in Live /\ tenants' = [tenants EXCEPT ![t].max = max]
      /\ roof' = [roof EXCEPT ![t] = IF max > @ THEN max ELSE @]
      /\ UNCHANGED <<founding, members, adding>>
  BY DEF UpdateTenant
<1>2. max \in Nat /\ tenants[t] \in TenantRow
  BY <1>1, SeatsAssumption DEF SeatsInv, TenantsType, Live
<1>3. TenantsType'
  BY <1>1, <1>2 DEF SeatsInv, TenantsType, TenantRow
<1>4. \A u \in TenantIds : roof'[u] >= roof[u] /\ (u = t => roof'[u] >= max)
  BY <1>1, <1>2 DEF SeatsInv, TenantsType
<1>5. UnderRoof'
  BY <1>1, <1>2, <1>4 DEF SeatsInv, TenantsType, TenantRow, Adding, UnderRoof, Live
<1>6. \A u \in TenantIds : SeatsLeft(u)'
  <2> SUFFICES ASSUME NEW u \in TenantIds PROVE SeatsLeft(u)'
    OBVIOUS
  <2>1. Bound(u)' = Bound(u) /\ members'[u] = members[u]
    BY <1>1 DEF Bound
  <2> QED
    BY <2>1, <1>3, <1>4, SeatsKept
<1> QED
  BY <1>3, <1>5, <1>6 DEF SeatsInv

(* A step that takes members away, or a whole tenant. *)
LEMMA MembersGoneInv ==
  ASSUME SeatsInv, UNCHANGED <<founding, adding, roof>>,
         NEW t \in TenantIds, NEW left \in SUBSET members[t],
         members' = [members EXCEPT ![t] = left],
         tenants' = tenants \/ tenants' = [tenants EXCEPT ![t] = Absent]
  PROVE  SeatsInv'
<1>1. IsFiniteSet(left)
  BY FS_Subset DEF SeatsInv, TenantsType
<1>2. TenantsType'
  BY <1>1 DEF SeatsInv, TenantsType
<1>3. UnderRoof'
  BY DEF SeatsInv, TenantsType, UnderRoof, Live
<1>4. \A u \in TenantIds : SeatsLeft(u)'
  <2> SUFFICES ASSUME NEW u \in TenantIds PROVE SeatsLeft(u)'
    OBVIOUS
  <2>1. Bound(u)' = Bound(u) /\ members'[u] \subseteq members[u] /\ roof'[u] >= roof[u]
    BY DEF Bound, SeatsInv, TenantsType
  <2> QED
    BY <2>1, <1>2, SeatsKept
<1> QED
  BY <1>2, <1>3, <1>4 DEF SeatsInv

LEMMA BeginAddMemberInv ==
  ASSUME SeatsInv, NEW a \in Adders, NEW user, NEW t \in TenantIds, NEW member \in Staff,
         BeginAddMember(a, user, t, member)
  PROVE  SeatsInv'
<1>1. /\ t \in Live /\ UNCHANGED <<tenants, founding, members, roof>>
      /\ adding' = [adding EXCEPT ![a] =
           [tenant |-> t, member |-> member, max |-> tenants[t].max, counted |-> FALSE]]
  BY DEF BeginAddMember
<1>2. tenants[t] \in TenantRow
  BY <1>1 DEF SeatsInv, TenantsType, Live
<1>3. TenantsType'
  BY <1>1, <1>2 DEF SeatsInv, TenantsType, TenantRow, Adding
<1>4. UnderRoof'
  BY <1>1, <1>2 DEF SeatsInv, TenantsType, TenantRow, Adding, UnderRoof, Live
<1>5. \A u \in TenantIds : SeatsLeft(u)'
  <2> SUFFICES ASSUME NEW u \in TenantIds PROVE SeatsLeft(u)'
    OBVIOUS
  <2>1. Bound(u)' \subseteq Bound(u)
    BY <1>1 DEF Bound, SeatsInv, TenantsType
  <2>2. members'[u] = members[u] /\ roof'[u] >= roof[u]
    BY <1>1 DEF SeatsInv, TenantsType
  <2> QED
    BY <2>1, <2>2, <1>3, SeatsKept
<1> QED
  BY <1>3, <1>4, <1>5 DEF SeatsInv

(* A request finds room where the members are fewer than a limit the tenant
   has had: all the requests there may be fit under the bound then. *)
LEMMA CountMembersInv ==
  ASSUME SeatsInv, NEW a \in Adders, CountMembers(a)
  PROVE  SeatsInv'
<1> DEFINE t == adding[a].tenant
           room == Cardinality(members[t]) < adding[a].max
           request == IF adding[a].member \notin members[t] /\ room
                      THEN [adding[a] EXCEPT !.counted = TRUE] ELSE Absent
<1>1. /\ adding[a] # Absent /\ UNCHANGED <<tenants, founding, members, roof>>
      /\ adding' = [adding EXCEPT ![a] = request]
  BY DEF CountMembers, HasRoom, SeatsInv, TenantsType
<1>2. adding[a] \in Adding /\ adding[a].max <= roof[t] /\ t \in TenantIds
  BY <1>1 DEF SeatsInv, TenantsType, Adding, UnderRoof
<1>3. request = Absent \/ (room /\ request = [adding[a] EXCEPT !.counted = TRUE] /\ request \in Adding)
  BY <1>2 DEF Adding
<1>4. TenantsType'
  <2> HIDE DEF request
  <2> QED
    BY <1>1, <1>3 DEF SeatsInv, TenantsType
<1>5. UnderRoof'
  <2>1. request # Absent => request.tenant = t /\ request.max = adding[a].max
    BY <1>2 DEF Adding
  <2> HIDE DEF request
  <2> QED
    BY <1>1, <1>2, <2>1 DEF SeatsInv, TenantsType, UnderRoof, Live
<1>6. \A u \in TenantIds : SeatsLeft(u)'
  <2> SUFFICES ASSUME NEW u \in TenantIds PROVE SeatsLeft(u)'
    OBVIOUS
  <2>1. members'[u] = members[u] /\ roof'[u] = roof[u] /\ roof[u] \in Nat
    BY <1>1 DEF SeatsInv, TenantsType
  <2>2. CASE u = t /\ room
    <3>1. /\ Cardinality(members[t]) \in Nat /\ adding[a].max \in Nat
          /\ Cardinality(members[t]) + 1 <= roof[t]
      BY <1>2, <2>1, <2>2, FS_CardinalityType DEF SeatsInv, TenantsType, Adding
    <3>2. Bound(u)' \subseteq Adders
      BY DEF Bound
    <3>3. Cardinality(Bound(u)') <= Cardinality(Adders) /\ Cardinality(Bound(u)') \in Nat
      BY <3>2, SeatsAssumption, FS_Subset, FS_CardinalityType
    <3> HIDE DEF t, room
    <3> QED
      BY <2>1, <2>2, <3>1, <3>3, AddersCounted DEF SeatsLeft
  <2>3. CASE ~(u = t /\ room)
    <3>1. request # Absent => u # request.tenant
      BY <1>2, <1>3, <2>3 DEF Adding
    <3> HIDE DEF request
    <3>2. Bound(u)' \subseteq Bound(u)
      BY <1>1, <3>1 DEF Bound, SeatsInv, TenantsType
    <3> QED
      BY <2>1, <3>2, <1>4, SeatsKept
  <2> QED
    BY <2>2, <2>3
<1> QED
  BY <1>4, <1>5, <1>6 DEF SeatsInv

LEMMA InsertMemberInv ==
  ASSUME SeatsInv, NEW a \in Adders, InsertMember(a)
  PROVE  SeatsInv'
<1> DEFINE t == adding[a].tenant
           left == IF t \in Live THEN members[t] \cup {adding[a].member} ELSE members[t]
<1>1. /\ adding[a] # Absent /\ adding[a].counted
      /\ members' = [members EXCEPT ![t] = left]
      /\ adding' = [adding EXCEPT ![a] = Absent] /\ UNCHANGED <<tenants, founding, roof>>
  BY DEF InsertMember, SeatsInv, TenantsType
<1>2. t \in TenantIds
  BY <1>1 DEF SeatsInv, TenantsType, Adding
<1>3. /\ IsFiniteSet(left) /\ Cardinality(left) \in Nat
      /\ Cardinality(left) <= Cardinality(members[t]) + 1 /\ Cardinality(members[t]) \in Nat
  <2>1. IsFiniteSet(members[t]) /\ Cardinality(members[t]) \in Nat
    BY <1>2, FS_CardinalityType DEF SeatsInv, TenantsType
  <2>2. /\ IsFiniteSet(members[t] \cup {adding[a].member})
        /\ \/ Cardinality(members[t] \cup {adding[a].member}) = Cardinality(members[t])
           \/ Cardinality(members[t] \cup {adding[a].member}) = Cardinality(members[t]) + 1
    BY <2>1, FS_AddElement
  <2> QED
    BY <2>1, <2>2
<1> HIDE DEF left
<1>4. TenantsType'
  BY <1>1, <1>3 DEF SeatsInv, TenantsType
<1>5. UnderRoof'
  BY <1>1 DEF SeatsInv, TenantsType, UnderRoof, Live
<1>6. \A u \in TenantIds : SeatsLeft(u)'
  <2> SUFFICES ASSUME NEW u \in TenantIds PROVE SeatsLeft(u)'
    OBVIOUS
  <2>1. CASE u = t
    <3>1. a \in Bound(u) /\ Bound(u)' = Bound(u) \ {a}
      BY <1>1, <2>1 DEF Bound, SeatsInv, TenantsType
    <3>2. Cardinality(Bound(u)') = Cardinality(Bound(u)) - 1
      BY <3>1, BoundFinite, FS_RemoveElement
    <3>3. members'[u] = left /\ roof'[u] = roof[u] /\ roof[u] \in Nat
      BY <1>1, <1>2, <2>1 DEF SeatsInv, TenantsType
    <3>4. Cardinality(left) <= Cardinality(members[u]) + 1 /\ Cardinality(members[u]) \in Nat
      BY <1>3, <2>1
    <3> HIDE DEF t
    <3> QED
      BY <1>3, <3>2, <3>3, <3>4, BoundFinite, AddersCounted DEF SeatsLeft, SeatsInv
  <2>2. CASE u # t
    <3>1. Bound(u)' \subseteq Bound(u) /\ members'[u] \subseteq members[u] /\ roof'[u] >= roof[u]
      BY <1>1, <2>2 DEF Bound, SeatsInv, TenantsType
    <3> QED
      BY <3>1, <1>4, SeatsKept
  <2> QED
    BY <2>1, <2>2
<1> QED
  BY <1>4, <1>5, <1>6 DEF SeatsInv

LEMMA TenantsNextInv == SeatsInv /\ [TenantsNext]_tenantVars => SeatsInv'
<1> SUFFICES ASSUME SeatsInv, [TenantsNext]_tenantVars PROVE SeatsInv'
  OBVIOUS
<1>1. CASE UNCHANGED tenantVars
  BY <1>1 DEF tenantVars, SeatsInv, TenantsType, UnderRoof, Live, SeatsLeft, Bound
<1>2. ASSUME NEW user, NEW t \in TenantIds,
             DeleteTenant(user, t) \/ \E member \in Staff : RemoveMember(user, t, member)
      PROVE  SeatsInv'
  <2>1. CASE DeleteTenant(user, t)
    BY <2>1, MembersGoneInv DEF DeleteTenant
  <2>2. ASSUME NEW member, RemoveMember(user, t, member) PROVE SeatsInv'
    <3>1. members' = [members EXCEPT ![t] = members[t] \ {member}]
            /\ UNCHANGED <<tenants, founding, adding, roof>>
      BY <2>2 DEF RemoveMember, SeatsInv, TenantsType
    <3> QED
      BY <3>1, MembersGoneInv
  <2> QED
    BY <1>2, <2>1, <2>2
<1>3. CASE TenantsNext
  BY <1>2, <1>3, BeginCreateTenantInv, CommitCreateTenantInv, UpdateTenantInv,
     BeginAddMemberInv, CountMembersInv, InsertMemberInv DEF TenantsNext
<1> QED
  BY <1>1, <1>3

LEMMA SeatsFollow == SeatsInv => SeatsBounded
<1> SUFFICES ASSUME SeatsInv, NEW t \in Live
             PROVE  Cardinality(members[t]) <= roof[t] + Cardinality(Adders) - 1
  BY DEF SeatsBounded
<1>1. t \in TenantIds /\ SeatsLeft(t) /\ roof[t] \in Nat /\ Cardinality(members[t]) \in Nat
  BY FS_CardinalityType DEF Live, SeatsInv, TenantsType
<1> QED
  BY <1>1, BoundFinite, AddersCounted DEF SeatsLeft
-----------------------------------------------------------------------------
(* The request limit.  RateHolds counts the requests let through in any    *)
(* stretch of time, of which the middleware keeps no record: RateInv adds  *)
(* that of those in a stretch that is still in the window no more were let *)
(* through than there are times kept.                                      *)

\* The requests of a client let through from one time to another.
Through(list, client, from, to) ==
  {i \in DOMAIN list : list[i][1] = client /\ list[i][2] \in from .. to}
\* The times kept that are not before a time.
KeptSince(times, from) == {j \in DOMAIN times : times[j] >= from}

Ordered(times) == \A i, j \in DOMAIN times : i <= j => times[i] <= times[j]

LimitsType ==
  /\ moment \in Nat
  /\ hits \in [Clients -> Seq(Nat)]
  /\ \A c \in Clients : Ordered(hits[c]) /\ \A i \in DOMAIN hits[c] : hits[c][i] <= moment
  /\ admitted \in Seq(Clients \X Nat)
  /\ \A i \in DOMAIN admitted : admitted[i][2] <= moment

RateKept(c) ==
  \A from \in Int :
    /\ Cardinality(Through(admitted, c, from, from + Window - 1)) <= RateLimit
    /\ from > moment - Window =>
         Cardinality(Through(admitted, c, from, moment)) <= Cardinality(KeptSince(hits[c], from))

RateInv == LimitsType /\ \A c \in Clients : RateKept(c)

LEMMA FirstNumbers ==
  ASSUME NEW n \in Nat
  PROVE  IsFiniteSet(1 .. n) /\ Cardinality(1 .. n) = n
  BY FS_Interval

LEMMA KeptFinite ==
  ASSUME NEW times \in Seq(Nat), NEW from \in Int
  PROVE  /\ IsFiniteSet(KeptSince(times, from)) /\ Cardinality(KeptSince(times, from)) \in Nat
         /\ Cardinality(KeptSince(times, from)) <= Len(times)
<1>1. KeptSince(times, from) \subseteq 1 .. Len(times) /\ Len(times) \in Nat
  BY DEF KeptSince
<1>2. IsFiniteSet(1 .. Len(times)) /\ Cardinality(1 .. Len(times)) = Len(times)
  BY <1>1, FirstNumbers
<1> QED
  BY <1>1, <1>2, FS_Subset, FS_CardinalityType

LEMMA ThroughFinite ==
  ASSUME LimitsType, NEW c, NEW from, NEW to
  PROVE  IsFiniteSet(Through(admitted, c, from, to)) /\ Cardinality(Through(admitted, c, from, to)) \in Nat
<1>1. Through(admitted, c, from, to) \subseteq 1 .. Len(admitted) /\ Len(admitted) \in Nat
  BY DEF Through, LimitsType
<1>2. IsFiniteSet(1 .. Len(admitted))
  BY <1>1, FirstNumbers
<1> QED
  BY <1>1, <1>2, FS_Subset, FS_CardinalityType

(* Of times that are in order the expired ones come first. *)
LEMMA ExpiredFirst ==
  ASSUME NEW times \in Seq(Nat), Ordered(times), NEW limit \in Int
  PROVE  LET expired == {i \in DOMAIN times : times[i] <= limit} IN
         /\ Cardinality(expired) \in Nat /\ Cardinality(expired) <= Len(times)
         /\ expired = 1 .. Cardinality(expired)
<1> DEFINE expired == {i \in DOMAIN times : times[i] <= limit}
           k == Cardinality(expired)
<1>1. expired \subseteq 1 .. Len(times) /\ Len(times) \in Nat
  OBVIOUS
<1>2. IsFiniteSet(expired) /\ k \in Nat /\ k <= Len(times)
  <2>1. IsFiniteSet(1 .. Len(times)) /\ Cardinality(1 .. Len(times)) = Len(times)
    BY <1>1, FirstNumbers
  <2> QED
    BY <1>1, <2>1, FS_Subset, FS_CardinalityType
<1>3. \A i \in expired : i \in 1 .. k
  <2> SUFFICES ASSUME NEW i \in expired PROVE i \in 1 .. k
    OBVIOUS
  <2>1. i \in Nat \ {0} /\ \A j \in 1 .. i : j \in expired
    <3>1. i \in 1 .. Len(times) /\ times[i] <= limit
      OBVIOUS
    <3>2. ASSUME NEW j \in 1 .. i PROVE j \in DOMAIN times /\ times[j] <= limit
      <4>1. j \in DOMAIN times /\ i \in DOMAIN times /\ j <= i
        BY <3>1
      <4>2. times[j] <= times[i] /\ times[j] \in Int /\ times[i] \in Int
        BY <4>1 DEF Ordered
      <4> QED
        BY <3>1, <4>1, <4>2
    <3> QED
      BY <3>1, <3>2
  <2>2. Cardinality(1 .. i) = i
    BY <2>1, FS_Interval
  <2>3. 1 .. i \subseteq expired
    BY <2>1
  <2>4. i <= k
    BY <1>2, <2>2, <2>3, FS_Subset
  <2> QED
    BY <1>2, <2>1, <2>4
<1>4. expired \subseteq 1 .. k
  BY <1>3
<1>5. IsFiniteSet(1 .. k) /\ Cardinality(1 .. k) = k
  BY <1>2, FS_Interval
<1>6. expired = 1 .. k
  BY <1>4, <1>5, FS_Subset
<1> QED
  BY <1>2, <1>6

(* What is left of the times: the same times from some place on, and as many
   as there were since any time in the window. *)
LEMMA RecentKeeps ==
  ASSUME moment \in Nat, NEW times \in Seq(Nat), Ordered(times),
         \A i \in DOMAIN times : times[i] <= moment
  PROVE  /\ Recent(times) \in Seq(Nat) /\ Ordered(Recent(times))
         /\ \A i \in DOMAIN Recent(times) : Recent(times)[i] <= moment
         /\ \A from \in Int : from > moment - Window =>
              Cardinality(KeptSince(times, from)) <= Cardinality(KeptSince(Recent(times), from))
<1> DEFINE expired == {i \in DOMAIN times : times[i] <= moment - Window}
           k == Cardinality(expired)
           rest == SubSeq(times, k + 1, Len(times))
<1>1. moment - Window \in Int /\ Window \in Nat
  BY RateAssumption
<1>2. k \in Nat /\ k <= Len(times) /\ expired = 1 .. k
  BY <1>1, ExpiredFirst
<1>3. Recent(times) = rest
  BY DEF Recent
<1> HIDE DEF k
<1>4. /\ rest \in Seq(Nat) /\ Len(rest) = Len(times) - k
      /\ \A i \in 1 .. Len(rest) : rest[i] = times[k + i]
  <2>1. Len(times) \in Nat /\ k + 1 \in Int /\ \A i \in k + 1 .. Len(times) : times[i] \in Nat
    BY <1>2
  <2>2. /\ rest \in Seq(Nat)
        /\ Len(rest) = IF k + 1 <= Len(times) THEN Len(times) - (k + 1) + 1 ELSE 0
        /\ \A i \in 1 .. Len(times) - (k + 1) + 1 : rest[i] = times[(k + 1) + i - 1]
    BY <2>1, SubSeqProperties
  <2>3. Len(rest) = Len(times) - k
    BY <1>2, <2>1, <2>2
  <2>4. ASSUME NEW i \in 1 .. Len(rest) PROVE rest[i] = times[k + i]
    <3>1. i \in 1 .. Len(times) - (k + 1) + 1 /\ (k + 1) + i - 1 = k + i
      BY <1>2, <2>1, <2>3
    <3> QED
      BY <2>2, <3>1
  <2> QED
    BY <2>2, <2>3, <2>4
<1> HIDE DEF rest
<1>5. \A i \in DOMAIN rest : k + i \in DOMAIN times /\ rest[i] = times[k + i]
  <2>1. DOMAIN rest = 1 .. Len(rest) /\ DOMAIN times = 1 .. Len(times) /\ Len(times) \in Nat
    BY <1>4
  <2> QED
    BY <1>2, <1>4, <2>1
<1>6. Ordered(rest)
  BY <1>2, <1>4, <1>5 DEF Ordered
<1>7. \A i \in DOMAIN rest : rest[i] <= moment
  BY <1>5
<1>8. ASSUME NEW from \in Int, from > moment - Window
      PROVE  Cardinality(KeptSince(times, from)) <= Cardinality(KeptSince(rest, from))
  <2> DEFINE S == KeptSince(times, from)
             T == KeptSince(rest, from)
             f == [j \in S |-> j - k]
  <2>1. \A j \in S : j \in Int /\ j - k \in T
    <3> SUFFICES ASSUME NEW j \in S PROVE j \in Int /\ j - k \in T
      OBVIOUS
    <3>1. j \in 1 .. Len(times) /\ times[j] >= from /\ times[j] \in Nat
      BY DEF KeptSince
    <3>2. j \notin expired
      BY <1>1, <1>8, <3>1
    <3>3. j - k \in 1 .. Len(rest)
      <4>1. j \in Int /\ j >= 1 /\ j <= Len(times) /\ ~(j <= k) /\ Len(times) \in Nat
        BY <1>2, <3>1, <3>2
      <4> QED
        BY <1>2, <1>4, <4>1
    <3>4. rest[j - k] = times[j]
      BY <1>2, <1>4, <3>1, <3>3
    <3> QED
      BY <1>4, <3>1, <3>3, <3>4 DEF KeptSince
  <2>2. f \in Injection(S, T)
    BY <1>2, <2>1 DEF Injection, IsInjective
  <2>3. IsFiniteSet(T)
    BY <1>4, <1>8, KeptFinite
  <2> HIDE DEF S, T, f
  <2>4. Cardinality(S) <= Cardinality(T)
    BY <2>2, <2>3, FS_Injection
  <2> QED
    BY <2>4 DEF S, T
<1> QED
  BY <1>3, <1>4, <1>6, <1>7, <1>8

(* One more time is kept, and counts from itself backwards. *)
LEMMA AppendKeeps ==
  ASSUME moment \in Nat, NEW times \in Seq(Nat), Ordered(times),
         \A i \in DOMAIN times : times[i] <= moment
  PROVE  LET longer == Append(times, moment) IN
         /\ longer \in Seq(Nat) /\ Ordered(longer)
         /\ \A i \in DOMAIN longer : longer[i] <= moment
         /\ \A from \in Int : Cardinality(KeptSince(longer, from)) =
              Cardinality(KeptSince(times, from)) + (IF from <= moment THEN 1 ELSE 0)
<1> DEFINE longer == Append(times, moment)
           n == Len(times)
<1>1. /\ longer \in Seq(Nat) /\ Len(longer) = n + 1 /\ n \in Nat
      /\ \A i \in 1 .. n : longer[i] = times[i]
      /\ longer[n + 1] = moment
  BY AppendProperties
<1> HIDE DEF longer, n
<1>2. \A i \in DOMAIN longer : (i = n + 1 /\ longer[i] = moment) \/ (i \in 1 .. n /\ longer[i] = times[i])
  BY <1>1
<1>3. DOMAIN times = 1 .. n
  BY DEF n
<1>4. \A i \in DOMAIN longer : longer[i] <= moment
  BY <1>2, <1>3
<1>5. Ordered(longer)
  BY <1>1, <1>2, <1>3 DEF Ordered
<1>6. ASSUME NEW from \in Int
      PROVE  Cardinality(KeptSince(longer, from)) =
               Cardinality(KeptSince(times, from)) + (IF from <= moment THEN 1 ELSE 0)
  <2>1. IsFiniteSet(KeptSince(times, from)) /\ Cardinality(KeptSince(times, from)) \in Nat
    BY <1>6, KeptFinite
  <2>2. CASE from <= moment
    <3>1. KeptSince(longer, from) = KeptSince(times, from) \cup {n + 1}
      BY <1>1, <1>2, <1>3, <2>2 DEF KeptSince
    <3>2. n + 1 \notin KeptSince(times, from)
      BY <1>1, <1>3 DEF KeptSince
    <3> QED
      BY <2>1, <2>2, <3>1, <3>2, FS_AddElement
  <2>3. CASE ~(from <= moment)
    <3>1. KeptSince(longer, from) = KeptSince(times, from)
      BY <1>1, <1>2, <1>3, <2>3 DEF KeptSince
    <3> QED
      BY <2>1, <2>3, <3>1
  <2> QED
    BY <2>2, <2>3
<1> QED
  BY <1>1, <1>4, <1>5, <1>6 DEF longer

LEMMA LimitsInitInv == LimitsInit => RateInv
<1> SUFFICES ASSUME LimitsInit PROVE RateInv
  OBVIOUS
<1>1. /\ moment = 0 /\ admitted = <<>> /\ DOMAIN admitted = {}
      /\ hits \in [Clients -> Seq(Nat)] /\ \A c \in Clients : hits[c] = <<>> /\ DOMAIN hits[c] = {}
  BY DEF LimitsInit
<1>2. LimitsType
  BY <1>1 DEF LimitsType, Ordered
<1>3. ASSUME NEW c \in Clients PROVE RateKept(c)
  <2>1. ASSUME NEW from \in Int, NEW to PROVE Cardinality(Through(admitted, c, from, to)) = 0
    <3>1. Through(admitted, c, from, to) = {}
      BY <1>1 DEF Through
    <3> QED
      BY <3>1, FS_EmptySet
  <2>2. ASSUME NEW from \in Int PROVE Cardinality(KeptSince(hits[c], from)) >= 0
    BY <1>1, <2>2, KeptFinite
  <2> QED
    BY <2>1, <2>2, RateAssumption DEF RateKept
<1> QED
  BY <1>2, <1>3 DEF RateInv

(* A request that finds fewer times than the limit: the one let through fits
   into every stretch that ends now or later. *)
LEMMA DispatchInv ==
  ASSUME RateInv, NEW client \in Clients, NEW listed, Dispatch(client, listed)
  PROVE  RateInv'
<1>1. moment \in Nat /\ moment' = moment /\ Window \in Nat /\ RateLimit \in Nat
  BY RateAssumption DEF RateInv, LimitsType, Dispatch
<1>2. CASE client = Exempt
  BY <1>1, <1>2 DEF Dispatch, RateInv, LimitsType, RateKept, Through
<1>3. CASE client # Exempt
  <2> DEFINE times == hits[client]
             recent == Recent(times)
             granted == Len(recent) < RateLimit
             kept == IF granted THEN Append(recent, moment) ELSE recent
             through == granted /\ listed
  <2>1. /\ hits' = [hits EXCEPT ![client] = kept]
        /\ admitted' = IF through THEN Append(admitted, <<client, moment>>) ELSE admitted
    BY <1>3 DEF Dispatch, CheckRate
  <2>2. times \in Seq(Nat) /\ Ordered(times) /\ \A i \in DOMAIN times : times[i] <= moment
    BY DEF RateInv, LimitsType
  <2> HIDE DEF times
  <2>3. /\ recent \in Seq(Nat) /\ Ordered(recent)
        /\ \A i \in DOMAIN recent : recent[i] <= moment
        /\ \A from \in Int : from > moment - Window =>
             Cardinality(KeptSince(times, from)) <= Cardinality(KeptSince(recent, from))
    BY <1>1, <2>2, RecentKeeps
  <2> HIDE DEF recent
  <2>4. /\ kept \in Seq(Nat) /\ Ordered(kept)
        /\ \A i \in DOMAIN kept : kept[i] <= moment
        /\ \A from \in Int : Cardinality(KeptSince(kept, from)) =
             Cardinality(KeptSince(recent, from)) + (IF granted /\ from <= moment THEN 1 ELSE 0)
    <3>1. \A from \in Int : Cardinality(KeptSince(recent, from)) \in Nat
      BY <2>3, KeptFinite
    <3>2. CASE granted
      BY <1>1, <2>3, <3>2, AppendKeeps
    <3>3. CASE ~granted
      BY <2>3, <3>1, <3>3
    <3> QED
      BY <3>2, <3>3
  <2>5. LimitsType'
    <3>1. hits' \in [Clients -> Seq(Nat)] /\ hits'[client] = kept
            /\ \A c \in Clients \ {client} : hits'[c] = hits[c]
      BY <2>1, <2>4 DEF RateInv, LimitsType
    <3>2. admitted' \in Seq(Clients \X Nat) /\ \A i \in DOMAIN admitted' : admitted'[i][2] <= moment
      <4>1. <<client, moment>> \in Clients \X Nat /\ admitted \in Seq(Clients \X Nat)
              /\ \A i \in DOMAIN admitted : admitted[i][2] <= moment
        BY <1>1 DEF RateInv, LimitsType
      <4>2. CASE through
        <5>1. admitted' = Append(admitted, <<client, moment>>)
          BY <2>1, <4>2
        <5>2. /\ admitted' \in Seq(Clients \X Nat) /\ Len(admitted') = Len(admitted) + 1
              /\ \A i \in 1 .. Len(admitted) : admitted'[i] = admitted[i]
              /\ admitted'[Len(admitted) + 1] = <<client, moment>>
          BY <4>1, <5>1, AppendProperties
        <5>3. DOMAIN admitted' = 1 .. Len(admitted) + 1 /\ DOMAIN admitted = 1 .. Len(admitted)
                /\ Len(admitted) \in Nat
          BY <4>1, <5>2
        <5>4. ASSUME NEW i \in DOMAIN admitted' PROVE admitted'[i][2] <= moment
          <6>1. CASE i = Len(admitted) + 1
            <7>1. admitted'[i] = <<client, moment>>
              BY <5>2, <6>1
            <7>2. admitted'[i][2] = moment
              BY <7>1
            <7> QED
              BY <1>1, <7>2
          <6>2. CASE i # Len(admitted) + 1
            BY <4>1, <5>2, <5>3, <6>2
          <6> QED
            BY <6>1, <6>2
        <5> QED
          BY <5>2, <5>4
      <4>3. CASE ~through
        BY <2>1, <4>1, <4>3
      <4> QED
        BY <4>2, <4>3
    <3> HIDE DEF kept
    <3> QED
      BY <1>1, <2>4, <3>1, <3>2 DEF LimitsType, RateInv
  <2>6. ASSUME NEW c \in Clients, NEW from \in Int, NEW to \in Int
        PROVE  Cardinality(Through(admitted', c, from, to)) = Cardinality(Through(admitted, c, from, to)) +
                 (IF c = client /\ through /\ moment \in from .. to THEN 1 ELSE 0)
    <3>1. admitted \in Seq(Clients \X Nat) /\ Len(admitted) \in Nat /\ DOMAIN admitted = 1 .. Len(admitted)
      BY DEF RateInv, LimitsType
    <3>2. IsFiniteSet(Through(admitted, c, from, to)) /\ Cardinality(Through(admitted, c, from, to)) \in Nat
      BY ThroughFinite DEF RateInv
    <3>3. CASE ~through
      <4>1. Through(admitted', c, from, to) = Through(admitted, c, from, to)
        BY <2>1, <3>3 DEF Through
      <4> QED
        BY <3>2, <3>3, <4>1
    <3>4. CASE through
      <4>1. admitted' = Append(admitted, <<client, moment>>) /\ <<client, moment>> \in Clients \X Nat
        BY <1>1, <2>1, <3>4
      <4>2. /\ DOMAIN admitted' = 1 .. Len(admitted) + 1
            /\ \A i \in 1 .. Len(admitted) : admitted'[i] = admitted[i]
            /\ admitted'[Len(admitted) + 1] = <<client, moment>>
        BY <3>1, <4>1, AppendProperties
      <4>3. Len(admitted) + 1 \notin Through(admitted, c, from, to)
        BY <3>1 DEF Through
      <4>4. CASE c = client /\ moment \in from .. to
        <5>1. Through(admitted', c, from, to) = Through(admitted, c, from, to) \cup {Len(admitted) + 1}
          BY <3>1, <4>2, <4>4 DEF Through
        <5> QED
          BY <3>2, <3>4, <4>3, <4>4, <5>1, FS_AddElement
      <4>5. CASE ~(c = client /\ moment \in from .. to)
        <5>1. Through(admitted', c, from, to) = Through(admitted, c, from, to)
          BY <3>1, <4>2, <4>5 DEF Through
        <5> QED
          BY <3>2, <3>4, <4>5, <5>1
      <4> QED
        BY <4>4, <4>5
    <3> QED
      BY <3>3, <3>4
  <2>7. ASSUME NEW c \in Clients PROVE RateKept(c)'
    <3>1. ASSUME NEW from \in Int, NEW to \in Int
          PROVE  Cardinality(Through(admitted, c, from, to)) \in Nat
      BY ThroughFinite DEF RateInv
    <3>2. CASE c # client
      <4>1. hits'[c] = hits[c]
        BY <2>1, <3>2 DEF RateInv, LimitsType
      <4>2. ASSUME NEW from \in Int, NEW to \in Int
            PROVE  Cardinality(Through(admitted', c, from, to)) = Cardinality(Through(admitted, c, from, to))
        BY <2>6, <3>1, <3>2
      <4>3. RateKept(c)
        BY DEF RateInv
      <4>4. ASSUME NEW from \in Int
            PROVE  /\ Cardinality(Through(admitted', c, from, from + Window - 1)) <= RateLimit
                   /\ from > moment - Window =>
                        Cardinality(Through(admitted', c, from, moment)) <= Cardinality(KeptSince(hits[c], from))
        BY <1>1, <4>2, <4>3, <4>4 DEF RateKept
      <4> QED
        BY <1>1, <4>1, <4>4 DEF RateKept, Through
    <3>3. CASE c = client
      <4>1. hits'[c] = kept
        BY <2>1, <3>3 DEF RateInv, LimitsType
      <4> HIDE DEF kept
      <4>2. \A from \in Int : Cardinality(KeptSince(recent, from)) \in Nat
              /\ Cardinality(KeptSince(recent, from)) <= Len(recent)
        BY <2>3, KeptFinite
      <4>3. \A from \in Int : Cardinality(KeptSince(times, from)) \in Nat
        BY <2>2, KeptFinite
      <4>4. \A from \in Int : from > moment - Window =>
              Cardinality(Through(admitted, c, from, moment)) <= Cardinality(KeptSince(recent, from))
        <5>1. \A from \in Int : from > moment - Window =>
                Cardinality(Through(admitted, c, from, moment)) <= Cardinality(KeptSince(times, from))
          BY <3>3 DEF RateInv, RateKept, times
        <5> QED
          BY <1>1, <2>3, <3>1, <4>2, <4>3, <5>1
      <4>5. ASSUME NEW from \in Int, from > moment - Window
            PROVE  Cardinality(Through(admitted', c, from, moment)) <= Cardinality(KeptSince(kept, from))
        <5>1. Cardinality(Through(admitted', c, from, moment)) =
                Cardinality(Through(admitted, c, from, moment)) +
                  (IF through /\ moment \in from .. moment THEN 1 ELSE 0)
          BY <1>1, <2>6, <3>3, <4>5
        <5>2. Cardinality(KeptSince(kept, from)) =
                Cardinality(KeptSince(recent, from)) + (IF granted /\ from <= moment THEN 1 ELSE 0)
          BY <2>4, <4>5
        <5>3. through => granted
          OBVIOUS
        <5>4. Cardinality(Through(admitted, c, from, moment)) <= Cardinality(KeptSince(recent, from))
          BY <4>4, <4>5
        <5>5. /\ Cardinality(Through(admitted, c, from, moment)) \in Nat
              /\ Cardinality(KeptSince(recent, from)) \in Nat
          BY <1>1, <3>1, <4>2, <4>5
        <5> HIDE DEF through, granted
        <5>6. CASE through /\ moment \in from .. moment
          <6>1. granted /\ from <= moment
            BY <1>1, <4>5, <5>3, <5>6
          <6> QED
            BY <5>1, <5>2, <5>4, <5>5, <5>6, <6>1
        <5>7. CASE ~(through /\ moment \in from .. moment)
          <6>1. Cardinality(Through(admitted', c, from, moment)) =
                  Cardinality(Through(admitted, c, from, moment))
            BY <5>1, <5>5, <5>7
          <6>2. Cardinality(KeptSince(kept, from)) >= Cardinality(KeptSince(recent, from))
            BY <5>2, <5>5
          <6>3. Cardinality(KeptSince(kept, from)) \in Nat
            BY <5>2, <5>5
          <6> QED
            BY <5>4, <5>5, <6>1, <6>2, <6>3
        <5> QED
          BY <5>6, <5>7
      <4>6. ASSUME NEW from \in Int
            PROVE  Cardinality(Through(admitted', c, from, from + Window - 1)) <= RateLimit
        <5>1. from + Window - 1 \in Int
                /\ Cardinality(Through(admitted, c, from, from + Window - 1)) <= RateLimit
          BY <1>1 DEF RateInv, RateKept
        <5>2. CASE through /\ moment \in from .. from + Window - 1
          <6>1. from > moment - Window
            BY <1>1, <5>2
          <6>2. Through(admitted, c, from, from + Window - 1) = Through(admitted, c, from, moment)
            <7>1. \A i \in DOMAIN admitted : admitted[i][2] \in Nat /\ admitted[i][2] <= moment
              BY DEF RateInv, LimitsType
            <7> QED
              BY <1>1, <5>2, <7>1 DEF Through
          <6>3. Cardinality(Through(admitted, c, from, moment)) <= Len(recent) /\ Len(recent) < RateLimit
            <7>1. Len(recent) \in Nat
              BY <2>3
            <7>2. /\ Cardinality(Through(admitted, c, from, moment)) <= Cardinality(KeptSince(recent, from))
                  /\ Cardinality(KeptSince(recent, from)) <= Len(recent)
                  /\ Cardinality(KeptSince(recent, from)) \in Nat
                  /\ Cardinality(Through(admitted, c, from, moment)) \in Nat
              BY <1>1, <3>1, <4>2, <4>4, <4>6, <6>1
            <7> QED
              BY <5>2, <7>1, <7>2
          <6>4. Len(recent) \in Nat
            BY <2>3
          <6>5. Cardinality(Through(admitted', c, from, from + Window - 1)) =
                  Cardinality(Through(admitted, c, from, from + Window - 1)) + 1
            BY <2>6, <3>3, <4>6, <5>1, <5>2
          <6>6. Cardinality(Through(admitted, c, from, moment)) \in Nat
            BY <1>1, <3>1, <4>6
          <6> QED
            BY <1>1, <6>2, <6>3, <6>4, <6>5, <6>6
        <5>3. CASE ~(through /\ moment \in from .. from + Window - 1)
          <6>1. Cardinality(Through(admitted', c, from, from + Window - 1)) =
                  Cardinality(Through(admitted, c, from, from + Window - 1)) + 0
            BY <2>6, <4>6, <5>1, <5>3
          <6>2. Cardinality(Through(admitted, c, from, from + Window - 1)) \in Nat
            BY <3>1, <4>6, <5>1
          <6> QED
            BY <5>1, <6>1, <6>2
        <5> QED
          BY <5>2, <5>3
      <4> QED
        BY <1>1, <4>1, <4>5, <4>6 DEF RateKept, Through
    <3> QED
      BY <3>2, <3>3
  <2> QED
    BY <2>5, <2>7 DEF RateInv
<1> QED
  BY <1>2, <1>3

(* As time passes nothing is let through, and a stretch that is in the window
   later is in it now. *)
LEMMA NextMomentInv ==
  ASSUME RateInv, NextMoment
  PROVE  RateInv'
<1>1. moment \in Nat /\ moment' = moment + 1 /\ UNCHANGED <<hits, admitted>> /\ Window \in Nat
  BY RateAssumption DEF RateInv, LimitsType, NextMoment
<1>2. \A i \in DOMAIN admitted : admitted[i][2] \in Nat /\ admitted[i][2] <= moment
  BY DEF RateInv, LimitsType
<1>3. LimitsType'
  <2>1. \A c \in Clients : \A i \in DOMAIN hits[c] : hits[c][i] \in Nat
    BY DEF RateInv, LimitsType
  <2> QED
    BY <1>1, <1>2, <2>1 DEF RateInv, LimitsType
<1>4. ASSUME NEW c \in Clients PROVE RateKept(c)'
  <2>2. \A from \in Int : Through(admitted, c, from, moment + 1) = Through(admitted, c, from, moment)
    BY <1>1, <1>2 DEF Through
  <2>3. \A from \in Int :
          /\ Cardinality(Through(admitted, c, from, from + Window - 1)) <= RateLimit
          /\ from > moment + 1 - Window =>
               Cardinality(Through(admitted, c, from, moment + 1)) <= Cardinality(KeptSince(hits[c], from))
    <3>1. \A from \in Int : from > moment + 1 - Window => from > moment - Window
      BY <1>1
    <3> QED
      BY <2>2, <3>1 DEF RateInv, RateKept
  <2> QED
    BY <1>1, <2>3 DEF RateKept, Through
<1> QED
  BY <1>3, <1>4 DEF RateInv

LEMMA LimitsNextInv == RateInv /\ [LimitsNext]_limitVars => RateInv'
<1> SUFFICES ASSUME RateInv, [LimitsNext]_limitVars PROVE RateInv'
  OBVIOUS
<1>1. CASE UNCHANGED limitVars
  BY <1>1 DEF limitVars, RateInv, LimitsType, RateKept, Through
<1>2. CASE LimitsNext
  BY <1>2, DispatchInv, NextMomentInv DEF LimitsNext
<1> QED
  BY <1>1, <1>2

LEMMA RateFollows == RateInv => RateHolds
<1> SUFFICES ASSUME RateInv, NEW client \in Clients, NEW from \in 0 .. MaxMoment
             PROVE  Cardinality(Through(admitted, client, from, from + Window - 1)) <= RateLimit
  BY DEF RateHolds, Through
<1> QED
  BY DEF RateInv, RateKept

(* For every number of tenants, seats, requests, clients and every rate and
   window: the members of a tenant pass the highest limit it has had by less
   than the number of requests that may add members together, no stretch as
   long as the window lets more requests of a client through than the limit,
   and nothing is served past its time to live (tenant_service.py,
   rate_limit.py, external_info.py). *)
THEOREM LimitsAlwaysHold == ManagementSpec => []WithinLimits
<1>1. ManagementInit => SeatsInv /\ RateInv
  BY TenantsInitInv, LimitsInitInv DEF ManagementInit
<1>2. SeatsInv /\ RateInv /\ [ManagementNext]_managementVars => (SeatsInv /\ RateInv)'
  <2>1. [ManagementNext]_managementVars => [TenantsNext]_tenantVars
    BY DEF ManagementNext, managementVars
  <2>2. [ManagementNext]_managementVars => [LimitsNext]_limitVars
    BY DEF ManagementNext, managementVars
  <2> QED
    BY <2>1, <2>2, TenantsNextInv, LimitsNextInv
<1>3. SeatsInv /\ RateInv => SeatsBounded /\ RateHolds
  BY SeatsFollow, RateFollows
<1>4. SeatsBounded /\ RateHolds /\ FactsFresh => WithinLimits
  BY DEF WithinLimits
<1> QED
  BY <1>1, <1>2, <1>3, <1>4, FactsAlwaysFresh, PTL DEF ManagementSpec

-----------------------------------------------------------------------------
(* Registered prefixes.  A call holds the parent it found while other calls *)
(* commit; FoundFor says of what it found, and of what a row keeps, what   *)
(* ParentsContain says of the rows.  The rows that came later are not among *)
(* those it saw, and those that moved are set aside.                       *)

(* Powers of two count subsets, so that they grow with the exponent.       *)
LEMMA Powers ==
  \A j, k \in Nat : 2^k \in Nat \ {0} /\ (j < k => 2^j < 2^k)
<1>1. \A k \in Nat : /\ IsFiniteSet(SUBSET (1..k)) /\ Cardinality(SUBSET (1..k)) = 2^k
                     /\ 2^k \in Nat \ {0}
  <2> SUFFICES ASSUME NEW k \in Nat
               PROVE  /\ IsFiniteSet(SUBSET (1..k)) /\ Cardinality(SUBSET (1..k)) = 2^k
                      /\ 2^k \in Nat \ {0}
    OBVIOUS
  <2>1. IsFiniteSet(1..k) /\ Cardinality(1..k) = k
    BY FS_Interval
  <2>2. IsFiniteSet(SUBSET (1..k)) /\ Cardinality(SUBSET (1..k)) = 2^k
    BY <2>1, FS_SUBSET
  <2>3. {} \in SUBSET (1..k)
    OBVIOUS
  <2> QED
    BY <2>2, <2>3, FS_CardinalityType, FS_EmptySet
<1>2. ASSUME NEW j \in Nat, NEW k \in Nat, j < k PROVE 2^j < 2^k
  <2>1. SUBSET (1..j) \subseteq SUBSET (1..k) /\ SUBSET (1..j) # SUBSET (1..k)
    <3>1. 1..k \in SUBSET (1..k) /\ 1..k \notin SUBSET (1..j)
      BY <1>2
    <3>2. 1..j \subseteq 1..k
      BY <1>2
    <3> QED
      BY <3>1, <3>2
  <2>2. Cardinality(SUBSET (1..j)) <= Cardinality(SUBSET (1..k))
    BY <1>1, <2>1, FS_Subset
  <2>3. Cardinality(SUBSET (1..j)) # Cardinality(SUBSET (1..k))
    BY <1>1, <2>1, FS_Subset
  <2>4. Cardinality(SUBSET (1..j)) = 2^j /\ Cardinality(SUBSET (1..k)) = 2^k /\ 2^j \in Nat /\ 2^k \in Nat
    BY <1>1
  <2> QED
    BY <2>2, <2>3, <2>4
<1> QED
  BY <1>1, <1>2

LEMMA Division ==
  ASSUME NEW a \in Nat, NEW p \in Nat \ {0}
  PROVE  /\ a \div p \in Nat /\ a % p \in 0 .. (p - 1)
         /\ a = p * (a \div p) + (a % p)
  OBVIOUS

LEMMA Multiple ==
  ASSUME NEW q \in Nat, NEW p \in Nat \ {0}
  PROVE  p * q \in Nat /\ (p * q) % p = 0
  OBVIOUS

LEMMA Cleared ==
  ASSUME NEW a \in Nat, NEW p \in Nat \ {0}
  PROVE  LET c == a - (a % p) IN c \in Nat /\ c - (c % p) = c
<1> DEFINE q == a \div p
<1>1. q \in Nat /\ a % p \in 0 .. (p - 1) /\ a = p * q + (a % p)
  BY Division
<1> HIDE DEF q
<1>2. p * q \in Nat /\ (p * q) % p = 0
  BY <1>1, Multiple
<1>3. a - (a % p) = p * q
  <2>1. \A x, y, z \in Int : x = y + z => x - z = y
    OBVIOUS
  <2>2. a \in Int /\ p * q \in Int /\ a % p \in Int
    BY <1>1, <1>2
  <2> QED
    BY <1>1, <2>1, <2>2
<1> QED
  BY <1>2, <1>3

(* Clearing the host bits twice clears them once.                          *)
Nets == [family : Families, addr : Nat, len : 0 .. AddressBits]

LEMMA NetworkTyped ==
  ASSUME NEW s \in Spelt
  PROVE  Network(s) \in Nets /\ Network(Network(s)) = Network(s)
<1> DEFINE p == 2^(AddressBits - s.len)
           c == s.addr - (s.addr % p)
<1>0. s.addr \in Nat /\ s.len \in 0 .. AddressBits /\ s.family \in Families /\ AddressBits \in Nat
  BY PrefixAssumption DEF Spelt
<1>1. p \in Nat \ {0}
  BY <1>0, Powers
<1>2. c \in Nat /\ c - (c % p) = c
  <2> HIDE DEF p
  <2> QED
    BY <1>0, <1>1, Cleared
<1>3. Network(s) = [s EXCEPT !.addr = c]
  BY DEF Network
<1> HIDE DEF c
<1>4. Network(s).addr = c /\ Network(s).len = s.len /\ Network(s) \in Nets
  BY <1>0, <1>2, <1>3 DEF Spelt, Nets
<1>5. Network(Network(s)) = [Network(s) EXCEPT !.addr = c - (c % p)]
  BY <1>4 DEF Network
<1> HIDE DEF p
<1> QED
  BY <1>2, <1>4, <1>5 DEF Nets

(* A network strictly in another is longer.                                *)
LEMMA StrictlyLonger ==
  ASSUME NEW n \in Nets, NEW m \in Nets, StrictlyIn(n, m)
  PROVE  n.len > m.len
<1> DEFINE b == AddressBits - n.len
           c == AddressBits - m.len
<1>0. b \in Nat /\ c \in Nat /\ n.addr \in Nat /\ m.addr \in Nat /\ n.len \in Nat /\ m.len \in Nat
      /\ AddressBits \in Nat
  BY PrefixAssumption DEF Nets
<1>1. 2^b \in Nat /\ 2^c \in Nat
  BY <1>0, Powers
<1>2. m.addr <= n.addr /\ n.addr + 2^b - 1 <= m.addr + 2^c - 1 /\ n.family = m.family /\ n # m
  BY DEF StrictlyIn, SubnetOf, Broadcast
<1>3. CASE b > c
  <2>1. 2^c < 2^b
    BY <1>0, <1>3, Powers
  <2> HIDE DEF b, c
  <2> QED
    BY <1>0, <1>1, <1>2, <2>1
<1>4. CASE b = c
  <2>1. n.addr = m.addr
    <3> HIDE DEF b, c
    <3> QED
      BY <1>0, <1>1, <1>2, <1>4
  <2>2. n.len = m.len
    BY <1>0, <1>4
  <2> QED
    BY <1>2, <2>1, <2>2 DEF Nets
<1>5. CASE b < c
  BY <1>0, <1>5
<1> QED
  BY <1>0, <1>3, <1>4, <1>5

-----------------------------------------------------------------------------
Ids == 1 .. nextAsset - 1
AssetRow == [prefix : Spelt \cup Nets, parent : Ids \cup {NoParent}, seen : SUBSET Ids]
AssetCall ==
  [row : Ids \cup {0}, net : Nets, old : Spelt \cup Nets, parent : Ids \cup {NoParent},
   loaded : Ids \cup {NoParent}, seen : SUBSET Ids]

AssetsType ==
  /\ nextAsset \in Nat \ {0}
  /\ assets \in [Assets -> AssetRow] /\ Assets \subseteq Ids
  /\ registering \in [DOMAIN registering -> AssetCall]

(* The database keeps parents that exist.                                  *)
ParentsExist == \A a \in Assets : assets[a].parent \in Assets \cup {NoParent}

(* A parent p found for net among the rows seen, that of row itself aside. *)
FoundFor(net, p, seen, row) ==
  p \in Assets \ moved =>
    /\ StrictlyIn(net, NetOf(p))
    /\ \A m \in (Assets \cap seen) \ (moved \cup {row}) :
         ~(StrictlyIn(net, NetOf(m)) /\ StrictlyIn(NetOf(m), NetOf(p)))

RowFound(a) == FoundFor(NetOf(a), assets[a].parent, assets[a].seen, a)

(* A call on a row that none was on together with it finds the row as it   *)
(* was loaded, but for a parent that has gone.                             *)
CallFound(call) ==
  /\ Network(call.net) = call.net
  /\ FoundFor(call.net, call.parent, call.seen, call.row)
  /\ call.row \in Assets \ crossed => assets[call.row].prefix = call.old
  /\ call.row \in Assets \ (handSet \cup crossed) =>
       assets[call.row].parent \in {call.loaded, NoParent}

ParentsInv ==
  /\ AssetsType /\ ParentsExist
  /\ \A a \in Assets \ (handSet \cup crossed) : RowFound(a)
  /\ \A c \in DOMAIN registering : CallFound(registering[c])

LEMMA ParentsFollow == ParentsInv => ParentsContain
<1> SUFFICES ASSUME ParentsInv, NEW a \in Assets \ (handSet \cup crossed),
                    assets[a].parent # NoParent, assets[a].parent \notin moved
             PROVE  /\ StrictlyIn(NetOf(a), NetOf(assets[a].parent))
                    /\ \A m \in (Assets \cap assets[a].seen) \ moved :
                         ~(StrictlyIn(NetOf(a), NetOf(m)) /\ StrictlyIn(NetOf(m), NetOf(assets[a].parent)))
  BY DEF ParentsContain
<1>1. RowFound(a) /\ assets[a].parent \in Assets \ moved
  BY DEF ParentsInv, ParentsExist
<1>2. ~StrictlyIn(NetOf(a), NetOf(a))
  BY DEF StrictlyIn
<1> QED
  BY <1>1, <1>2 DEF RowFound, FoundFor

(* What no step does: give an id again, or another prefix to a row that has *)
(* not moved.                                                              *)
IdsKept ==
  /\ nextAsset' \in Nat /\ nextAsset <= nextAsset' /\ moved \subseteq moved'
  /\ \A a \in Assets' \cap Ids : a \in Assets /\ (a \notin moved' => assets'[a].prefix = assets[a].prefix)

LEMMA FoundStays ==
  ASSUME AssetsType, AssetsType', IdsKept, NEW net, NEW p \in Ids \cup {NoParent}, NEW seen \in SUBSET Ids, NEW row,
         FoundFor(net, p, seen, row)
  PROVE  FoundFor(net, p, seen, row)'
<1> SUFFICES ASSUME p \in Assets' \ moved'
             PROVE  /\ StrictlyIn(net, NetOf(p)')
                    /\ \A m \in (Assets' \cap seen) \ (moved' \cup {row}) :
                         ~(StrictlyIn(net, NetOf(m)') /\ StrictlyIn(NetOf(m)', NetOf(p)'))
  BY DEF FoundFor, StrictlyIn, SubnetOf, Broadcast
<1>1. \A m \in (Assets' \cap Ids) \ moved' : m \in Assets \ moved /\ NetOf(m)' = NetOf(m)
  BY DEF IdsKept, NetOf
<1>2. p \in Ids \/ p = NoParent
  OBVIOUS
<1>3. NoParent \notin Assets'
  BY DEF AssetsType, Ids, NoParent
<1> QED
  BY <1>1, <1>2, <1>3 DEF FoundFor

LEMMA NetsOfRows ==
  ASSUME AssetsType, NEW a \in Assets
  PROVE  NetOf(a) \in Nets /\ NetOf(a).len \in Int
<1>1. ASSUME NEW n \in Nets PROVE Network(n) \in Nets
  <2>1. n.addr \in Nat /\ 2^(AddressBits - n.len) \in Nat \ {0}
    BY Powers, PrefixAssumption DEF Nets
  <2>2. n.addr - (n.addr % 2^(AddressBits - n.len)) \in Nat
    BY <2>1, Cleared
  <2> QED
    BY <2>2 DEF Network, Nets
<1> QED
  BY <1>1, NetworkTyped DEF AssetsType, AssetRow, NetOf, Nets

LEMMA NearestFound ==
  ASSUME AssetsType, NEW net \in Nets, NEW row, NEW self \in SUBSET {row}, NEW p \in Nearest(net, self)
  PROVE  FoundFor(net, p, Assets, row) /\ p \in Ids \cup {NoParent}
<1> DEFINE around == {a \in Assets \ self : StrictlyIn(net, NetOf(a))}
           best == {a \in around : \A b \in around : NetOf(b).len <= NetOf(a).len}
<1>1. CASE best = {}
  <2>1. p = NoParent
    BY <1>1 DEF Nearest
  <2>2. NoParent \notin Assets
    BY DEF AssetsType, Ids, NoParent
  <2> QED
    BY <2>1, <2>2 DEF FoundFor
<1>2. CASE best # {}
  <2>1. p \in best
    BY <1>2 DEF Nearest
  <2>2. ASSUME NEW m \in Assets \ {row}, StrictlyIn(net, NetOf(m)), StrictlyIn(NetOf(m), NetOf(p)) PROVE FALSE
    <3>1. NetOf(m).len <= NetOf(p).len
      BY <2>1, <2>2
    <3>2. NetOf(m).len > NetOf(p).len
      BY <2>1, <2>2, NetsOfRows, StrictlyLonger
    <3> QED
      BY <2>1, <3>1, <3>2, NetsOfRows
  <2> QED
    BY <2>1, <2>2 DEF FoundFor, AssetsType
<1> QED
  BY <1>1, <1>2

LEMMA AssetsInitInv == AssetsInit => ParentsInv
  BY DEF AssetsInit, ParentsInv, AssetsType, ParentsExist, Assets

(* A call that begins changes no row and holds what it found.              *)
LEMMA BeginFound ==
  ASSUME ParentsInv, NEW c, c \notin DOMAIN registering, NEW call \in AssetCall, CallFound(call),
         registering' = Added(registering, c, call),
         UNCHANGED <<assets, nextAsset, moved, handSet, crossed>>
  PROVE  ParentsInv'
<1>1. /\ DOMAIN registering' = DOMAIN registering \cup {c} /\ registering'[c] = call
      /\ \A d \in DOMAIN registering : registering'[d] = registering[d]
      /\ registering' = [d \in DOMAIN registering' |-> registering'[d]]
  BY DEF Added
<1>2. AssetsType'
  <2>1. \A d \in DOMAIN registering' : registering'[d] \in AssetCall
    BY <1>1 DEF ParentsInv, AssetsType
  <2>2. registering' \in [DOMAIN registering' -> AssetCall]
    BY <1>1, <2>1
  <2> QED
    BY <2>2 DEF ParentsInv, AssetsType, Assets, Ids, AssetRow, AssetCall
<1>3. ParentsExist'
  BY DEF ParentsInv, ParentsExist, Assets
<1>4. \A a \in (Assets \ (handSet \cup crossed))' : RowFound(a)'
  BY DEF ParentsInv, RowFound, FoundFor, Assets, NetOf
<1>5. ASSUME NEW d \in DOMAIN registering' PROVE CallFound(registering[d])'
  <2>1. CallFound(registering'[d])
    BY <1>1 DEF ParentsInv
  <2> QED
    BY <2>1 DEF CallFound, FoundFor, Assets, NetOf
<1> QED
  BY <1>2, <1>3, <1>4, <1>5 DEF ParentsInv

LEMMA BeginRegisterInv ==
  ASSUME ParentsInv, NEW c \in Registrars, NEW prefix \in Registered, BeginRegister(c, prefix)
  PROVE  ParentsInv'
<1> DEFINE net == Network(prefix)
<1>1. net \in Nets /\ Network(net) = net
  BY NetworkTyped, AssetsAssumption
<1>2. AssetsType
  BY DEF ParentsInv
<1>3. PICK parent \in Nearest(net, {}) :
        registering' = Added(registering, c,
          [row |-> 0, net |-> net, old |-> net, parent |-> parent, loaded |-> NoParent, seen |-> Assets])
  BY DEF BeginRegister
<1> DEFINE call == [row |-> 0, net |-> net, old |-> net, parent |-> parent, loaded |-> NoParent, seen |-> Assets]
<1>4. FoundFor(net, parent, Assets, 0) /\ parent \in Ids \cup {NoParent}
  BY <1>1, <1>2, NearestFound
<1>5. call \in AssetCall
  BY <1>1, <1>2, <1>4 DEF AssetCall, AssetsType
<1>6. 0 \notin Assets
  BY <1>2 DEF AssetsType, Ids
<1>7. CallFound(call)
  BY <1>1, <1>4, <1>6 DEF CallFound
<1> QED
  BY <1>3, <1>5, <1>7, BeginFound DEF BeginRegister

LEMMA BeginReaddressInv ==
  ASSUME ParentsInv, NEW c \in Registrars, NEW prefix \in Registered, NEW a \in Assets,
         BeginReaddress(c, a, prefix)
  PROVE  ParentsInv'
<1> DEFINE net == Network(prefix)
<1>1. net \in Nets /\ Network(net) = net
  BY NetworkTyped, AssetsAssumption
<1>2. AssetsType
  BY DEF ParentsInv
<1>3. PICK parent \in Nearest(net, {a}) :
        registering' = Added(registering, c,
          [row |-> a, net |-> net, old |-> assets[a].prefix,
           parent |-> parent, loaded |-> assets[a].parent, seen |-> Assets])
  BY DEF BeginReaddress
<1> DEFINE call == [row |-> a, net |-> net, old |-> assets[a].prefix,
                    parent |-> parent, loaded |-> assets[a].parent, seen |-> Assets]
<1>4. FoundFor(net, parent, Assets, a) /\ parent \in Ids \cup {NoParent}
  BY <1>1, <1>2, NearestFound
<1>5. a \in Ids /\ assets[a] \in AssetRow
  BY <1>2 DEF AssetsType
<1>6. call \in AssetCall
  BY <1>1, <1>2, <1>4, <1>5 DEF AssetCall, AssetsType, AssetRow
<1>7. CallFound(call)
  BY <1>1, <1>4 DEF CallFound
<1> QED
  BY <1>3, <1>6, <1>7, BeginFound DEF BeginReaddress

(* Calls in progress, and rows that are not written, through a step that   *)
(* keeps ids and prefixes.                                                 *)
LEMMA CallStays ==
  ASSUME AssetsType, AssetsType', IdsKept, NEW call \in AssetCall, CallFound(call),
         handSet \subseteq handSet', crossed \subseteq crossed',
         call.row \in Assets' \ crossed' => assets'[call.row].prefix = assets[call.row].prefix,
         call.row \in Assets' \ (handSet' \cup crossed') =>
           assets'[call.row].parent \in {assets[call.row].parent, NoParent}
  PROVE  CallFound(call)'
<1>1. call.parent \in Ids \cup {NoParent} /\ call.seen \in SUBSET Ids /\ call.row \in Ids \cup {0}
  BY DEF AssetCall
<1>2. FoundFor(call.net, call.parent, call.seen, call.row)'
  BY <1>1, FoundStays DEF CallFound
<1>3. call.row \in Assets' => call.row \in Assets
  BY <1>1 DEF IdsKept, AssetsType, Ids
<1> QED
  BY <1>2, <1>3 DEF CallFound

LEMMA RowStays ==
  ASSUME AssetsType, AssetsType', IdsKept, NEW a \in Assets, RowFound(a),
         assets'[a].prefix = assets[a].prefix, assets'[a].seen = assets[a].seen,
         assets'[a].parent \in {assets[a].parent, NoParent}
  PROVE  RowFound(a)'
<1>1. assets[a].parent \in Ids \cup {NoParent} /\ assets[a].seen \in SUBSET Ids
  BY DEF AssetsType, AssetRow
<1>2. NoParent \notin Assets'
  BY DEF AssetsType, Ids, NoParent
<1>3. NetOf(a)' = NetOf(a)
  BY DEF NetOf
<1>4. PICK net, p, seen : net = NetOf(a) /\ p = assets[a].parent /\ seen = assets[a].seen
  OBVIOUS
<1>5. FoundFor(net, p, seen, a)'
  BY <1>1, <1>4, FoundStays DEF RowFound
<1> QED
  BY <1>2, <1>3, <1>4, <1>5 DEF RowFound, FoundFor

LEMMA RegisteringStays ==
  ASSUME ParentsInv, AssetsType', IdsKept, handSet \subseteq handSet', crossed \subseteq crossed',
         NEW c \in DOMAIN registering, registering'[c] = registering[c],
         LET row == registering[c].row IN
         /\ row \in Assets' \ crossed' => assets'[row].prefix = assets[row].prefix
         /\ row \in Assets' \ (handSet' \cup crossed') =>
              assets'[row].parent \in {assets[row].parent, NoParent}
  PROVE  CallFound(registering[c])'
<1>1. AssetsType /\ registering[c] \in AssetCall /\ CallFound(registering[c])
  BY DEF ParentsInv, AssetsType
<1>2. PICK call \in AssetCall : call = registering[c] /\ CallFound(call)
  BY <1>1
<1>3. CallFound(call)'
  BY <1>1, <1>2, CallStays
<1> QED
  BY <1>2, <1>3

LEMMA SetParentInv ==
  ASSUME ParentsInv, NEW a \in Assets, NEW parent \in Assets \cup {NoParent}, SetParent(a, parent)
  PROVE  ParentsInv'
<1>1. assets' = [assets EXCEPT ![a].parent = parent] /\ handSet' = handSet \cup {a}
      /\ UNCHANGED <<nextAsset, registering, moved, crossed>>
  BY DEF SetParent
<1>2. AssetsType /\ Assets \subseteq Ids
  BY DEF ParentsInv, AssetsType
<1>3. Assets' = Assets /\ Ids' = Ids
  BY <1>1, <1>2 DEF AssetsType, Assets, Ids
<1>4. \A b \in Assets :
        /\ assets'[b].prefix = assets[b].prefix /\ assets'[b].seen = assets[b].seen
        /\ assets'[b] \in AssetRow /\ assets'[b].parent \in Assets \cup {NoParent}
        /\ b # a => assets'[b] = assets[b]
  BY <1>1, <1>2 DEF AssetsType, AssetRow, ParentsInv, ParentsExist
<1>5. AssetsType'
  <2>1. assets' \in [Assets -> AssetRow]
    BY <1>1, <1>2, <1>4 DEF AssetsType
  <2> QED
    BY <1>1, <1>2, <1>3, <2>1 DEF AssetsType, AssetRow, AssetCall
<1>6. IdsKept
  BY <1>1, <1>2, <1>3, <1>4 DEF IdsKept, AssetsType
<1>7. ParentsExist'
  BY <1>3, <1>4 DEF ParentsExist
<1>8. ASSUME NEW b \in (Assets \ (handSet \cup crossed))' PROVE RowFound(b)'
  <2>1. b \in Assets \ (handSet \cup crossed) /\ b # a
    BY <1>1, <1>3
  <2> QED
    BY <1>2, <1>4, <1>5, <1>6, <2>1, RowStays DEF ParentsInv
<1>9. ASSUME NEW c \in DOMAIN registering' PROVE CallFound(registering[c])'
  BY <1>1, <1>3, <1>4, <1>5, <1>6, RegisteringStays
<1> QED
  BY <1>5, <1>7, <1>8, <1>9 DEF ParentsInv

LEMMA DeletePrefixInv ==
  ASSUME ParentsInv, NEW a \in Assets, DeletePrefix(a)
  PROVE  ParentsInv'
<1>1. /\ assets' = [b \in Assets \ {a} |->
           IF assets[b].parent = a THEN [assets[b] EXCEPT !.parent = NoParent] ELSE assets[b]]
      /\ UNCHANGED <<nextAsset, registering, moved, handSet, crossed>>
  BY DEF DeletePrefix
<1>2. AssetsType /\ Assets \subseteq Ids
  BY DEF ParentsInv, AssetsType
<1>3. Assets' = Assets \ {a} /\ Ids' = Ids
  BY <1>1 DEF Assets, Ids
<1>4. \A b \in Assets' :
        /\ assets'[b].prefix = assets[b].prefix /\ assets'[b].seen = assets[b].seen
        /\ assets'[b] \in AssetRow /\ assets'[b].parent \in (Assets \ {a}) \cup {NoParent}
        /\ assets'[b].parent \in {assets[b].parent, NoParent}
  <2> SUFFICES ASSUME NEW b \in Assets'
               PROVE  /\ assets'[b].prefix = assets[b].prefix /\ assets'[b].seen = assets[b].seen
                      /\ assets'[b] \in AssetRow /\ assets'[b].parent \in (Assets \ {a}) \cup {NoParent}
                      /\ assets'[b].parent \in {assets[b].parent, NoParent}
    OBVIOUS
  <2>1. assets[b] \in AssetRow /\ assets[b].parent \in Assets \cup {NoParent}
    BY <1>2, <1>3 DEF AssetsType, ParentsInv, ParentsExist
  <2> QED
    BY <1>1, <1>3, <2>1 DEF AssetRow
<1>5. AssetsType'
  <2>1. assets' \in [Assets' -> AssetRow]
    BY <1>1, <1>3, <1>4
  <2> QED
    BY <1>1, <1>2, <1>3, <2>1 DEF AssetsType, AssetRow, AssetCall
<1>6. IdsKept
  BY <1>1, <1>2, <1>3, <1>4 DEF IdsKept, AssetsType
<1>7. ParentsExist'
  BY <1>3, <1>4 DEF ParentsExist
<1>8. ASSUME NEW b \in (Assets \ (handSet \cup crossed))' PROVE RowFound(b)'
  <2>1. b \in Assets \ (handSet \cup crossed) /\ b \in Assets'
    BY <1>1, <1>3
  <2> QED
    BY <1>2, <1>4, <1>5, <1>6, <2>1, RowStays DEF ParentsInv
<1>9. ASSUME NEW c \in DOMAIN registering' PROVE CallFound(registering[c])'
  BY <1>1, <1>3, <1>4, <1>5, <1>6, RegisteringStays
<1> QED
  BY <1>5, <1>7, <1>8, <1>9 DEF ParentsInv

(* The places of fresh prefixes among the fresh ones.                      *)
LEMMA Places ==
  ASSUME NEW fresh \in SUBSET DOMAIN Announced, NEW i \in fresh
  PROVE  /\ Cardinality(fresh) \in Nat
         /\ Cardinality({j \in fresh : j < i}) \in 0 .. Cardinality(fresh) - 1
<1>1. fresh \subseteq 1 .. Len(Announced) /\ Len(Announced) \in Nat
  BY AssetsAssumption
<1>2. IsFiniteSet(fresh)
  BY <1>1, FS_Interval, FS_Subset
<1>3. {j \in fresh : j < i} \subseteq fresh /\ i \notin {j \in fresh : j < i}
  BY <1>1
<1> QED
  BY <1>2, <1>3, FS_Subset, FS_CardinalityType

LEMMA GeneratePrefixAssetsInv ==
  ASSUME ParentsInv, GeneratePrefixAssets
  PROVE  ParentsInv'
<1> DEFINE fresh == {i \in DOMAIN Announced : SpeltAs(Announced[i]) = {}}
           id(i) == nextAsset + Cardinality({j \in fresh : j < i})
           new == {id(i) : i \in fresh}
           size == Cardinality(fresh)
           row(a) == [prefix |-> Announced[CHOOSE i \in fresh : id(i) = a], parent |-> NoParent, seen |-> Assets]
<1>1. /\ assets' = [a \in Assets \cup new |-> IF a \in Assets THEN assets[a] ELSE row(a)]
      /\ nextAsset' = nextAsset + size
      /\ fresh # {}
      /\ UNCHANGED <<registering, moved, handSet, crossed>>
  BY DEF GeneratePrefixAssets
<1>2. AssetsType /\ Assets \subseteq Ids /\ nextAsset \in Nat \ {0}
  BY DEF ParentsInv, AssetsType
<1>3. size \in Nat
  BY <1>1, Places
<1>4. \A a \in new : a \in nextAsset .. nextAsset + size - 1
  <2> SUFFICES ASSUME NEW i \in fresh PROVE id(i) \in nextAsset .. nextAsset + size - 1
    OBVIOUS
  <2> DEFINE before == Cardinality({j \in fresh : j < i})
  <2>1. before \in 0 .. size - 1
    BY Places
  <2> HIDE DEF before, size
  <2>2. nextAsset + before \in nextAsset .. nextAsset + size - 1
    BY <1>2, <1>3, <2>1
  <2> QED
    BY <2>2 DEF before
<1>5. ASSUME NEW a \in new PROVE Announced[CHOOSE i \in fresh : id(i) = a] \in Spelt
  <2>1. \E i \in fresh : id(i) = a
    OBVIOUS
  <2>2. (CHOOSE i \in fresh : id(i) = a) \in fresh
    BY <2>1
  <2> QED
    BY <2>2, AssetsAssumption
<1> HIDE DEF new, size, id, row
<1>6. Ids \subseteq Ids' /\ Assets' = Assets \cup new /\ Assets' \subseteq Ids'
  BY <1>1, <1>2, <1>3, <1>4 DEF Ids, Assets
<1>7. \A a \in Assets : assets'[a] = assets[a]
  BY <1>1
<1>8. \A a \in Assets' \cap Ids : a \in Assets
  BY <1>2, <1>4, <1>6 DEF Ids
<1>9. \A a \in Assets' \ Assets : assets'[a].parent = NoParent /\ assets'[a] \in AssetRow'
  <2>1. \A a \in new : row(a) \in AssetRow' /\ row(a).parent = NoParent
    BY <1>2, <1>5, <1>6 DEF AssetRow, row, id
  <2> QED
    BY <1>1, <1>6, <2>1
<1>10. AssetRow \subseteq AssetRow' /\ AssetCall \subseteq AssetCall'
  BY <1>6 DEF AssetRow, AssetCall
<1>11. AssetsType'
  <2>1. \A a \in Assets' : assets'[a] \in AssetRow'
    BY <1>2, <1>7, <1>9, <1>10 DEF AssetsType
  <2>2. assets' \in [Assets' -> AssetRow']
    BY <1>1, <1>6, <2>1
  <2>3. registering' \in [DOMAIN registering' -> AssetCall']
    BY <1>1, <1>2, <1>10 DEF AssetsType
  <2>4. nextAsset' \in Nat \ {0}
    BY <1>1, <1>2, <1>3
  <2> QED
    BY <1>6, <2>2, <2>3, <2>4 DEF AssetsType
<1>12. IdsKept
  BY <1>1, <1>2, <1>3, <1>7, <1>8 DEF IdsKept
<1>13. ParentsExist'
  BY <1>6, <1>7, <1>9 DEF ParentsInv, ParentsExist
<1>14. ASSUME NEW b \in (Assets \ (handSet \cup crossed))' PROVE RowFound(b)'
  <2>1. CASE b \in Assets
    BY <1>1, <1>2, <1>7, <1>11, <1>12, <2>1, RowStays DEF ParentsInv
  <2>2. CASE b \notin Assets
    <3>1. NoParent \notin Assets'
      BY <1>11 DEF AssetsType, Ids, NoParent
    <3> QED
      BY <1>9, <2>2, <3>1 DEF RowFound, FoundFor
  <2> QED
    BY <2>1, <2>2
<1>15. ASSUME NEW c \in DOMAIN registering' PROVE CallFound(registering[c])'
  <2>1. registering[c].row \in Assets' => registering[c].row \in Assets
    <3>1. registering[c].row \in Ids \cup {0}
      BY <1>1, <1>2 DEF AssetsType, AssetCall
    <3>2. 0 \notin Assets'
      BY <1>11 DEF AssetsType, Ids
    <3> QED
      BY <1>8, <3>1, <3>2
  <2> QED
    BY <1>1, <1>7, <1>11, <1>12, <2>1, RegisteringStays
<1> QED
  BY <1>11, <1>13, <1>14, <1>15 DEF ParentsInv

(* A call that ends, and what is left of the others.                       *)
LEMMA CommitFacts ==
  ASSUME ParentsInv, NEW c, CommitPrefix(c)
  PROVE  /\ AssetsType /\ Assets \subseteq Ids
         /\ registering[c] \in AssetCall /\ CallFound(registering[c])
         /\ DOMAIN registering' = DOMAIN registering \ {c}
         /\ \A d \in DOMAIN registering' : registering'[d] = registering[d] /\ registering'[d] \in AssetCall
         /\ registering' \in [DOMAIN registering' -> AssetCall]
         /\ handSet' = handSet
  BY DEF ParentsInv, AssetsType, CommitPrefix, Done

LEMMA CommitRefusedInv ==
  ASSUME ParentsInv, NEW c, CommitPrefix(c), Refused(registering[c])
  PROVE  ParentsInv'
<1>1. UNCHANGED <<assets, nextAsset, moved, crossed, handSet>>
  BY DEF CommitPrefix
<1>2. AssetsType'
  BY <1>1, CommitFacts DEF AssetsType, Assets, Ids, AssetRow, AssetCall
<1>3. IdsKept
  <2>1. AssetsType
    BY DEF ParentsInv
  <2>2. nextAsset \in Nat /\ nextAsset' = nextAsset
    BY <1>1, <2>1 DEF AssetsType
  <2>3. moved' = moved /\ \A b \in Assets' : b \in Assets /\ assets'[b] = assets[b]
    BY <1>1 DEF Assets
  <2> QED
    BY <2>2, <2>3 DEF IdsKept
<1>4. ParentsExist'
  BY <1>1 DEF ParentsInv, ParentsExist, Assets
<1>5. ASSUME NEW b \in (Assets \ (handSet \cup crossed))' PROVE RowFound(b)'
  BY <1>1, <1>2, <1>3, CommitFacts, RowStays DEF ParentsInv, Assets
<1>6. ASSUME NEW d \in DOMAIN registering' PROVE CallFound(registering[d])'
  <2>1. d \in DOMAIN registering /\ registering'[d] = registering[d]
    BY CommitFacts
  <2> QED
    BY <1>1, <1>2, <1>3, <2>1, RegisteringStays
<1> QED
  BY <1>2, <1>4, <1>5, <1>6 DEF ParentsInv

LEMMA CommitInsertInv ==
  ASSUME ParentsInv, NEW c, CommitPrefix(c), ~Refused(registering[c]), registering[c].row = 0
  PROVE  ParentsInv'
<1>1. PICK call \in AssetCall : call = registering[c] /\ CallFound(call)
  BY CommitFacts
<1>2. PICK n : n = nextAsset
  OBVIOUS
<1>3. /\ assets' = Added(assets, n, [prefix |-> call.net, parent |-> call.parent, seen |-> call.seen])
      /\ nextAsset' = nextAsset + 1
      /\ UNCHANGED <<moved, crossed, handSet>>
  BY <1>1, <1>2 DEF CommitPrefix
<1>4. n \in Nat \ {0} /\ n \notin Ids /\ Assets \subseteq Ids /\ AssetsType
  <2>1. AssetsType
    BY DEF ParentsInv
  <2>2. n \in Nat \ {0} /\ Assets \subseteq Ids
    BY <1>2, <2>1 DEF AssetsType
  <2>3. n \notin Ids
    BY <1>2, <2>2 DEF Ids
  <2> QED
    BY <2>1, <2>2, <2>3
<1>5. /\ Ids' = Ids \cup {n} /\ Assets' = Assets \cup {n}
      /\ \A b \in Assets : assets'[b] = assets[b]
      /\ assets'[n] = [prefix |-> call.net, parent |-> call.parent, seen |-> call.seen]
  <2>1. Ids' = Ids \cup {n}
    BY <1>2, <1>3, <1>4 DEF Ids
  <2>2. n \notin Assets
    BY <1>4
  <2> QED
    BY <1>3, <2>1, <2>2 DEF Added, Assets
<1>6. call.net \in Nets /\ call.parent \in Ids \cup {NoParent} /\ call.seen \in SUBSET Ids
  BY DEF AssetCall
<1>7. AssetRow \subseteq AssetRow' /\ AssetCall \subseteq AssetCall'
  BY <1>5 DEF AssetRow, AssetCall
<1>8. AssetsType'
  <2>1. assets'[n] \in AssetRow'
    BY <1>5, <1>6 DEF AssetRow
  <2>2. \A b \in Assets' : assets'[b] \in AssetRow'
    BY <1>4, <1>5, <1>7, <2>1 DEF AssetsType
  <2>3. assets' \in [Assets' -> AssetRow']
    BY <1>3, <2>2 DEF Added, Assets
  <2>4. registering' \in [DOMAIN registering' -> AssetCall']
    BY <1>7, CommitFacts
  <2>5. nextAsset' \in Nat \ {0}
    BY <1>2, <1>3, <1>4
  <2> QED
    BY <1>4, <1>5, <2>3, <2>4, <2>5 DEF AssetsType
<1>9. IdsKept
  BY <1>2, <1>3, <1>4, <1>5 DEF IdsKept
<1>10. ParentsExist'
  <2>1. call.parent \in Assets \cup {NoParent}
    BY <1>1 DEF Refused
  <2> QED
    BY <1>5, <2>1 DEF ParentsInv, ParentsExist
<1>11. ASSUME NEW b \in (Assets \ (handSet \cup crossed))' PROVE RowFound(b)'
  <2>1. CASE b \in Assets
    BY <1>3, <1>4, <1>5, <1>8, <1>9, <2>1, RowStays DEF ParentsInv
  <2>2. CASE b = n
    <3>1. FoundFor(call.net, call.parent, call.seen, call.row)'
      BY <1>1, <1>4, <1>6, <1>8, <1>9, FoundStays DEF CallFound
    <3>2. NetOf(b)' = call.net
      BY <1>1, <1>5, <2>2 DEF NetOf, CallFound
    <3>3. 0 \notin Assets'
      BY <1>8 DEF AssetsType, Ids
    <3> QED
      BY <1>1, <1>5, <2>2, <3>1, <3>2, <3>3 DEF RowFound, FoundFor
  <2> QED
    BY <1>5, <2>1, <2>2
<1>12. ASSUME NEW d \in DOMAIN registering' PROVE CallFound(registering[d])'
  <2>1. d \in DOMAIN registering /\ registering'[d] = registering[d] /\ registering[d] \in AssetCall
    BY CommitFacts
  <2>2. registering[d].row \in Assets' => registering[d].row \in Assets
    <3>1. registering[d].row \in Ids \cup {0} /\ n # 0
      BY <1>4, <2>1 DEF AssetCall
    <3> QED
      BY <1>4, <1>5, <3>1
  <2> QED
    BY <1>3, <1>5, <1>8, <1>9, <2>1, <2>2, RegisteringStays
<1> QED
  BY <1>8, <1>10, <1>11, <1>12 DEF ParentsInv

LEMMA CommitUpdateInv ==
  ASSUME ParentsInv, NEW c, CommitPrefix(c), ~Refused(registering[c]), registering[c].row # 0
  PROVE  ParentsInv'
<1>1. PICK call \in AssetCall : call = registering[c] /\ CallFound(call)
  BY CommitFacts
<1> DEFINE r == call.row
           others == {registering[d].row : d \in DOMAIN registering \ {c}}
           prefix == IF call.net = call.old THEN assets[r].prefix ELSE call.net
           parent == IF call.parent = call.loaded THEN assets[r].parent ELSE call.parent
<1>2. /\ assets' = [assets EXCEPT ![r] = [prefix |-> prefix, seen |-> call.seen, parent |-> parent]]
      /\ moved' = IF call.net = call.old THEN moved ELSE moved \cup {r}
      /\ crossed' = crossed \cup ({r} \cap others)
      /\ UNCHANGED <<nextAsset, handSet>>
  BY <1>1 DEF CommitPrefix, Done
<1>3. r \in Assets /\ AssetsType /\ Assets \subseteq Ids
  BY <1>1, CommitFacts DEF Refused
<1>4. call.net \in Nets /\ call.parent \in Ids \cup {NoParent} /\ call.seen \in SUBSET Ids
  BY DEF AssetCall
<1>5. parent \in Assets \cup {NoParent} /\ parent \in Ids \cup {NoParent} /\ prefix \in Spelt \cup Nets
  <2>1. assets[r].parent \in Assets \cup {NoParent} /\ assets[r] \in AssetRow
    BY <1>3 DEF ParentsInv, ParentsExist, AssetsType
  <2>2. call.parent # call.loaded => call.parent \in Assets \cup {NoParent}
    BY <1>1 DEF Refused
  <2> QED
    BY <1>3, <1>4, <2>1, <2>2 DEF AssetRow
<1>6. /\ Assets' = Assets /\ Ids' = Ids
      /\ \A b \in Assets \ {r} : assets'[b] = assets[b]
      /\ assets'[r].prefix = prefix /\ assets'[r].seen = call.seen /\ assets'[r].parent = parent
      /\ assets'[r] \in AssetRow
  <2>1. assets'[r] = [prefix |-> prefix, seen |-> call.seen, parent |-> parent]
    BY <1>2, <1>3 DEF Assets
  <2>2. assets'[r] \in AssetRow
    BY <1>4, <1>5, <2>1 DEF AssetRow
  <2> HIDE DEF prefix, parent
  <2> QED
    BY <1>2, <2>1, <2>2 DEF Assets, Ids
<1> HIDE DEF prefix, parent
<1>7. AssetsType'
  <2>1. \A b \in Assets' : assets'[b] \in AssetRow
    BY <1>3, <1>6 DEF AssetsType
  <2>2. assets' \in [Assets' -> AssetRow]
    BY <1>2, <2>1 DEF Assets
  <2> QED
    BY <1>2, <1>3, <1>6, <2>2, CommitFacts DEF AssetsType, AssetRow, AssetCall
<1>8. IdsKept
  BY <1>2, <1>3, <1>6 DEF IdsKept, AssetsType, prefix
<1>9. ParentsExist'
  BY <1>5, <1>6 DEF ParentsInv, ParentsExist
<1>10. ASSUME NEW b \in (Assets \ (handSet \cup crossed))' PROVE RowFound(b)'
  <2>1. CASE b # r
    BY <1>2, <1>3, <1>6, <1>7, <1>8, <2>1, RowStays DEF ParentsInv
  <2>2. CASE b = r
    <3>1. r \notin handSet \cup crossed
      BY <1>2, <2>2
    <3>2. assets[r].prefix = call.old /\ assets[r].parent \in {call.loaded, NoParent}
      BY <1>1, <1>3, <3>1 DEF CallFound
    <3>3. prefix = call.net /\ parent \in {call.parent, NoParent}
      BY <3>2 DEF prefix, parent
    <3>4. FoundFor(call.net, call.parent, call.seen, r)'
      BY <1>1, <1>3, <1>4, <1>7, <1>8, FoundStays DEF CallFound
    <3>5. NetOf(r)' = call.net
      BY <1>1, <1>6, <3>3 DEF NetOf, CallFound
    <3>6. NoParent \notin Assets'
      BY <1>7 DEF AssetsType, Ids, NoParent
    <3> QED
      BY <1>6, <2>2, <3>3, <3>4, <3>5, <3>6 DEF RowFound, FoundFor
  <2> QED
    BY <2>1, <2>2
<1>11. ASSUME NEW d \in DOMAIN registering' PROVE CallFound(registering[d])'
  <2>1. d \in DOMAIN registering \ {c} /\ registering'[d] = registering[d]
    BY CommitFacts
  <2>2. registering[d].row = r => r \in crossed'
    BY <1>2, <2>1
  <2>3. registering[d].row \in Assets' \ crossed' => assets'[registering[d].row] = assets[registering[d].row]
    BY <1>6, <2>2
  <2> QED
    BY <1>2, <1>7, <1>8, <2>1, <2>3, RegisteringStays
<1> QED
  BY <1>7, <1>9, <1>10, <1>11 DEF ParentsInv

LEMMA AssetsNextInv == ParentsInv /\ [AssetsNext]_assetVars => ParentsInv'
<1> SUFFICES ASSUME ParentsInv, [AssetsNext]_assetVars PROVE ParentsInv'
  OBVIOUS
<1>1. ASSUME NEW c, CommitPrefix(c) PROVE ParentsInv'
  BY <1>1, CommitRefusedInv, CommitInsertInv, CommitUpdateInv
<1>2. CASE UNCHANGED assetVars
  BY <1>2 DEF assetVars, ParentsInv, AssetsType, ParentsExist, RowFound, CallFound, FoundFor,
              Assets, NetOf, Ids, AssetRow, AssetCall
<1> QED
  BY <1>1, <1>2, BeginRegisterInv, BeginReaddressInv, SetParentInv, DeletePrefixInv,
     GeneratePrefixAssetsInv DEF AssetsNext

(* The rows lie in their parents, and nothing lay between when the parent  *)
(* was found, but for parents set by hand, parents that moved and rows that *)
(* overlapping calls gave addresses.                                       *)
THEOREM ParentsAlwaysContain == ManagementSpec => []ParentsContain
<1>1. ManagementInit => ParentsInv
  BY AssetsInitInv DEF ManagementInit
<1>2. ParentsInv /\ [ManagementNext]_managementVars => ParentsInv'
  <2>1. [ManagementNext]_managementVars => [AssetsNext]_assetVars
    BY DEF ManagementNext, managementVars
  <2> QED
    BY <2>1, AssetsNextInv
<1> QED
  BY <1>1, <1>2, ParentsFollow, PTL DEF ManagementSpec
-----------------------------------------------------------------------------
(* Accounts.  AccountsInv is the type of the tables, and that the user of  *)
(* a session, or of a login in progress, has a row.                        *)
Session == [user : Users, issued : Nat]
LoginRow == [user : Users, row : UserRow, given : Passwords]

AccountsType ==
  /\ users \in [Users -> UserRow \cup {Removed}]
  /\ logins \in [Logins -> LoginRow \cup {Idle}]
  /\ sessions \in Seq(Session)
  /\ now \in Nat

HaveRows ==
  /\ \A i \in DOMAIN sessions : users[sessions[i].user] # Removed
  /\ \A l \in Logins : logins[l] # Idle => users[logins[l].user] # Removed

AccountsInv == AccountsType /\ HaveRows

LEMMA SessionUser ==
  ASSUME AccountsInv, NEW i \in DOMAIN sessions
  PROVE  sessions[i] \in Session /\ sessions[i].user \in Users /\ users[sessions[i].user] # Removed
<1>1. sessions[i] \in Session
  BY DEF AccountsInv, AccountsType
<1>2. sessions[i].user \in Users
  BY <1>1 DEF Session
<1>3. users[sessions[i].user] # Removed
  BY DEF AccountsInv, HaveRows
<1> QED
  BY <1>1, <1>2, <1>3

LEMMA AccountsInitInv == AccountsInit => AccountsInv
<1> SUFFICES ASSUME AccountsInit PROVE AccountsInv
  OBVIOUS
<1>1. DefaultAdmin \in UserRow
  <2>1. "super_admin" \in DOMAIN SystemRoles
    BY DEF SystemRoles
  <2> QED
    BY <2>1, AccountsAssumption DEF DefaultAdmin, NewUser, UserRow
<1>2. sessions = <<>> /\ DOMAIN sessions = {}
  BY DEF AccountsInit
<1>3. AccountsType
  BY <1>1, <1>2, AccountsAssumption DEF AccountsInit, AccountsType
<1>4. HaveRows
  BY <1>2 DEF AccountsInit, HaveRows
<1> QED
  BY <1>3, <1>4 DEF AccountsInv

(* What an action leaves of the invariant that opens no session, takes no  *)
(* row away and starts no login without one.                               *)
RowsStay == \A u \in Users : users[u] # Removed => users'[u] # Removed

LEMMA RowsStayInv ==
  ASSUME AccountsInv, AccountsType', RowsStay, UNCHANGED sessions,
         \A l \in Logins : logins'[l] # Idle => users'[logins'[l].user] # Removed
  PROVE  AccountsInv'
<1>1. \A i \in DOMAIN sessions : sessions[i].user \in Users
  BY SessionUser
<1>2. HaveRows'
  BY <1>1 DEF AccountsInv, HaveRows, RowsStay
<1> QED
  BY <1>2 DEF AccountsInv

LEMMA OpenInv ==
  ASSUME AccountsInv, AccountsType', RowsStay, NEW u \in Users, users[u] # Removed, Open(u),
         \A l \in Logins : logins'[l] # Idle => users'[logins'[l].user] # Removed
  PROVE  AccountsInv'
<1>1. [user |-> u, issued |-> now] \in Session /\ sessions \in Seq(Session)
  BY DEF Session, AccountsInv, AccountsType
<1>2. sessions' = Append(sessions, [user |-> u, issued |-> now])
  BY DEF Open
<1>3. \A i \in DOMAIN sessions' : sessions'[i].user = u \/ (i \in DOMAIN sessions /\ sessions'[i] = sessions[i])
  BY <1>1, <1>2
<1>4. \A i \in DOMAIN sessions : sessions[i].user \in Users /\ users[sessions[i].user] # Removed
  BY SessionUser
<1>5. HaveRows'
  BY <1>3, <1>4 DEF HaveRows, RowsStay
<1> QED
  BY <1>5 DEF AccountsInv

LEMMA LoginLoadInv ==
  ASSUME AccountsInv, NEW l \in Logins, NEW handle \in Handles, NEW password \in Passwords, LoginLoad(l, handle, password)
  PROVE  AccountsInv'
<1>1. PICK u \in Existing : logins' = [logins EXCEPT ![l] = [user |-> u, row |-> users[u], given |-> password]]
  BY DEF LoginLoad, Matches
<1>2. u \in Users /\ users[u] # Removed /\ users[u] \in UserRow
  BY DEF Existing, AccountsInv, AccountsType
<1>3. [user |-> u, row |-> users[u], given |-> password] \in LoginRow
  BY <1>2 DEF LoginRow
<1>4. AccountsType' /\ RowsStay
  BY <1>1, <1>3 DEF LoginLoad, AccountsInv, AccountsType, RowsStay
<1>5. \A k \in Logins : logins'[k] # Idle => users'[logins'[k].user] # Removed
  BY <1>1, <1>2 DEF LoginLoad, AccountsInv, AccountsType, HaveRows
<1> QED
  BY <1>4, <1>5, RowsStayInv DEF LoginLoad

(* A login that ends: what it writes is a row again.                       *)
LEMMA WrittenType ==
  ASSUME NEW stored \in UserRow, NEW loaded \in UserRow, NEW row \in UserRow
  PROVE  Written(stored, loaded, row) \in UserRow
BY DEF Written, UserRow

LEMMA AnswerTypes ==
  ASSUME AccountsInv, NEW row \in UserRow
  PROVE  Unlocked(row) \in UserRow /\ CountedWrong(Unlocked(row)) \in UserRow
         /\ [Unlocked(row) EXCEPT !.failed = 0] \in UserRow
<1>1. Unlocked(row) \in UserRow
  BY DEF Unlocked, UserRow
<1>2. ASSUME NEW r \in UserRow PROVE CountedWrong(r) \in UserRow /\ [r EXCEPT !.failed = 0] \in UserRow
  <2>1. now + LockFor \in Nat
    BY AccountsAssumption DEF AccountsInv, AccountsType
  <2>2. r.failed + 1 \in Nat /\ (IF r.failed + 1 >= MaxFailed THEN now + LockFor ELSE r.locked) \in Nat \cup {Unset}
    BY <2>1 DEF UserRow
  <2>3. CountedWrong(r) \in UserRow
    BY <2>2 DEF CountedWrong, UserRow
  <2>4. [r EXCEPT !.failed = 0] \in UserRow
    BY DEF UserRow
  <2> QED
    BY <2>3, <2>4
<1> QED
  BY <1>1, <1>2

LEMMA LoginEnds ==
  ASSUME AccountsInv, NEW l \in Logins, logins[l] # Idle, logins' = [logins EXCEPT ![l] = Idle]
  PROVE  /\ logins[l].user \in Users /\ logins[l].row \in UserRow
         /\ users[logins[l].user] # Removed /\ users[logins[l].user] \in UserRow
         /\ logins' \in [Logins -> LoginRow \cup {Idle}]
         /\ \A k \in Logins : logins'[k] # Idle => logins[k] # Idle /\ logins'[k] = logins[k] /\ logins[k].user \in Users
BY DEF AccountsInv, AccountsType, LoginRow, HaveRows

LEMMA LoginAnswerInv ==
  ASSUME AccountsInv, NEW l \in Logins, LoginLocked(l) \/ LoginWrong(l) \/ LoginRight(l)
  PROVE  AccountsInv'
<1>1. logins[l] # Idle /\ logins' = [logins EXCEPT ![l] = Idle] /\ UNCHANGED now
  BY DEF LoginLocked, LoginWrong, LoginRight
<1>2. PICK u \in Users : u = logins[l].user /\ users[u] # Removed /\ users[u] \in UserRow
  BY <1>1, LoginEnds
<1>3. PICK loaded \in UserRow : loaded = logins[l].row
  BY <1>1, LoginEnds
<1>4. PICK after \in UserRow : users' = users \/ users' = [users EXCEPT ![u] = after]
  <2>1. CASE LoginLocked(l)
    BY <2>1, <1>3 DEF LoginLocked
  <2>2. CASE LoginWrong(l)
    <3>1. Written(users[u], loaded, CountedWrong(Unlocked(loaded))) \in UserRow
      BY <1>2, <1>3, AnswerTypes, WrittenType
    <3> QED
      BY <2>2, <3>1, <1>2, <1>3 DEF LoginWrong
  <2>3. CASE LoginRight(l)
    <3>1. Written(users[u], loaded, [Unlocked(loaded) EXCEPT !.failed = 0]) \in UserRow
      BY <1>2, <1>3, AnswerTypes, WrittenType
    <3>2. users' = [users EXCEPT ![u] = Written(users[u], loaded, [Unlocked(loaded) EXCEPT !.failed = 0])]
      BY <2>3, <1>2, <1>3 DEF LoginRight, AccountsInv, AccountsType
    <3> QED
      BY <3>1, <3>2
  <2> QED
    BY <2>1, <2>2, <2>3
<1>5. RowsStay /\ users' \in [Users -> UserRow \cup {Removed}]
  BY <1>4, AccountsAssumption DEF RowsStay, AccountsInv, AccountsType
<1>6. \A k \in Logins : logins'[k] # Idle => users'[logins'[k].user] # Removed
  BY <1>1, <1>5, LoginEnds DEF RowsStay, AccountsInv, HaveRows
<1>7. CASE UNCHANGED sessions
  <2>1. AccountsType'
    BY <1>1, <1>5, <1>7, LoginEnds DEF AccountsInv, AccountsType
  <2> QED
    BY <1>1, <1>5, <1>6, <1>7, <2>1, RowsStayInv
<1>8. CASE Open(u)
  <2>1. sessions' \in Seq(Session)
    BY <1>8 DEF Open, AccountsInv, AccountsType, Session
  <2>2. AccountsType'
    BY <1>1, <1>5, <2>1, LoginEnds DEF AccountsInv, AccountsType
  <2> QED
    BY <1>1, <1>2, <1>5, <1>6, <1>8, <2>2, OpenInv
<1> QED
  BY <1>2, <1>7, <1>8 DEF LoginLocked, LoginWrong, LoginRight

LEMMA RefreshInv ==
  ASSUME AccountsInv, NEW i \in DOMAIN sessions, Refresh(i)
  PROVE  AccountsInv'
<1>1. PICK u : u = sessions[i].user
  OBVIOUS
<1>2. u \in Users /\ users[u] # Removed
  BY <1>1, SessionUser
<1>3. Open(u) /\ UNCHANGED <<users, logins, now>>
  BY <1>1 DEF Refresh, Token
<1>4. sessions' \in Seq(Session)
  BY <1>2, <1>3 DEF Open, AccountsInv, AccountsType, Session
<1>5. AccountsType' /\ RowsStay
  BY <1>3, <1>4 DEF AccountsInv, AccountsType, RowsStay
<1>6. \A l \in Logins : logins'[l] # Idle => users'[logins'[l].user] # Removed
  BY <1>3 DEF AccountsInv, HaveRows
<1> QED
  BY <1>2, <1>3, <1>5, <1>6, OpenInv

LEMMA LogoutInv ==
  ASSUME AccountsInv, NEW i \in DOMAIN sessions, Logout(i)
  PROVE  AccountsInv'
BY DEF Logout, AccountsInv, AccountsType, HaveRows

(* Rows that are written or added by a request of somebody signed in.      *)
LEMMA RowWrittenInv ==
  ASSUME AccountsInv, NEW u \in Users, NEW row \in UserRow, users' = [users EXCEPT ![u] = row],
         UNCHANGED <<logins, sessions, now>>
  PROVE  AccountsInv'
<1>1. AccountsType' /\ RowsStay
  BY AccountsAssumption DEF AccountsInv, AccountsType, RowsStay
<1>2. \A l \in Logins : logins[l] # Idle => logins[l].user \in Users
  BY DEF AccountsInv, AccountsType, LoginRow
<1>3. \A l \in Logins : logins'[l] # Idle => users'[logins'[l].user] # Removed
  BY <1>1, <1>2 DEF AccountsInv, HaveRows, RowsStay
<1> QED
  BY <1>1, <1>3, RowsStayInv

LEMMA UsersInv ==
  ASSUME AccountsInv,
         \/ \E i \in DOMAIN sessions, old, new \in Passwords : ChangePassword(i, old, new)
         \/ \E i \in DOMAIN sessions, u \in Users, form \in Updates : UpdateUser(i, u, form)
         \/ \E i \in DOMAIN sessions, u \in Users, roles \in RoleLists : AssignRoles(i, u, roles)
         \/ \E u \in Users, form \in Registrations : Register(u, form)
  PROVE  AccountsInv'
<1>1. \A u \in Users : users[u] # Removed => users[u] \in UserRow
  BY DEF AccountsInv, AccountsType
<1>2. ASSUME NEW i \in DOMAIN sessions, NEW old \in Passwords, NEW new \in Passwords, ChangePassword(i, old, new)
      PROVE  AccountsInv'
  <2>1. PICK u \in Users : u = sessions[i].user /\ users[u] # Removed
    BY SessionUser
  <2>2. [users[u] EXCEPT !.password = new, !.must_change = FALSE] \in UserRow
    <3>1. \A row \in UserRow : [row EXCEPT !.password = new, !.must_change = FALSE] \in UserRow
      BY DEF UserRow
    <3> QED
      BY <1>1, <2>1, <3>1
  <2>3. users' = [users EXCEPT ![u] = [users[u] EXCEPT !.password = new, !.must_change = FALSE]]
    BY <1>2, <2>1 DEF ChangePassword, AccountsInv, AccountsType
  <2> QED
    BY <1>2, <2>2, <2>3, RowWrittenInv DEF ChangePassword
<1>3. ASSUME NEW i \in DOMAIN sessions, NEW u \in Users, NEW form \in Updates, UpdateUser(i, u, form)
      PROVE  AccountsInv'
  <2>1. users[u] \in UserRow
    BY <1>1, <1>3 DEF UpdateUser, Existing
  <2>2. PICK row : row = [users[u] EXCEPT !.password = IF form.password = Unset THEN @ ELSE form.password,
                                          !.active = IF form.active = Unset THEN @ ELSE form.active]
    OBVIOUS
  <2>3. row \in UserRow
    <3>1. form.password \in Passwords \cup {Unset} /\ form.active \in BOOLEAN \cup {Unset}
      BY AccountsAssumption
    <3> QED
      BY <2>1, <2>2, <3>1 DEF UserRow
  <2>4. users' = [users EXCEPT ![u] = row]
    BY <1>3, <2>2 DEF UpdateUser, AccountsInv, AccountsType
  <2> QED
    BY <1>3, <2>3, <2>4, RowWrittenInv DEF UpdateUser
<1>4. ASSUME NEW i \in DOMAIN sessions, NEW u \in Users, NEW roles \in RoleLists, AssignRoles(i, u, roles)
      PROVE  AccountsInv'
  <2>1. users[u] \in UserRow
    BY <1>1, <1>4 DEF AssignRoles, Existing
  <2>2. [users[u] EXCEPT !.roles = roles \cap DOMAIN SystemRoles] \in UserRow
    BY <2>1 DEF UserRow
  <2>3. users' = [users EXCEPT ![u] = [users[u] EXCEPT !.roles = roles \cap DOMAIN SystemRoles]]
    BY <1>4 DEF AssignRoles, AccountsInv, AccountsType
  <2> QED
    BY <1>4, <2>2, <2>3, RowWrittenInv DEF AssignRoles
<1>5. ASSUME NEW u \in Users, NEW form \in Registrations, Register(u, form)
      PROVE  AccountsInv'
  <2>1. NewUser(form.name, form.email, form.password) \in UserRow
    BY AccountsAssumption DEF NewUser, UserRow
  <2> QED
    BY <1>5, <2>1, RowWrittenInv DEF Register
<1> QED
  BY <1>2, <1>3, <1>4, <1>5

LEMMA AccountsRestartInv == AccountsInv /\ Restart => AccountsInv'
BY DEF Restart, AccountsInv, AccountsType, HaveRows

LEMMA AccountsNextInv == AccountsInv /\ [AccountsNext]_accountVars => AccountsInv'
<1> SUFFICES ASSUME AccountsInv, [AccountsNext]_accountVars PROVE AccountsInv'
  OBVIOUS
<1>1. CASE UNCHANGED accountVars \/ Tick
  <2>1. UNCHANGED <<users, logins, sessions>> /\ now' \in {now, now + 1}
    BY <1>1 DEF accountVars, Tick
  <2>2. AccountsType' /\ RowsStay
    BY <2>1 DEF AccountsInv, AccountsType, RowsStay
  <2>3. \A l \in Logins : logins'[l] # Idle => users'[logins'[l].user] # Removed
    BY <2>1 DEF AccountsInv, HaveRows
  <2> QED
    BY <2>1, <2>2, <2>3, RowsStayInv
<1>2. CASE AccountsNext /\ ~Tick
  BY <1>2, LoginLoadInv, LoginAnswerInv, RefreshInv, LogoutInv, UsersInv, AccountsRestartInv DEF AccountsNext
<1> QED
  BY <1>1, <1>2
-----------------------------------------------------------------------------
(* Induction, with a set for the property.                                 *)
LEMMA SetInduction ==
  ASSUME NEW S \in SUBSET Nat, 0 \in S, \A n \in S : n + 1 \in S
  PROVE  \A n \in Nat : n \in S
<1> SUFFICES ASSUME Nat \ S # {} PROVE FALSE
  OBVIOUS
<1>1. PICK least \in Nat \ S : \A m \in Nat \ S : ~(<<m, least>> \in OpToRel(<, Nat))
  BY NatLessThanWellFounded, WFMin
<1> DEFINE before == least - 1
<1>2. least \in Nat /\ least \notin S /\ least # 0
  OBVIOUS
<1>3. before \in Nat /\ before < least /\ before + 1 = least
  BY <1>2
<1> HIDE DEF before
<1>4. <<before, least>> \in OpToRel(<, Nat)
  BY <1>2, <1>3 DEF OpToRel
<1>5. before \in S
  BY <1>1, <1>3, <1>4
<1> QED
  BY <1>2, <1>3, <1>5

(* A function on Nat by its first value and by what each makes the next.   *)
Begun(g, n, first, step) == g[0] = first /\ \A i \in 0 .. n - 1 : g[i + 1] = step[i][g[i]]

Follows(f, T, first, step) ==
  f \in [Nat -> T] /\ f[0] = first /\ \A n \in Nat : f[n + 1] = step[n][f[n]]

LEMMA RecursionExists ==
  ASSUME NEW T, NEW first \in T, NEW step \in [Nat -> [T -> T]]
  PROVE  \E f : Follows(f, T, first, step)
<1> DEFINE S == {n \in Nat : \E g \in [0 .. n -> T] : Begun(g, n, first, step)}
<1>1. 0 \in S
  <2>1. [i \in 0 .. 0 |-> first] \in [0 .. 0 -> T] /\ Begun([i \in 0 .. 0 |-> first], 0, first, step)
    BY DEF Begun
  <2> QED
    BY <2>1
<1>2. ASSUME NEW n \in S PROVE n + 1 \in S
  <2>1. PICK g \in [0 .. n -> T] : Begun(g, n, first, step)
    OBVIOUS
  <2> DEFINE h == [i \in 0 .. n + 1 |-> IF i = n + 1 THEN step[n][g[n]] ELSE g[i]]
  <2>2. n \in Nat /\ \A i \in 0 .. n + 1 : i # n + 1 => i \in 0 .. n
    OBVIOUS
  <2>3. h \in [0 .. n + 1 -> T]
    BY <2>1, <2>2
  <2>4. h[0] = first
    BY <2>1, <2>2 DEF Begun
  <2>5. ASSUME NEW i \in 0 .. (n + 1) - 1 PROVE h[i + 1] = step[i][h[i]]
    <3>1. i \in 0 .. n /\ h[i] = g[i]
      BY <2>2
    <3>2. CASE i = n
      <4>1. h[n + 1] = step[n][g[n]]
        BY <2>2
      <4> QED
        BY <3>1, <3>2, <4>1
    <3>3. CASE i # n
      <4>1. i \in 0 .. n - 1 /\ i + 1 \in 0 .. n + 1 /\ i + 1 # n + 1
        BY <3>1, <3>3, <2>2
      <4> QED
        BY <4>1, <3>1, <2>1 DEF Begun
    <3> QED
      BY <3>2, <3>3
  <2>6. Begun(h, n + 1, first, step)
    BY <2>4, <2>5 DEF Begun
  <2> QED
    BY <2>2, <2>3, <2>6
<1>3. \A n \in Nat : n \in S
  <2> HIDE DEF S
  <2>1. S \in SUBSET Nat
    BY DEF S
  <2> QED
    BY <1>1, <1>2, <2>1, SetInduction
<1>4. ASSUME NEW n \in Nat, NEW m \in Nat, n <= m, NEW g, NEW h, Begun(g, n, first, step), Begun(h, m, first, step)
      PROVE  \A i \in 0 .. n : g[i] = h[i]
  <2> DEFINE E == {i \in Nat : i <= n => g[i] = h[i]}
  <2>1. 0 \in E
    BY <1>4 DEF Begun
  <2>2. ASSUME NEW i \in E PROVE i + 1 \in E
    <3>1. CASE i + 1 <= n
      <4>1. i \in 0 .. n - 1 /\ i \in 0 .. m - 1 /\ g[i] = h[i]
        BY <1>4, <3>1
      <4>2. g[i + 1] = step[i][g[i]] /\ h[i + 1] = step[i][h[i]]
        BY <1>4, <4>1 DEF Begun
      <4> QED
        BY <4>1, <4>2
    <3> QED
      BY <3>1
  <2> HIDE DEF E
  <2>3. \A i \in Nat : i \in E
    <3>1. E \in SUBSET Nat
      BY DEF E
    <3> QED
      BY <3>1, <2>1, <2>2, SetInduction
  <2> QED
    BY <2>3 DEF E
<1> DEFINE approx(n) == CHOOSE g \in [0 .. n -> T] : Begun(g, n, first, step)
           f == [n \in Nat |-> approx(n)[n]]
<1>5. \A n \in Nat : approx(n) \in [0 .. n -> T] /\ Begun(approx(n), n, first, step)
  BY <1>3
<1> HIDE DEF approx
<1>6. f \in [Nat -> T]
  BY <1>5
<1>7. f[0] = first
  BY <1>5 DEF Begun
<1>8. ASSUME NEW n \in Nat PROVE f[n + 1] = step[n][f[n]]
  <2>1. approx(n + 1)[n + 1] = step[n][approx(n + 1)[n]]
    BY <1>5 DEF Begun
  <2>2. approx(n)[n] = approx(n + 1)[n]
    BY <1>4, <1>5
  <2> QED
    BY <2>1, <2>2
<1> HIDE DEF f
<1>9. Follows(f, T, first, step)
  BY <1>6, <1>7, <1>8 DEF Follows
<1> QED
  BY <1>9

LEMMA Factorials ==
  /\ factorial \in [Nat -> Nat \ {0}] /\ factorial[0] = 1
  /\ \A n \in Nat : factorial[n + 1] = (n + 1) * factorial[n]
<1> DEFINE step == [n \in Nat |-> [a \in Nat \ {0} |-> (n + 1) * a]]
<1>1. step \in [Nat -> [Nat \ {0} -> Nat \ {0}]]
  <2>1. \A a \in Nat, b \in Nat \ {0} : (a + 1) * b \in Nat \ {0}
    OBVIOUS
  <2> QED
    BY <2>1
<1>2. PICK f : Follows(f, Nat \ {0}, 1, step)
  <2>1. 1 \in Nat \ {0}
    OBVIOUS
  <2> HIDE DEF step
  <2> QED
    BY <1>1, <2>1, RecursionExists
<1>3. f \in [Nat -> Nat \ {0}] /\ f[0] = 1 /\ \A n \in Nat : f[n + 1] = (n + 1) * f[n]
  BY <1>2 DEF Follows
<1>4. f = [n \in Nat |-> IF n = 0 THEN 1 ELSE n * f[n - 1]]
  <2>1. ASSUME NEW n \in Nat, n # 0 PROVE f[n] = n * f[n - 1]
    <3>1. n - 1 \in Nat /\ (n - 1) + 1 = n
      BY <2>1
    <3> QED
      BY <1>3, <3>1
  <2> QED
    BY <1>3, <2>1
<1> DEFINE Fits(g) == g = [n \in Nat |-> IF n = 0 THEN 1 ELSE n * g[n - 1]]
<1>5. Fits(factorial)
  <2>1. factorial = CHOOSE g : Fits(g)
    BY DEF factorial
  <2>2. Fits(f)
    BY <1>4
  <2> HIDE DEF Fits
  <2> QED
    BY <2>1, <2>2
<1>6. factorial[0] = 1 /\ \A n \in Nat : factorial[n + 1] = (n + 1) * factorial[n]
  <2>1. \A n \in Nat : n + 1 \in Nat /\ n + 1 # 0 /\ (n + 1) - 1 = n
    OBVIOUS
  <2>2. \A n \in Nat : factorial[n] = IF n = 0 THEN 1 ELSE n * factorial[n - 1]
    BY <1>5
  <2> QED
    BY <2>1, <2>2
<1>7. \A n \in Nat : factorial[n] \in Nat \ {0}
  <2> DEFINE S == {n \in Nat : factorial[n] \in Nat \ {0}}
  <2>1. 0 \in S
    BY <1>6
  <2>2. ASSUME NEW n \in S PROVE n + 1 \in S
    <3>1. \A a \in Nat, b \in Nat \ {0} : (a + 1) * b \in Nat \ {0}
      OBVIOUS
    <3>2. n \in Nat /\ factorial[n] \in Nat \ {0}
      OBVIOUS
    <3>3. factorial[n + 1] = (n + 1) * factorial[n]
      BY <1>6, <3>2
    <3>4. factorial[n + 1] \in Nat \ {0}
      BY <3>1, <3>2, <3>3
    <3> QED
      BY <3>2, <3>4
  <2> HIDE DEF S
  <2>3. S \in SUBSET Nat
    BY DEF S
  <2>4. \A n \in Nat : n \in S
    BY <2>1, <2>2, <2>3, SetInduction
  <2> QED
    BY <2>4 DEF S
<1>8. factorial \in [Nat -> Nat \ {0}]
  BY <1>5, <1>7
<1> QED
  BY <1>6, <1>8

-----------------------------------------------------------------------------
(* The growing functions from 1 .. k to 0 .. n, and their number.          *)
Growing(k, n) == {p \in [1 .. k -> 0 .. n] : \A i, j \in 1 .. k : i <= j => p[i] <= p[j]}

LEMMA GrowingSplit ==
  ASSUME NEW k \in Nat, NEW n \in Nat, IsFiniteSet(Growing(k + 1, n)), IsFiniteSet(Growing(k, n + 1))
  PROVE  /\ IsFiniteSet(Growing(k + 1, n + 1))
         /\ Cardinality(Growing(k + 1, n + 1)) = Cardinality(Growing(k + 1, n)) + Cardinality(Growing(k, n + 1))
<1> DEFINE All == Growing(k + 1, n + 1)
           Low == Growing(k + 1, n)
           Top == {p \in All : p[k + 1] = n + 1}
           Short == Growing(k, n + 1)
           more(p) == [i \in 1 .. k + 1 |-> IF i = k + 1 THEN n + 1 ELSE p[i]]
           f == [p \in Short |-> more(p)]
<1>1. \A i \in 1 .. k + 1 : i <= k + 1 /\ (i # k + 1 => i \in 1 .. k)
  OBVIOUS
<1>2. All = Low \cup Top
  <2>1. ASSUME NEW p \in Low PROVE p \in All
    BY DEF Growing
  <2>2. ASSUME NEW p \in All, p \notin Top PROVE p \in Low
    <3>1. p \in [1 .. k + 1 -> 0 .. n + 1] /\ \A i, j \in 1 .. k + 1 : i <= j => p[i] <= p[j]
      BY DEF Growing
    <3>2. k + 1 \in 1 .. k + 1 /\ p[k + 1] \in 0 .. n + 1 /\ p[k + 1] # n + 1
      BY <2>2, <3>1
    <3>3. \A i \in 1 .. k + 1 : p[i] \in 0 .. n
      BY <1>1, <3>1, <3>2
    <3> QED
      BY <3>1, <3>3 DEF Growing
  <2> QED
    BY <2>1, <2>2
<1>3. Low \cap Top = {}
  <2> SUFFICES ASSUME NEW p \in Low, p[k + 1] = n + 1 PROVE FALSE
    OBVIOUS
  <2>1. p[k + 1] \in 0 .. n
    BY DEF Growing
  <2> QED
    BY <2>1
<1>4. ASSUME NEW p \in Short PROVE more(p) \in Top
  <2>1. p \in [1 .. k -> 0 .. n + 1] /\ \A i, j \in 1 .. k : i <= j => p[i] <= p[j]
    BY DEF Growing
  <2>2. more(p) \in [1 .. k + 1 -> 0 .. n + 1]
    BY <1>1, <2>1
  <2>3. ASSUME NEW i \in 1 .. k + 1, NEW j \in 1 .. k + 1, i <= j PROVE more(p)[i] <= more(p)[j]
    <3>1. CASE j = k + 1
      BY <2>2, <3>1
    <3>2. CASE j # k + 1
      <4>1. i \in 1 .. k /\ j \in 1 .. k /\ i # k + 1
        BY <2>3, <3>2
      <4> QED
        BY <2>1, <2>3, <3>2, <4>1
    <3> QED
      BY <3>1, <3>2
  <2> QED
    BY <2>2, <2>3 DEF Growing
<1>5. ASSUME NEW p \in Short, NEW q \in Short, more(p) = more(q) PROVE p = q
  <2>1. p \in [1 .. k -> 0 .. n + 1] /\ q \in [1 .. k -> 0 .. n + 1]
    BY DEF Growing
  <2>2. \A i \in 1 .. k : i \in 1 .. k + 1 /\ i # k + 1
    OBVIOUS
  <2>3. \A i \in 1 .. k : p[i] = more(p)[i] /\ q[i] = more(q)[i]
    BY <2>2
  <2> HIDE DEF more
  <2> QED
    BY <1>5, <2>1, <2>3
<1>6. ASSUME NEW q \in Top PROVE \E p \in Short : more(p) = q
  <2> DEFINE p == [i \in 1 .. k |-> q[i]]
  <2>1. q \in [1 .. k + 1 -> 0 .. n + 1] /\ (\A i, j \in 1 .. k + 1 : i <= j => q[i] <= q[j]) /\ q[k + 1] = n + 1
    BY DEF Growing
  <2>2. p \in Short
    BY <2>1 DEF Growing
  <2>3. more(p) = q
    BY <1>1, <2>1
  <2> QED
    BY <2>2, <2>3
<1> HIDE DEF All, Low, Top, Short, more
<1>7. f \in Bijection(Short, Top)
  <2>1. f \in [Short -> Top]
    BY <1>4
  <2>2. \A p, q \in Short : f[p] = f[q] => p = q
    BY <1>5
  <2>3. \A q \in Top : \E p \in Short : f[p] = q
    BY <1>6
  <2> QED
    BY <2>1, <2>2, <2>3, Fun_IsBij
<1>8. IsFiniteSet(Top) /\ Cardinality(Top) = Cardinality(Short)
  <2>1. ExistsBijection(Short, Top)
    BY <1>7 DEF ExistsBijection
  <2> QED
    BY <2>1, FS_Bijection DEF Short
<1>9. Cardinality(Low \cap Top) = 0
  BY <1>3, FS_EmptySet
<1>10. IsFiniteSet(Low)
  BY DEF Low
<1> HIDE DEF f
<1>11. /\ IsFiniteSet(All) /\ Cardinality(All) = Cardinality(Low) + Cardinality(Top) - 0
       /\ Cardinality(Low) \in Nat /\ Cardinality(Top) \in Nat
  BY <1>2, <1>8, <1>9, <1>10, FS_Union, FS_CardinalityType
<1> QED
  BY <1>8, <1>11 DEF All, Low, Short

LEMMA GrowingCounted ==
  \A k, n \in Nat :
    /\ IsFiniteSet(Growing(k, n)) /\ Cardinality(Growing(k, n)) \in Nat \ {0}
    /\ Cardinality(Growing(k, n)) * (factorial[k] * factorial[n]) = factorial[k + n]
<1> DEFINE Tally(k, n) == /\ IsFiniteSet(Growing(k, n)) /\ Cardinality(Growing(k, n)) \in Nat \ {0}
                            /\ Cardinality(Growing(k, n)) * (factorial[k] * factorial[n]) = factorial[k + n]
           S == {s \in Nat : \A k, n \in Nat : k + n = s => Tally(k, n)}
<1>1. \A n \in Nat : Tally(0, n)
  <2> SUFFICES ASSUME NEW n \in Nat PROVE Tally(0, n)
    OBVIOUS
  <2> DEFINE none == [i \in 1 .. 0 |-> 0]
  <2>1. Growing(0, n) = {none}
    <3>1. 1 .. 0 = {}
      OBVIOUS
    <3>2. \A p \in [1 .. 0 -> 0 .. n] : p = none
      BY <3>1
    <3>3. none \in [1 .. 0 -> 0 .. n]
      BY <3>1
    <3> QED
      BY <3>1, <3>2, <3>3 DEF Growing
  <2> HIDE DEF none
  <2>2. IsFiniteSet(Growing(0, n)) /\ Cardinality(Growing(0, n)) = 1
    BY <2>1, FS_Singleton
  <2>3. \A a \in Nat : 1 * (1 * a) = a /\ 0 + n = n
    OBVIOUS
  <2> QED
    BY <2>2, <2>3, Factorials
<1>2. \A k \in Nat : Tally(k, 0)
  <2> SUFFICES ASSUME NEW k \in Nat PROVE Tally(k, 0)
    OBVIOUS
  <2> DEFINE zeros == [i \in 1 .. k |-> 0]
  <2>1. Growing(k, 0) = {zeros}
    <3>1. 0 .. 0 = {0}
      OBVIOUS
    <3>2. \A p \in [1 .. k -> 0 .. 0] : p = zeros
      BY <3>1
    <3>3. zeros \in [1 .. k -> 0 .. 0] /\ \A i, j \in 1 .. k : zeros[i] <= zeros[j]
      BY <3>1
    <3> HIDE DEF zeros
    <3> QED
      BY <3>2, <3>3 DEF Growing
  <2> HIDE DEF zeros
  <2>2. IsFiniteSet(Growing(k, 0)) /\ Cardinality(Growing(k, 0)) = 1
    BY <2>1, FS_Singleton
  <2>3. \A a \in Nat : 1 * (a * 1) = a /\ k + 0 = k
    OBVIOUS
  <2> QED
    BY <2>2, <2>3, Factorials
<1>3. ASSUME NEW k \in Nat, NEW n \in Nat, Tally(k + 1, n), Tally(k, n + 1) PROVE Tally(k + 1, n + 1)
  <2> DEFINE a == Cardinality(Growing(k + 1, n))
             b == Cardinality(Growing(k, n + 1))
             c == Cardinality(Growing(k + 1, n + 1))
             kf == factorial[k]
             nf == factorial[n]
             all == factorial[k + n + 1]
  <2>1. /\ a \in Nat \ {0} /\ b \in Nat \ {0} /\ kf \in Nat \ {0} /\ nf \in Nat \ {0} /\ all \in Nat \ {0}
        /\ factorial[k + 1] = (k + 1) * kf /\ factorial[n + 1] = (n + 1) * nf
        /\ k + n + 1 \in Nat /\ (k + 1) + n = k + n + 1 /\ k + (n + 1) = k + n + 1
        /\ (k + 1) + (n + 1) = (k + n + 1) + 1 /\ factorial[(k + n + 1) + 1] = ((k + n + 1) + 1) * all
    BY <1>3, Factorials
  <2>2. a * (((k + 1) * kf) * nf) = all /\ b * (kf * ((n + 1) * nf)) = all
    BY <1>3, <2>1
  <2>3. IsFiniteSet(Growing(k + 1, n + 1)) /\ c = a + b
    BY <1>3, GrowingSplit
  <2> HIDE DEF a, b, c, kf, nf, all
  <2>4. c * (((k + 1) * kf) * ((n + 1) * nf)) = ((k + n + 1) + 1) * all
    <3>1. (a + b) * (((k + 1) * kf) * ((n + 1) * nf))
            = (n + 1) * (a * (((k + 1) * kf) * nf)) + (k + 1) * (b * (kf * ((n + 1) * nf)))
      BY <2>1
    <3>2. (n + 1) * all + (k + 1) * all = ((k + n + 1) + 1) * all
      BY <2>1
    <3> QED
      BY <2>2, <2>3, <3>1, <3>2
  <2>5. c \in Nat \ {0}
    BY <2>1, <2>3
  <2> QED
    BY <2>1, <2>3, <2>4, <2>5 DEF c
<1>4. 0 \in S
  BY <1>1
<1>5. ASSUME NEW s \in S PROVE s + 1 \in S
  <2> SUFFICES ASSUME NEW k \in Nat, NEW n \in Nat, k + n = s + 1 PROVE Tally(k, n)
    OBVIOUS
  <2>1. CASE k = 0 \/ n = 0
    BY <1>1, <1>2, <2>1
  <2>2. CASE k # 0 /\ n # 0
    <3>1. k - 1 \in Nat /\ n - 1 \in Nat /\ (k - 1) + 1 = k /\ (n - 1) + 1 = n
      BY <2>2
    <3>2. k + (n - 1) = s /\ (k - 1) + n = s
      BY <2>2
    <3>3. Tally(k, n - 1) /\ Tally(k - 1, n)
      BY <3>1, <3>2
    <3> HIDE DEF Tally
    <3> QED
      BY <1>3, <3>1, <3>3
  <2> QED
    BY <2>1, <2>2
<1> HIDE DEF S
<1>6. S \in SUBSET Nat
  BY DEF S
<1>7. \A s \in Nat : s \in S
  BY <1>4, <1>5, <1>6, SetInduction
<1> HIDE DEF Tally
<1>8. \A k, n \in Nat : Tally(k, n)
  <2>1. \A k, n \in Nat : k + n \in Nat
    OBVIOUS
  <2> QED
    BY <1>7, <2>1 DEF S
<1> QED
  BY <1>8 DEF Tally

LEMMA GrowingChoices ==
  ASSUME NEW m \in Nat \ {0}, NEW n \in Nat
  PROVE  Cardinality(Growing(m - 1, n)) = choose(m + n - 1, n)
<1> DEFINE c == Cardinality(Growing(m - 1, n))
           d == factorial[n] * factorial[m - 1]
<1>1. m - 1 \in Nat /\ (m - 1) + n = m + n - 1 /\ (m + n - 1) - n = m - 1
  OBVIOUS
<1>2. c \in Nat \ {0} /\ c * (factorial[m - 1] * factorial[n]) = factorial[m + n - 1]
  BY <1>1, GrowingCounted
<1>3. factorial[m - 1] \in Nat \ {0} /\ factorial[n] \in Nat \ {0}
  BY <1>1, Factorials
<1>4. d \in Nat \ {0} /\ d = factorial[m - 1] * factorial[n]
  BY <1>3
<1> HIDE DEF c, d
<1>5. (c * d) \div d = c
  BY <1>2, <1>4
<1>6. choose(m + n - 1, n) = factorial[m + n - 1] \div d
  BY <1>1 DEF choose, d
<1> QED
  BY <1>2, <1>4, <1>5, <1>6 DEF c

LEMMA Least ==
  ASSUME NEW S \in SUBSET Nat, S # {}
  PROVE  \E least \in S : \A m \in S : least <= m
<1>1. PICK least \in S : \A m \in S : ~(<<m, least>> \in OpToRel(<, Nat))
  BY NatLessThanWellFounded, WFMin
<1>2. ASSUME NEW m \in S, m < least PROVE FALSE
  <2>1. m \in Nat /\ least \in Nat
    OBVIOUS
  <2>2. <<m, least>> \in OpToRel(<, Nat)
    BY <1>2, <2>1 DEF OpToRel
  <2> QED
    BY <1>1, <2>2
<1> QED
  BY <1>2

(* The order of such functions by the first value that differs.  Its rank  *)
(* among all of them counts how often a profile can still go down.         *)
Less(p, q, k) == \E i \in 1 .. k : p[i] < q[i] /\ \A j \in 1 .. i - 1 : p[j] = q[j]
Below(p, k, n) == {q \in Growing(k, n) : Less(q, p, k)}
Rank(p, k, n) == Cardinality(Below(p, k, n))

LEMMA LessWhen ==
  ASSUME NEW k \in Nat, NEW n \in Nat, NEW p \in [1 .. k -> 0 .. n], NEW q \in [1 .. k -> 0 .. n],
         NEW i \in 1 .. k, q[i] < p[i], \A j \in 1 .. i - 1 : q[j] <= p[j]
  PROVE  Less(q, p, k)
<1> DEFINE S == {j \in 1 .. k : q[j] < p[j]}
<1>1. S \in SUBSET Nat /\ S # {}
  OBVIOUS
<1>2. PICK first \in S : \A m \in S : first <= m
  BY <1>1, Least
<1>3. first \in 1 .. k /\ q[first] < p[first] /\ first <= i
  BY <1>2
<1>4. \A j \in 1 .. first - 1 : q[j] = p[j]
  <2> SUFFICES ASSUME NEW j \in 1 .. first - 1 PROVE q[j] = p[j]
    OBVIOUS
  <2>1. j \in 1 .. k /\ j \in 1 .. i - 1 /\ ~(first <= j)
    BY <1>3
  <2>2. q[j] <= p[j] /\ ~(q[j] < p[j])
    BY <1>2, <2>1
  <2>3. q[j] \in 0 .. n /\ p[j] \in 0 .. n
    BY <2>1
  <2> QED
    BY <2>2, <2>3
<1> QED
  BY <1>3, <1>4 DEF Less

LEMMA LessOrder ==
  ASSUME NEW k \in Nat, NEW n \in Nat, NEW p \in [1 .. k -> 0 .. n], NEW q \in [1 .. k -> 0 .. n]
  PROVE  /\ ~Less(p, p, k)
         /\ \A r \in [1 .. k -> 0 .. n] : Less(r, q, k) /\ Less(q, p, k) => Less(r, p, k)
<1>1. ~Less(p, p, k)
  <2> SUFFICES ASSUME NEW i \in 1 .. k, p[i] < p[i] PROVE FALSE
    BY DEF Less
  <2>1. p[i] \in 0 .. n
    OBVIOUS
  <2> QED
    BY <2>1
<1>2. ASSUME NEW r \in [1 .. k -> 0 .. n], Less(r, q, k), Less(q, p, k) PROVE Less(r, p, k)
  <2>1. PICK i \in 1 .. k : r[i] < q[i] /\ \A j \in 1 .. i - 1 : r[j] = q[j]
    BY <1>2 DEF Less
  <2>2. PICK h \in 1 .. k : q[h] < p[h] /\ \A j \in 1 .. h - 1 : q[j] = p[j]
    BY <1>2 DEF Less
  <2>3. \A j \in 1 .. k : r[j] \in 0 .. n /\ q[j] \in 0 .. n /\ p[j] \in 0 .. n
    OBVIOUS
  <2>4. CASE i <= h
    <3>1. r[i] < p[i]
      <4>1. q[i] <= p[i]
        <5>1. i = h \/ i \in 1 .. h - 1
          BY <2>4
        <5> QED
          BY <2>2, <2>3, <5>1
      <4> QED
        BY <2>1, <2>3, <4>1
    <3>2. \A j \in 1 .. i - 1 : r[j] = p[j]
      BY <2>1, <2>2, <2>4
    <3> QED
      BY <3>1, <3>2 DEF Less
  <2>5. CASE h < i
    <3>1. h \in 1 .. i - 1 /\ r[h] = q[h]
      BY <2>1, <2>5
    <3>2. \A j \in 1 .. h - 1 : r[j] = p[j]
      BY <2>1, <2>2, <2>5
    <3> QED
      BY <2>2, <3>1, <3>2 DEF Less
  <2> QED
    BY <2>4, <2>5
<1> QED
  BY <1>1, <1>2

LEMMA RankDrops ==
  ASSUME NEW k \in Nat, NEW n \in Nat, NEW p \in Growing(k, n), NEW q \in Growing(k, n), Less(q, p, k)
  PROVE  Rank(q, k, n) \in Nat /\ Rank(p, k, n) \in Nat /\ Rank(q, k, n) < Rank(p, k, n)
<1>1. IsFiniteSet(Growing(k, n))
  BY GrowingCounted
<1>2. \A r \in Growing(k, n) : r \in [1 .. k -> 0 .. n]
  BY DEF Growing
<1>3. Below(q, k, n) \subseteq Below(p, k, n) /\ q \in Below(p, k, n) /\ q \notin Below(q, k, n)
  BY <1>2, LessOrder DEF Below
<1>4. Below(p, k, n) \in SUBSET Growing(k, n)
  BY DEF Below
<1>5. IsFiniteSet(Below(p, k, n))
  BY <1>1, <1>4, FS_Subset
<1>6. /\ IsFiniteSet(Below(q, k, n)) /\ Rank(q, k, n) <= Rank(p, k, n)
      /\ Rank(q, k, n) # Rank(p, k, n)
  BY <1>3, <1>5, FS_Subset DEF Rank
<1>7. Rank(q, k, n) \in Nat /\ Rank(p, k, n) \in Nat
  BY <1>5, <1>6, FS_CardinalityType DEF Rank
<1> QED
  BY <1>6, <1>7

LEMMA RankBounded ==
  ASSUME NEW k \in Nat, NEW n \in Nat, NEW p \in Growing(k, n)
  PROVE  Rank(p, k, n) \in Nat /\ Rank(p, k, n) + 1 <= Cardinality(Growing(k, n))
<1>1. IsFiniteSet(Growing(k, n)) /\ Cardinality(Growing(k, n)) \in Nat
  BY GrowingCounted
<1>2. p \in [1 .. k -> 0 .. n]
  BY DEF Growing
<1>3. Below(p, k, n) \in SUBSET Growing(k, n) /\ p \notin Below(p, k, n)
  BY <1>2, LessOrder DEF Below
<1>4. /\ IsFiniteSet(Below(p, k, n)) /\ Rank(p, k, n) <= Cardinality(Growing(k, n))
      /\ Rank(p, k, n) # Cardinality(Growing(k, n))
  BY <1>1, <1>3, FS_Subset DEF Rank
<1>5. Rank(p, k, n) \in Nat
  BY <1>4, FS_CardinalityType DEF Rank
<1> QED
  BY <1>1, <1>4, <1>5

LEMMA RankFollows ==
  ASSUME NEW k \in Nat, NEW n \in Nat, NEW p \in Growing(k, n), NEW q \in Growing(k, n),
         \A i \in 1 .. k : q[i] <= p[i]
  PROVE  Rank(q, k, n) <= Rank(p, k, n)
<1>1. p \in [1 .. k -> 0 .. n] /\ q \in [1 .. k -> 0 .. n]
  BY DEF Growing
<1>2. CASE \E i \in 1 .. k : q[i] < p[i]
  <2>1. PICK i \in 1 .. k : q[i] < p[i]
    BY <1>2
  <2>2. \A j \in 1 .. i - 1 : q[j] <= p[j]
    OBVIOUS
  <2>3. Less(q, p, k)
    BY <1>1, <2>1, <2>2, LessWhen
  <2> QED
    BY <2>3, RankDrops
<1>3. CASE \A i \in 1 .. k : ~(q[i] < p[i])
  <2>1. \A i \in 1 .. k : p[i] \in 0 .. n /\ q[i] \in 0 .. n
    BY <1>1
  <2>2. \A i \in 1 .. k : q[i] = p[i]
    BY <1>3, <2>1
  <2>3. q = p
    BY <1>1, <2>2
  <2> QED
    BY <2>3, RankBounded
<1> QED
  BY <1>2, <1>3

-----------------------------------------------------------------------------
(* Lockout.  A login that may still answer wrong stands at the count it    *)
(* would start from: what it loaded, no more than what the row has now, or *)
(* 0 if it loaded a lock; a login that is free would load the row.  A wrong *)
(* answer at count g frees its login at g + 1, and moves the free ones     *)
(* there: fewer logins stand at g or below, and no more than before at any *)
(* count below g.  So the profile of these numbers goes down in the order  *)
(* Less each time, and the answers since it was highest are at most its    *)
(* rank then.  The one exception is an answer that writes no count because *)
(* it loaded an expired lock with a count of 1, when a right answer has put *)
(* the count back to 0 meanwhile: Unwritten counts these.                  *)
Slots == Cardinality(Logins)
Climb == MaxFailed - 1

About(l, u) == logins[l] # Idle /\ logins[l].user = u
Loaded(l) == IF logins[l].row.locked = Unset THEN logins[l].row.failed ELSE 0
Effective(u) == IF users[u].locked = Unset THEN users[u].failed ELSE 0
AtMost(u, b) == {l \in Logins : Effective(u) <= b \/ (About(l, u) /\ Loaded(l) <= b)}
Standing(u) == [i \in 1 .. Climb |-> AtMost(u, i - 1)]
Unwritten(u) ==
  {l \in Logins : About(l, u) /\ logins[l].row.locked # Unset /\ ~InForce(logins[l].row) /\ logins[l].row.failed = 1}
Extra(u) == IF users[u].failed = 0 THEN Cardinality(Unwritten(u)) ELSE 0

Stairs == {s \in [1 .. Climb -> SUBSET Logins] : \A i, j \in 1 .. Climb : i <= j => s[i] \subseteq s[j]}
RankOf(s) == Rank([i \in 1 .. Climb |-> Cardinality(s[i])], Climb, Slots)
Most == Cardinality(Growing(Climb, Slots))

Spent(u) == users[u] # Removed => wrong[u] + RankOf(Standing(u)) + Extra(u) <= Most + Slots - 2
LockRested(u) == users[u] = Removed \/ users[u].locked # Unset => wrong[u] = 0
LockLoaded(l) ==
  logins[l] # Idle /\ users[logins[l].user].locked # Unset /\ ~InForce(users[logins[l].user]) =>
    logins[l].row.locked # Unset
SomeWritten(u) == users[u] # Removed /\ users[u].failed = 0 => Unwritten(u) # Logins

LockInv ==
  /\ wrong \in [Users -> Nat]
  /\ \A l \in Logins : LockLoaded(l)
  /\ \A u \in Users : LockRested(u) /\ SomeWritten(u) /\ Spent(u)

LEMMA SlotsCounted ==
  /\ Slots \in Nat \ {0} /\ Climb \in Nat /\ Most \in Nat \ {0}
  /\ \A s \in SUBSET Logins : IsFiniteSet(s) /\ Cardinality(s) \in 0 .. Slots /\ (s # Logins => Cardinality(s) < Slots)
<1>1. IsFiniteSet(Logins) /\ Logins # {} /\ MaxFailed \in Nat \ {0}
  BY AccountsAssumption
<1>2. Slots \in Nat \ {0}
  BY <1>1, FS_EmptySet, FS_CardinalityType DEF Slots
<1>3. \A s \in SUBSET Logins :
        IsFiniteSet(s) /\ Cardinality(s) <= Slots /\ Cardinality(s) \in Nat /\ (s # Logins => Cardinality(s) # Slots)
  BY <1>1, FS_Subset, FS_CardinalityType DEF Slots
<1>4. Climb \in Nat
  BY <1>1 DEF Climb
<1>5. Most \in Nat \ {0}
  BY <1>2, <1>4, GrowingCounted DEF Most
<1> QED
  BY <1>2, <1>3, <1>4, <1>5

LEMMA StairsGrow ==
  ASSUME NEW s \in Stairs
  PROVE  /\ [i \in 1 .. Climb |-> Cardinality(s[i])] \in Growing(Climb, Slots)
         /\ RankOf(s) \in Nat /\ RankOf(s) + 1 <= Most
<1>1. s \in [1 .. Climb -> SUBSET Logins] /\ \A i, j \in 1 .. Climb : i <= j => s[i] \subseteq s[j]
  BY DEF Stairs
<1>2. \A i \in 1 .. Climb : IsFiniteSet(s[i]) /\ Cardinality(s[i]) \in 0 .. Slots
  BY <1>1, SlotsCounted
<1>3. \A i, j \in 1 .. Climb : i <= j => Cardinality(s[i]) <= Cardinality(s[j])
  BY <1>1, <1>2, FS_Subset
<1>4. [i \in 1 .. Climb |-> Cardinality(s[i])] \in Growing(Climb, Slots)
  BY <1>2, <1>3 DEF Growing
<1> QED
  BY <1>4, RankBounded, SlotsCounted DEF RankOf, Most

LEMMA StairsKept ==
  ASSUME NEW s \in Stairs, NEW t \in Stairs, \A i \in 1 .. Climb : t[i] \subseteq s[i]
  PROVE  RankOf(t) <= RankOf(s)
<1> DEFINE p == [i \in 1 .. Climb |-> Cardinality(s[i])]
           q == [i \in 1 .. Climb |-> Cardinality(t[i])]
<1>1. p \in Growing(Climb, Slots) /\ q \in Growing(Climb, Slots)
  BY StairsGrow
<1>2. \A i \in 1 .. Climb : q[i] <= p[i]
  <2>1. \A i \in 1 .. Climb : IsFiniteSet(s[i])
    BY SlotsCounted DEF Stairs
  <2> QED
    BY <2>1, FS_Subset
<1> HIDE DEF p, q
<1>3. Rank(q, Climb, Slots) <= Rank(p, Climb, Slots)
  BY <1>1, <1>2, RankFollows, SlotsCounted
<1> QED
  BY <1>3 DEF RankOf, p, q

LEMMA StairsDrop ==
  ASSUME NEW s \in Stairs, NEW t \in Stairs, NEW i \in 1 .. Climb, t[i] # s[i], \A j \in 1 .. i : t[j] \subseteq s[j]
  PROVE  RankOf(t) < RankOf(s)
<1> DEFINE p == [j \in 1 .. Climb |-> Cardinality(s[j])]
           q == [j \in 1 .. Climb |-> Cardinality(t[j])]
<1>1. p \in Growing(Climb, Slots) /\ q \in Growing(Climb, Slots)
  BY StairsGrow
<1>2. \A j \in 1 .. Climb : IsFiniteSet(s[j]) /\ Cardinality(s[j]) \in Nat /\ Cardinality(t[j]) \in Nat
  BY SlotsCounted DEF Stairs
<1>3. i \in 1 .. i /\ \A j \in 1 .. i : j \in 1 .. Climb
  BY SlotsCounted
<1>4. q[i] < p[i]
  <2>1. Cardinality(t[i]) <= Cardinality(s[i]) /\ Cardinality(t[i]) # Cardinality(s[i])
    BY <1>2, <1>3, FS_Subset
  <2> QED
    BY <1>2, <2>1
<1>5. \A j \in 1 .. i - 1 : q[j] <= p[j]
  <2>1. \A j \in 1 .. i - 1 : j \in 1 .. i
    OBVIOUS
  <2> QED
    BY <1>2, <1>3, <2>1, FS_Subset
<1> HIDE DEF p, q
<1>6. p \in [1 .. Climb -> 0 .. Slots] /\ q \in [1 .. Climb -> 0 .. Slots]
  BY <1>1 DEF Growing
<1>7. Less(q, p, Climb)
  BY <1>4, <1>5, <1>6, LessWhen, SlotsCounted
<1>8. Rank(q, Climb, Slots) < Rank(p, Climb, Slots)
  BY <1>1, <1>7, RankDrops, SlotsCounted
<1> QED
  BY <1>8 DEF RankOf, p, q

LEMMA StandingType ==
  ASSUME AccountsType, NEW u \in Users, users[u] # Removed
  PROVE  /\ users[u] \in UserRow /\ Effective(u) \in Nat
         /\ \A l \in Logins : About(l, u) => logins[l].row \in UserRow /\ Loaded(l) \in Nat
         /\ Standing(u) \in Stairs
         /\ Unwritten(u) \in SUBSET Logins /\ Extra(u) \in Nat
<1>1. users[u] \in UserRow
  BY DEF AccountsType
<1>2. \A row \in UserRow : row.failed \in Nat
  BY DEF UserRow
<1>3. \A l \in Logins : About(l, u) => logins[l].row \in UserRow
  BY DEF AccountsType, LoginRow, About
<1>4. Effective(u) \in Nat /\ \A l \in Logins : About(l, u) => Loaded(l) \in Nat
  BY <1>1, <1>2, <1>3 DEF Effective, Loaded
<1>5. Standing(u) \in Stairs
  <2>1. ASSUME NEW i \in 1 .. Climb, NEW j \in 1 .. Climb, i <= j PROVE AtMost(u, i - 1) \subseteq AtMost(u, j - 1)
    <3>1. \A a \in Nat : a <= i - 1 => a <= j - 1
      BY <2>1, SlotsCounted
    <3> QED
      BY <1>4, <3>1 DEF AtMost
  <2>2. \A i \in 1 .. Climb : AtMost(u, i - 1) \in SUBSET Logins
    BY DEF AtMost
  <2> QED
    BY <2>1, <2>2 DEF Standing, Stairs
<1>6. Unwritten(u) \in SUBSET Logins
  BY DEF Unwritten
<1>7. Extra(u) \in Nat
  BY <1>6, SlotsCounted DEF Extra
<1> QED
  BY <1>1, <1>3, <1>4, <1>5, <1>6, <1>7

LEMMA StandingTypeNext ==
  ASSUME AccountsType', NEW u \in Users, users'[u] # Removed
  PROVE  /\ users'[u] \in UserRow /\ Effective(u)' \in Nat
         /\ \A l \in Logins : About(l, u)' => logins'[l].row \in UserRow /\ Loaded(l)' \in Nat
         /\ Standing(u)' \in Stairs
         /\ Unwritten(u)' \in SUBSET Logins /\ Extra(u)' \in Nat
<1>1. (AccountsType /\ users[u] # Removed =>
         (/\ users[u] \in UserRow /\ Effective(u) \in Nat
          /\ \A l \in Logins : About(l, u) => logins[l].row \in UserRow /\ Loaded(l) \in Nat
          /\ Standing(u) \in Stairs
          /\ Unwritten(u) \in SUBSET Logins /\ Extra(u) \in Nat))'
  BY StandingType, PTL
<1> QED
  BY <1>1 DEF Stairs

(* After a lock or a right answer everything may be spent again.           *)
LEMMA FreshSpent ==
  ASSUME AccountsType, NEW u \in Users, wrong[u] = 0, SomeWritten(u)
  PROVE  Spent(u)
<1> SUFFICES ASSUME users[u] # Removed PROVE wrong[u] + RankOf(Standing(u)) + Extra(u) <= Most + Slots - 2
  BY DEF Spent
<1>1. RankOf(Standing(u)) \in Nat /\ RankOf(Standing(u)) + 1 <= Most
  BY StandingType, StairsGrow
<1>2. Extra(u) \in Nat /\ Extra(u) <= Slots - 1
  <2>1. Unwritten(u) \in SUBSET Logins
    BY StandingType
  <2> QED
    BY <2>1, SlotsCounted DEF Extra, SomeWritten
<1> QED
  BY <1>1, <1>2, SlotsCounted

LEMMA FreshSpentNext ==
  ASSUME AccountsType', NEW u \in Users, wrong'[u] = 0, SomeWritten(u)'
  PROVE  Spent(u)'
<1>1. (AccountsType /\ wrong[u] = 0 /\ SomeWritten(u) => Spent(u))'
  BY FreshSpent, PTL
<1> QED
  BY <1>1

(* A user whose row is not counted in this step, and about whom no login   *)
(* starts.                                                                 *)
LEMMA UncountedSpent ==
  ASSUME AccountsType, AccountsType', NEW u \in Users, Spent(u), LockRested(u), SomeWritten(u), wrong \in [Users -> Nat],
         users'[u] # Removed => users[u] # Removed /\ users'[u].failed = users[u].failed
                                /\ users'[u].locked = users[u].locked,
         users'[u] = Removed => users[u] = Removed,
         wrong'[u] = wrong[u],
         \A l \in Logins : About(l, u)' => About(l, u) /\ logins'[l] = logins[l] /\ now' = now
  PROVE  (LockRested(u) /\ SomeWritten(u) /\ Spent(u))'
<1>1. LockRested(u)'
  BY DEF LockRested
<1>2. CASE users'[u] = Removed
  BY <1>1, <1>2 DEF SomeWritten, Spent
<1>3. CASE users'[u] # Removed
  <2>1. Unwritten(u)' \subseteq Unwritten(u)
    BY DEF Unwritten, InForce
  <2>2. SomeWritten(u)'
    BY <1>3, <2>1 DEF SomeWritten, Unwritten
  <2>3. Effective(u)' = Effective(u)
    BY <1>3 DEF Effective
  <2>4. \A l \in Logins : About(l, u)' => Loaded(l)' = Loaded(l)
    BY DEF Loaded
  <2>5. \A b \in Nat : AtMost(u, b)' \subseteq AtMost(u, b)
    BY <2>3, <2>4 DEF AtMost
  <2>6. \A i \in 1 .. Climb : Standing(u)'[i] \subseteq Standing(u)[i]
    <3>1. \A i \in 1 .. Climb : i - 1 \in Nat
      BY SlotsCounted
    <3> QED
      BY <2>5, <3>1 DEF Standing
  <2>7. Standing(u) \in Stairs /\ Standing(u)' \in Stairs /\ Extra(u) \in Nat /\ Extra(u)' \in Nat
        /\ Unwritten(u) \in SUBSET Logins
    BY <1>3, StandingType, StandingTypeNext
  <2>8. RankOf(Standing(u))' = RankOf(Standing(u)')
    BY DEF RankOf, Climb, Slots
  <2>9. /\ RankOf(Standing(u)') <= RankOf(Standing(u))
        /\ RankOf(Standing(u)) \in Nat /\ RankOf(Standing(u)') \in Nat
    BY <2>6, <2>7, StairsKept, StairsGrow
  <2>10. Extra(u)' <= Extra(u)
    <3>1. users'[u].failed = users[u].failed
      BY <1>3
    <3>2. Cardinality(Unwritten(u)') <= Cardinality(Unwritten(u))
      BY <2>1, <2>7, SlotsCounted, FS_Subset
    <3> QED
      BY <3>1, <3>2, <2>7 DEF Extra
  <2>11. wrong'[u] + RankOf(Standing(u)') + Extra(u)' <= Most + Slots - 2
    <3>1. wrong[u] + RankOf(Standing(u)) + Extra(u) <= Most + Slots - 2 /\ wrong[u] \in Nat
      BY <1>3 DEF Spent
    <3> QED
      BY <3>1, <2>7, <2>9, <2>10, SlotsCounted
  <2>12. Spent(u)'
    BY <2>8, <2>11 DEF Spent, Most, Slots
  <2> QED
    BY <1>1, <2>2, <2>12
<1> QED
  BY <1>2, <1>3

UserLocked(u) == LockRested(u) /\ SomeWritten(u) /\ Spent(u)

LEMMA AboutSame ==
  ASSUME UNCHANGED <<logins, now>>
  PROVE  \A u \in Users, l \in Logins : About(l, u)' => About(l, u) /\ logins'[l] = logins[l] /\ now' = now
BY DEF About

LEMMA LockEditInv ==
  ASSUME AccountsInv, AccountsInv', LockInv, NEW u \in Users, users[u] # Removed, NEW row \in UserRow,
         row.failed = users[u].failed, row.locked = users[u].locked,
         users' = [users EXCEPT ![u] = row], UNCHANGED <<logins, now, wrong>>
  PROVE  LockInv'
<1>1. users'[u] = row /\ row # Removed /\ \A v \in Users : v # u => users'[v] = users[v]
  BY AccountsAssumption DEF AccountsInv, AccountsType
<1>2. ASSUME NEW v \in Users PROVE UserLocked(v)'
  BY <1>1, AboutSame, UncountedSpent DEF LockInv, AccountsInv, UserLocked
<1>3. ASSUME NEW l \in Logins PROVE LockLoaded(l)'
  <2>1. logins[l] # Idle => logins[l].user \in Users
    BY DEF AccountsInv, AccountsType, LoginRow
  <2> QED
    BY <1>1, <2>1 DEF LockLoaded, InForce, LockInv
<1> QED
  BY <1>2, <1>3 DEF LockInv, UserLocked

LEMMA LockUsersInv ==
  ASSUME AccountsInv, AccountsInv', LockInv,
         \/ \E i \in DOMAIN sessions, old, new \in Passwords : ChangePassword(i, old, new)
         \/ \E i \in DOMAIN sessions, u \in Users, form \in Updates : UpdateUser(i, u, form)
         \/ \E i \in DOMAIN sessions, u \in Users, roles \in RoleLists : AssignRoles(i, u, roles)
  PROVE  LockInv'
<1>1. \A u \in Users : users[u] # Removed => users[u] \in UserRow
  BY DEF AccountsInv, AccountsType
<1>2. ASSUME NEW i \in DOMAIN sessions, NEW old \in Passwords, NEW new \in Passwords, ChangePassword(i, old, new)
      PROVE  LockInv'
  <2>1. PICK u \in Users : u = sessions[i].user /\ users[u] # Removed
    BY SessionUser
  <2>2. PICK row : row = [users[u] EXCEPT !.password = new, !.must_change = FALSE]
    OBVIOUS
  <2>3. row \in UserRow /\ row.failed = users[u].failed /\ row.locked = users[u].locked
    BY <1>1, <2>1, <2>2 DEF UserRow
  <2>4. users' = [users EXCEPT ![u] = row]
    BY <1>2, <2>1, <2>2 DEF ChangePassword, AccountsInv, AccountsType
  <2> QED
    BY <1>2, <2>1, <2>3, <2>4, LockEditInv DEF ChangePassword
<1>3. ASSUME NEW i \in DOMAIN sessions, NEW u \in Users, NEW form \in Updates, UpdateUser(i, u, form)
      PROVE  LockInv'
  <2>1. users[u] \in UserRow /\ users[u] # Removed
    BY <1>1, <1>3 DEF UpdateUser, Existing
  <2>2. PICK row : row = [users[u] EXCEPT !.password = IF form.password = Unset THEN @ ELSE form.password,
                                          !.active = IF form.active = Unset THEN @ ELSE form.active]
    OBVIOUS
  <2>3. row \in UserRow
    <3>1. form.password \in Passwords \cup {Unset} /\ form.active \in BOOLEAN \cup {Unset}
      BY AccountsAssumption
    <3> QED
      BY <2>1, <2>2, <3>1 DEF UserRow
  <2>4. row.failed = users[u].failed /\ row.locked = users[u].locked
    BY <2>1, <2>2 DEF UserRow
  <2>5. users' = [users EXCEPT ![u] = row]
    BY <1>3, <2>2 DEF UpdateUser, AccountsInv, AccountsType
  <2> QED
    BY <1>3, <2>1, <2>3, <2>4, <2>5, LockEditInv DEF UpdateUser
<1>4. ASSUME NEW i \in DOMAIN sessions, NEW u \in Users, NEW roles \in RoleLists, AssignRoles(i, u, roles)
      PROVE  LockInv'
  <2>1. users[u] \in UserRow /\ users[u] # Removed
    BY <1>1, <1>4 DEF AssignRoles, Existing
  <2>2. PICK row : row = [users[u] EXCEPT !.roles = roles \cap DOMAIN SystemRoles]
    OBVIOUS
  <2>3. row \in UserRow /\ row.failed = users[u].failed /\ row.locked = users[u].locked
    BY <2>1, <2>2 DEF UserRow
  <2>4. users' = [users EXCEPT ![u] = row]
    BY <1>4, <2>2 DEF AssignRoles, AccountsInv, AccountsType
  <2> QED
    BY <1>4, <2>1, <2>3, <2>4, LockEditInv DEF AssignRoles
<1> QED
  BY <1>2, <1>3, <1>4

LEMMA LockRegisterInv ==
  ASSUME AccountsInv, AccountsInv', LockInv, NEW u \in Users, NEW form \in Registrations, Register(u, form)
  PROVE  LockInv'
<1>1. /\ users[u] = Removed /\ users' = [users EXCEPT ![u] = NewUser(form.name, form.email, form.password)]
      /\ UNCHANGED <<logins, now, wrong>>
  BY DEF Register
<1>2. /\ users'[u] = NewUser(form.name, form.email, form.password)
      /\ \A v \in Users : v # u => users'[v] = users[v]
  BY <1>1 DEF AccountsInv, AccountsType
<1>3. users'[u].failed = 0 /\ users'[u].locked = Unset
  BY <1>2 DEF NewUser
<1>4. ASSUME NEW v \in Users, v # u PROVE UserLocked(v)'
  BY <1>1, <1>2, <1>4, AboutSame, UncountedSpent DEF LockInv, AccountsInv, UserLocked
<1>5. UserLocked(u)'
  <2>1. wrong'[u] = 0
    BY <1>1 DEF LockInv, LockRested
  <2>2. \A l \in Logins : ~About(l, u)'
    BY <1>1 DEF About, AccountsInv, HaveRows
  <2>3. Unwritten(u)' = {}
    BY <2>2 DEF Unwritten
  <2>4. SomeWritten(u)'
    BY <2>3, AccountsAssumption DEF SomeWritten
  <2> QED
    BY <2>1, <2>4, FreshSpentNext DEF LockRested, UserLocked, AccountsInv
<1>6. ASSUME NEW l \in Logins PROVE LockLoaded(l)'
  <2>1. logins[l] # Idle => logins[l].user \in Users /\ logins[l].user # u
    BY <1>1 DEF AccountsInv, AccountsType, LoginRow, HaveRows
  <2> QED
    BY <1>1, <1>2, <2>1 DEF LockLoaded, InForce, LockInv
<1> QED
  BY <1>4, <1>5, <1>6, <1>1 DEF LockInv, UserLocked

(* The steps that leave the rows and the count alone and only end logins.  *)
LEMMA LockEndsInv ==
  ASSUME AccountsInv, AccountsInv', LockInv, UNCHANGED <<users, wrong>>,
         \A l \in Logins : logins'[l] # Idle => logins'[l] = logins[l] /\ now' = now
  PROVE  LockInv'
<1>1. \A u \in Users, l \in Logins : About(l, u)' => About(l, u) /\ logins'[l] = logins[l] /\ now' = now
  BY DEF About
<1>2. ASSUME NEW u \in Users PROVE UserLocked(u)'
  BY <1>1, UncountedSpent DEF LockInv, AccountsInv, UserLocked
<1>3. ASSUME NEW l \in Logins PROVE LockLoaded(l)'
  BY DEF LockLoaded, InForce, LockInv
<1> QED
  BY <1>2, <1>3 DEF LockInv, UserLocked

LEMMA LockLoadInv ==
  ASSUME AccountsInv, AccountsInv', LockInv, NEW l \in Logins, NEW handle \in Handles, NEW password \in Passwords,
         LoginLoad(l, handle, password)
  PROVE  LockInv'
<1>1. PICK u \in Existing : logins' = [logins EXCEPT ![l] = [user |-> u, row |-> users[u], given |-> password]]
  BY DEF LoginLoad, Matches
<1>2. logins[l] = Idle /\ UNCHANGED <<users, now, wrong>>
  BY DEF LoginLoad
<1>3. u \in Users /\ users[u] # Removed /\ users[u] \in UserRow
  BY DEF Existing, AccountsInv, AccountsType
<1>4. /\ logins'[l] = [user |-> u, row |-> users[u], given |-> password]
      /\ \A k \in Logins : k # l => logins'[k] = logins[k]
  BY <1>1 DEF AccountsInv, AccountsType
<1>5. ASSUME NEW k \in Logins PROVE LockLoaded(k)'
  BY <1>2, <1>4 DEF LockLoaded, InForce, LockInv
<1>6. ASSUME NEW v \in Users, v # u PROVE UserLocked(v)'
  <2>1. \A k \in Logins : About(k, v)' => About(k, v) /\ logins'[k] = logins[k] /\ now' = now
    BY <1>2, <1>4, <1>6 DEF About
  <2> QED
    BY <1>2, <2>1, UncountedSpent DEF LockInv, AccountsInv, UserLocked
<1>7. CASE users[u].locked # Unset
  <2>1. wrong'[u] = 0 /\ LockRested(u)'
    BY <1>2, <1>3, <1>7 DEF LockInv, LockRested
  <2>2. SomeWritten(u)'
    BY <1>2, <1>4 DEF SomeWritten, Unwritten
  <2> QED
    BY <1>2, <1>3, <1>5, <1>6, <2>1, <2>2, FreshSpentNext DEF LockInv, UserLocked, AccountsInv
<1>8. CASE users[u].locked = Unset
  <2>1. Effective(u)' = Effective(u) /\ Loaded(l)' = Effective(u)
    BY <1>2, <1>4, <1>8 DEF Effective, Loaded
  <2>2. \A k \in Logins : About(k, u)' => k = l \/ (About(k, u) /\ Loaded(k)' = Loaded(k))
    BY <1>4 DEF About, Loaded
  <2>3. \A b \in Nat : AtMost(u, b)' = AtMost(u, b)
    BY <1>2, <1>4, <2>1, <2>2 DEF AtMost, About, Loaded
  <2>4. Standing(u)' = Standing(u)
    <3>1. \A i \in 1 .. Climb : i - 1 \in Nat
      BY SlotsCounted
    <3> QED
      BY <2>3, <3>1 DEF Standing, Climb
  <2>5. Unwritten(u)' = Unwritten(u)
    BY <1>2, <1>4, <1>8 DEF Unwritten, About, InForce
  <2>6. UserLocked(u)'
    <3>1. LockRested(u)' /\ SomeWritten(u)'
      BY <1>2, <1>3, <2>5 DEF LockInv, LockRested, SomeWritten
    <3>2. RankOf(Standing(u))' = RankOf(Standing(u))
      <4>1. RankOf(Standing(u))' = RankOf(Standing(u)')
        BY DEF RankOf, Climb, Slots
      <4> QED
        BY <4>1, <2>4
    <3>3. Extra(u)' = Extra(u) /\ Most' = Most /\ Slots' = Slots
      BY <1>2, <2>5 DEF Extra, Most, Slots, Climb
    <3>4. Spent(u)'
      BY <1>2, <1>3, <3>2, <3>3 DEF Spent, LockInv
    <3> QED
      BY <3>1, <3>4 DEF UserLocked
  <2> QED
    BY <1>2, <1>5, <1>6, <2>6 DEF LockInv, UserLocked
<1> QED
  BY <1>7, <1>8

(* The wrong answer.  Its count is one more than it stood at, which was no *)
(* more than the row's, or the row keeps the count it had before a lock.   *)
LEMMA LockWrongRow ==
  ASSUME AccountsInv, LockInv, NEW l \in Logins, LoginWrong(l),
         NEW u, u = logins[l].user, NEW loaded, loaded = logins[l].row,
         NEW after, after = Written(users[u], loaded, CountedWrong(Unlocked(loaded)))
  PROVE  /\ u \in Users /\ users[u] # Removed /\ after \in UserRow /\ About(l, u) /\ Loaded(l) \in Nat
         /\ InForce(after) \/ (after.locked = users[u].locked) \/ after.locked = Unset
         /\ InForce(users[u]) \/ InForce(after) \/
              /\ after.locked = Unset /\ Loaded(l) + 1 <= Climb
              /\ \/ after.failed = Loaded(l) + 1
                 \/ /\ Loaded(l) = 0 /\ after.failed = users[u].failed
                    /\ loaded.locked # Unset /\ loaded.failed = 1
<1>1. logins[l] # Idle /\ ~InForce(loaded)
  BY DEF LoginWrong
<1>2. /\ u \in Users /\ loaded \in UserRow /\ users[u] # Removed /\ users[u] \in UserRow
  BY <1>1 DEF AccountsInv, AccountsType, LoginRow, HaveRows
<1>3. About(l, u)
  BY <1>1 DEF About
<1> DEFINE g == Unlocked(loaded).failed
           row == CountedWrong(Unlocked(loaded))
<1>4. g \in Nat /\ g = Loaded(l) /\ Unlocked(loaded).locked = Unset /\ Unlocked(loaded) \in UserRow
  BY <1>2 DEF Unlocked, Loaded, UserRow
<1>5. /\ row.failed = g + 1
      /\ row.locked = IF g + 1 >= MaxFailed THEN now + LockFor ELSE Unset
  BY <1>4 DEF CountedWrong, UserRow
<1>6. /\ after.failed = IF row.failed # loaded.failed THEN row.failed ELSE users[u].failed
      /\ after.locked = IF row.locked # loaded.locked THEN row.locked ELSE users[u].locked
  BY <1>2 DEF Written, UserRow
<1>7. after \in UserRow
  BY <1>2, AnswerTypes, WrittenType
<1>8. now \in Nat /\ now + LockFor \in Nat /\ now + LockFor > now /\ now + LockFor # Unset
  BY AccountsAssumption DEF AccountsInv, AccountsType
<1>9. loaded.locked \in Nat \cup {Unset} /\ (loaded.locked # Unset => ~(loaded.locked > now))
      /\ users[u].locked \in Nat \cup {Unset}
  BY <1>1, <1>2 DEF InForce, UserRow
<1>10. loaded.locked # now + LockFor
  BY <1>8, <1>9
<1> HIDE DEF row, g
<1>11. CASE g + 1 >= MaxFailed
  <2>1. after.locked = now + LockFor
    BY <1>5, <1>6, <1>10, <1>11
  <2>2. InForce(after)
    BY <2>1, <1>8 DEF InForce
  <2> QED
    BY <1>2, <1>3, <1>4, <1>7, <2>2
<1>12. CASE ~(g + 1 >= MaxFailed)
  <2>1. Loaded(l) + 1 <= Climb
    BY <1>4, <1>12, AccountsAssumption DEF Climb
  <2>2. row.locked = Unset
    BY <1>5, <1>12
  <2>3. after.locked = users[u].locked \/ after.locked = Unset
    BY <1>6, <2>2
  <2>4. InForce(users[u]) \/ after.locked = Unset
    <3>1. SUFFICES ASSUME ~InForce(users[u]), after.locked # Unset PROVE FALSE
      OBVIOUS
    <3>2. loaded.locked = Unset /\ users[u].locked # Unset
      BY <1>6, <2>2, <3>1
    <3>3. loaded.locked # Unset
      BY <1>1, <3>1, <3>2 DEF LockInv, LockLoaded
    <3> QED
      BY <3>2, <3>3
  <2>5. \/ after.failed = Loaded(l) + 1
        \/ /\ Loaded(l) = 0 /\ after.failed = users[u].failed
           /\ loaded.locked # Unset /\ loaded.failed = 1
    <3>1. SUFFICES ASSUME after.failed # Loaded(l) + 1
                   PROVE  Loaded(l) = 0 /\ after.failed = users[u].failed /\ loaded.locked # Unset /\ loaded.failed = 1
      OBVIOUS
    <3>2. loaded.failed = Loaded(l) + 1 /\ after.failed = users[u].failed
      BY <1>4, <1>5, <1>6, <3>1
    <3>3. loaded.locked # Unset /\ Loaded(l) = 0
      <4>1. loaded.failed \in Nat
        BY <1>2 DEF UserRow
      <4> QED
        BY <3>2, <4>1 DEF Loaded
    <3> QED
      BY <3>2, <3>3
  <2> QED
    BY <1>2, <1>3, <1>4, <1>7, <2>1, <2>3, <2>4, <2>5
<1> QED
  BY <1>11, <1>12

LEMMA LockWrongInv ==
  ASSUME AccountsInv, AccountsInv', LockInv, NEW l \in Logins, LoginWrong(l)
  PROVE  LockInv'
<1>1. PICK u : u = logins[l].user
  OBVIOUS
<1>2. PICK loaded : loaded = logins[l].row
  OBVIOUS
<1>3. PICK after : after = Written(users[u], loaded, CountedWrong(Unlocked(loaded)))
  OBVIOUS
<1>4. /\ u \in Users /\ users[u] # Removed /\ after \in UserRow /\ About(l, u) /\ Loaded(l) \in Nat
      /\ InForce(after) \/ (after.locked = users[u].locked) \/ after.locked = Unset
      /\ InForce(users[u]) \/ InForce(after) \/
           /\ after.locked = Unset /\ Loaded(l) + 1 <= Climb
           /\ \/ after.failed = Loaded(l) + 1
              \/ /\ Loaded(l) = 0 /\ after.failed = users[u].failed
                 /\ loaded.locked # Unset /\ loaded.failed = 1
  BY <1>1, <1>2, <1>3, LockWrongRow
<1>5. /\ logins[l] # Idle /\ ~InForce(loaded) /\ now' = now
      /\ users' = [users EXCEPT ![u] = after] /\ logins' = [logins EXCEPT ![l] = Idle]
      /\ wrong' = [wrong EXCEPT ![u] = IF InForce(users[u]) \/ InForce(after) THEN 0 ELSE @ + 1]
  BY <1>1, <1>2, <1>3 DEF LoginWrong
<1>6. /\ users'[u] = after /\ \A v \in Users : v # u => users'[v] = users[v]
      /\ logins'[l] = Idle /\ \A k \in Logins : k # l => logins'[k] = logins[k]
      /\ wrong'[u] = (IF InForce(users[u]) \/ InForce(after) THEN 0 ELSE wrong[u] + 1)
      /\ \A v \in Users : v # u => wrong'[v] = wrong[v]
      /\ wrong' \in [Users -> Nat] /\ users'[u] # Removed
  BY <1>4, <1>5, AccountsAssumption DEF AccountsInv, AccountsType, LockInv
<1>7. ASSUME NEW k \in Logins PROVE LockLoaded(k)'
  <2>1. logins[k] # Idle => logins[k].user \in Users
    BY DEF AccountsInv, AccountsType, LoginRow
  <2> QED
    BY <1>4, <1>5, <1>6, <2>1 DEF LockLoaded, InForce, LockInv
<1>8. ASSUME NEW v \in Users, v # u PROVE UserLocked(v)'
  <2>1. \A k \in Logins : About(k, v)' => About(k, v) /\ logins'[k] = logins[k] /\ now' = now
    BY <1>5, <1>6 DEF About
  <2> QED
    BY <1>6, <1>8, <2>1, UncountedSpent DEF LockInv, AccountsInv, UserLocked
<1>9. SomeWritten(u)'
  BY <1>6 DEF SomeWritten, Unwritten, About
<1>10. CASE InForce(users[u]) \/ InForce(after)
  <2>1. wrong'[u] = 0
    BY <1>6, <1>10
  <2> QED
    BY <1>4, <1>6, <1>7, <1>8, <1>9, <2>1, FreshSpentNext DEF LockInv, LockRested, UserLocked, AccountsInv
<1>11. CASE ~(InForce(users[u]) \/ InForce(after))
  <2>1. /\ after.locked = Unset /\ Loaded(l) + 1 <= Climb /\ wrong'[u] = wrong[u] + 1
        /\ \/ after.failed = Loaded(l) + 1
           \/ /\ Loaded(l) = 0 /\ after.failed = users[u].failed
              /\ loaded.locked # Unset /\ loaded.failed = 1
    BY <1>4, <1>6, <1>11
  <2>2. LockRested(u)'
    BY <1>6, <2>1 DEF LockRested
  <2>3. Effective(u)' = after.failed /\ after.failed \in Nat
    BY <1>4, <1>6, <2>1 DEF Effective, UserRow
  <2>4. /\ Standing(u) \in Stairs /\ Standing(u)' \in Stairs /\ Extra(u) \in Nat /\ Extra(u)' \in Nat
        /\ Unwritten(u) \in SUBSET Logins
    BY <1>4, <1>6, StandingType, StandingTypeNext DEF AccountsInv
  <2>5. RankOf(Standing(u))' = RankOf(Standing(u)')
    BY DEF RankOf, Climb, Slots
  <2>6. RankOf(Standing(u)) \in Nat /\ RankOf(Standing(u)') \in Nat
    BY <2>4, StairsGrow
  <2>7. \A k \in Logins : About(k, u)' => k # l /\ About(k, u) /\ Loaded(k)' = Loaded(k)
    BY <1>6 DEF About, Loaded
  <2>8. RankOf(Standing(u)') + Extra(u)' + 1 <= RankOf(Standing(u)) + Extra(u)
    <3>1. CASE after.failed > Loaded(l)
      <4>1. ASSUME NEW b \in Nat, b <= Loaded(l)
            PROVE  AtMost(u, b)' \subseteq AtMost(u, b) /\ l \notin AtMost(u, b)'
        <5>1. ~(Effective(u)' <= b)
          BY <1>4, <2>3, <3>1, <4>1
        <5> QED
          BY <2>7, <5>1 DEF AtMost
      <4>2. PICK i \in 1 .. Climb : i = Loaded(l) + 1
        BY <1>4, <2>1, SlotsCounted
      <4>3. l \in AtMost(u, Loaded(l))
        BY <1>4 DEF AtMost
      <4>4. \A j \in 1 .. i : j \in 1 .. Climb /\ j - 1 \in Nat /\ j - 1 <= Loaded(l)
        BY <1>4, <4>2, SlotsCounted
      <4>5. \A j \in 1 .. i : Standing(u)[j] = AtMost(u, j - 1) /\ Standing(u)'[j] = AtMost(u, j - 1)'
        BY <4>4 DEF Standing, Climb
      <4>6. i \in 1 .. i /\ i - 1 = Loaded(l)
        BY <1>4, <4>2
      <4>7. \A j \in 1 .. i : Standing(u)'[j] \subseteq Standing(u)[j]
        BY <4>1, <4>4, <4>5
      <4>8. Standing(u)'[i] # Standing(u)[i]
        <5>1. l \in Standing(u)[i]
          BY <4>3, <4>5, <4>6
        <5>2. l \notin Standing(u)'[i]
          BY <4>1, <4>4, <4>5, <4>6
        <5> QED
          BY <5>1, <5>2
      <4>9. RankOf(Standing(u)') < RankOf(Standing(u))
        BY <2>4, <4>7, <4>8, StairsDrop
      <4>10. Extra(u)' = 0
        <5>1. after.failed # 0
          BY <1>4, <2>3, <3>1
        <5> QED
          BY <1>6, <5>1 DEF Extra
      <4> QED
        BY <2>4, <2>6, <4>9, <4>10
    <3>2. CASE ~(after.failed > Loaded(l))
      <4>1. /\ Loaded(l) = 0 /\ after.failed = 0 /\ users[u].failed = 0
            /\ loaded.locked # Unset /\ loaded.failed = 1
        BY <1>4, <2>1, <2>3, <3>2
      <4>2. Effective(u) = 0 /\ Effective(u)' = 0
        BY <2>3, <4>1 DEF Effective
      <4>3. \A b \in Nat : AtMost(u, b)' = AtMost(u, b)
        BY <4>2 DEF AtMost
      <4>4. Standing(u)' = Standing(u)
        <5>1. \A i \in 1 .. Climb : i - 1 \in Nat
          BY SlotsCounted
        <5> QED
          BY <4>3, <5>1 DEF Standing, Climb
      <4>5. l \in Unwritten(u)
        BY <1>2, <1>4, <1>5, <4>1 DEF Unwritten
      <4>6. Unwritten(u)' = Unwritten(u) \ {l}
        <5>1. \A k \in Logins : k # l => (About(k, u)' <=> About(k, u)) /\ logins'[k] = logins[k]
          BY <1>6 DEF About
        <5> QED
          BY <1>5, <2>7, <5>1 DEF Unwritten, InForce
      <4>7. Cardinality(Unwritten(u)') = Cardinality(Unwritten(u)) - 1
        BY <2>4, <4>5, <4>6, SlotsCounted, FS_RemoveElement
      <4>8. Extra(u)' = Extra(u) - 1
        BY <1>6, <4>1, <4>7 DEF Extra
      <4> QED
        BY <2>4, <2>6, <4>4, <4>8
    <3> QED
      BY <3>1, <3>2
  <2>9. wrong[u] + RankOf(Standing(u)) + Extra(u) <= Most + Slots - 2 /\ wrong[u] \in Nat
    BY <1>4 DEF LockInv, Spent
  <2>10. wrong'[u] + RankOf(Standing(u)') + Extra(u)' <= Most + Slots - 2
    BY <2>1, <2>4, <2>6, <2>8, <2>9, SlotsCounted
  <2>11. Spent(u)'
    BY <2>5, <2>10 DEF Spent, Most, Slots, Climb
  <2> QED
    BY <1>6, <1>7, <1>8, <1>9, <2>2, <2>11 DEF LockInv, UserLocked
<1> QED
  BY <1>10, <1>11

LEMMA LockRightInv ==
  ASSUME AccountsInv, AccountsInv', LockInv, NEW l \in Logins, LoginRight(l)
  PROVE  LockInv'
<1>1. PICK u : u = logins[l].user
  OBVIOUS
<1>2. PICK loaded : loaded = logins[l].row
  OBVIOUS
<1>3. PICK after : after = Written(users[u], loaded, [Unlocked(loaded) EXCEPT !.failed = 0])
  OBVIOUS
<1>4. logins[l] # Idle
  BY DEF LoginRight
<1>5. u \in Users /\ users[u] # Removed /\ users[u] \in UserRow /\ loaded \in UserRow
  BY <1>1, <1>2, <1>4 DEF AccountsInv, AccountsType, LoginRow, HaveRows
<1>6. after \in UserRow
  BY <1>3, <1>5, AnswerTypes, WrittenType
<1>7. /\ users' = [users EXCEPT ![u] = after] /\ logins' = [logins EXCEPT ![l] = Idle]
      /\ wrong' = [wrong EXCEPT ![u] = 0] /\ now' = now
  BY <1>1, <1>2, <1>3, <1>5 DEF LoginRight, AccountsInv, AccountsType
<1>8. /\ users'[u] = after /\ \A v \in Users : v # u => users'[v] = users[v]
      /\ logins'[l] = Idle /\ \A k \in Logins : k # l => logins'[k] = logins[k]
      /\ wrong'[u] = 0 /\ \A v \in Users : v # u => wrong'[v] = wrong[v]
      /\ wrong' \in [Users -> Nat] /\ users'[u] # Removed
  BY <1>5, <1>6, <1>7, AccountsAssumption DEF AccountsInv, AccountsType, LockInv
<1>9. after.locked = users[u].locked \/ after.locked = Unset
  <2>1. [Unlocked(loaded) EXCEPT !.failed = 0].locked = Unset
    BY <1>5 DEF Unlocked, UserRow
  <2>2. \A row : Written(users[u], loaded, row).locked = (IF row.locked # loaded.locked THEN row.locked ELSE users[u].locked)
    BY <1>5 DEF Written, UserRow
  <2> QED
    BY <1>3, <2>1, <2>2
<1>10. ASSUME NEW k \in Logins PROVE LockLoaded(k)'
  <2>1. logins[k] # Idle => logins[k].user \in Users
    BY DEF AccountsInv, AccountsType, LoginRow
  <2> QED
    BY <1>7, <1>8, <1>9, <2>1 DEF LockLoaded, InForce, LockInv
<1>11. ASSUME NEW v \in Users, v # u PROVE UserLocked(v)'
  <2>1. \A k \in Logins : About(k, v)' => About(k, v) /\ logins'[k] = logins[k] /\ now' = now
    BY <1>7, <1>8 DEF About
  <2> QED
    BY <1>8, <1>11, <2>1, UncountedSpent DEF LockInv, AccountsInv, UserLocked
<1>12. SomeWritten(u)' /\ LockRested(u)'
  BY <1>8 DEF SomeWritten, Unwritten, About, LockRested
<1>13. Spent(u)'
  BY <1>5, <1>8, <1>12, FreshSpentNext DEF AccountsInv
<1> QED
  BY <1>8, <1>10, <1>11, <1>12, <1>13 DEF LockInv, UserLocked

LEMMA LockNextInv == AccountsInv /\ LockInv /\ [AccountsNext]_accountVars => LockInv'
<1> SUFFICES ASSUME AccountsInv, LockInv, [AccountsNext]_accountVars PROVE LockInv'
  OBVIOUS
<1>1. AccountsInv'
  BY AccountsNextInv
<1>2. CASE UNCHANGED accountVars
  BY <1>1, <1>2, LockEndsInv DEF accountVars
<1>3. CASE Tick
  BY <1>1, <1>3, LockEndsInv DEF Tick
<1>4. CASE Restart
  BY <1>1, <1>4, LockEndsInv DEF Restart
<1>5. ASSUME NEW l \in Logins, LoginLocked(l) PROVE LockInv'
  <2>1. \A k \in Logins : logins'[k] # Idle => logins'[k] = logins[k]
    BY <1>5 DEF LoginLocked, AccountsInv, AccountsType
  <2> QED
    BY <1>1, <1>5, <2>1, LockEndsInv DEF LoginLocked
<1>6. ASSUME NEW i \in DOMAIN sessions, Refresh(i) \/ Logout(i) PROVE LockInv'
  BY <1>1, <1>6, LockEndsInv DEF Refresh, Logout
<1>7. CASE \E u \in Users, form \in Registrations : Register(u, form)
  BY <1>1, <1>7, LockRegisterInv
<1> QED
  BY <1>1, <1>2, <1>3, <1>4, <1>5, <1>6, <1>7, LockLoadInv, LockWrongInv, LockRightInv, LockUsersInv DEF AccountsNext

LEMMA LockInitInv == AccountsInit => LockInv
<1> SUFFICES ASSUME AccountsInit PROVE LockInv
  OBVIOUS
<1>1. AccountsInv
  BY AccountsInitInv
<1>2. /\ wrong \in [Users -> Nat] /\ \A u \in Users : wrong[u] = 0
      /\ \A l \in Logins : logins[l] = Idle
  BY DEF AccountsInit
<1>3. \A u \in Users : SomeWritten(u)
  BY <1>2, AccountsAssumption DEF SomeWritten, Unwritten, About
<1>4. \A u \in Users : LockRested(u) /\ Spent(u)
  BY <1>1, <1>2, <1>3, FreshSpent DEF LockRested, AccountsInv
<1> QED
  BY <1>2, <1>3, <1>4 DEF LockInv, LockLoaded

LEMMA LockFollows == AccountsInv /\ LockInv => LockoutBounded
<1> SUFFICES ASSUME AccountsInv, LockInv, NEW u \in Users
             PROVE  wrong[u] <= choose(MaxFailed + Slots - 1, Slots) + Slots - 2
  BY DEF LockoutBounded, Slots
<1>1. Most = choose(MaxFailed + Slots - 1, Slots)
  BY GrowingChoices, SlotsCounted, AccountsAssumption DEF Most, Climb
<1>2. CASE users[u] = Removed
  BY <1>1, <1>2, SlotsCounted DEF LockInv, LockRested
<1>3. CASE users[u] # Removed
  <2>1. Standing(u) \in Stairs /\ Extra(u) \in Nat
    BY <1>3, StandingType DEF AccountsInv
  <2>2. RankOf(Standing(u)) \in Nat
    BY <2>1, StairsGrow
  <2>3. wrong[u] + RankOf(Standing(u)) + Extra(u) <= Most + Slots - 2 /\ wrong[u] \in Nat
    BY <1>3 DEF LockInv, Spent
  <2> QED
    BY <1>1, <2>1, <2>2, <2>3, SlotsCounted
<1> QED
  BY <1>2, <1>3

(* However logins overlap and whatever is written between their two steps, *)
(* for every lock threshold and every number of logins: an account is      *)
(* locked, or a right answer comes, before more wrong answers than         *)
(* LockoutBounded says (authenticate_user in auth_service.py).             *)
THEOREM LockoutAlwaysBounded == ManagementSpec => []LockoutBounded
<1>1. ManagementInit => AccountsInv /\ LockInv
  BY AccountsInitInv, LockInitInv DEF ManagementInit
<1>2. AccountsInv /\ LockInv /\ [ManagementNext]_managementVars => (AccountsInv /\ LockInv)'
  <2>1. [ManagementNext]_managementVars => [AccountsNext]_accountVars
    BY DEF ManagementNext, managementVars
  <2> QED
    BY <2>1, AccountsNextInv, LockNextInv
<1> QED
  BY <1>1, <1>2, LockFollows, PTL DEF ManagementSpec

-----------------------------------------------------------------------------
(* Locks.  What an answer writes is the column as it was, none, or a lock  *)
(* made now; and none that is stored, or was loaded, ends later than that. *)
LocksEnd ==
  \A u \in Users : users[u] # Removed /\ users[u].locked # Unset => users[u].locked <= now + LockFor

(* The first of them, if what was loaded is not in force.                  *)
LEMMA AnswerLocks ==
  ASSUME AccountsInv, NEW stored \in UserRow, NEW loaded \in UserRow, NEW row,
         row \in {CountedWrong(Unlocked(loaded)), [Unlocked(loaded) EXCEPT !.failed = 0]}
  PROVE  \/ Written(stored, loaded, row).locked = stored.locked
         \/ Written(stored, loaded, row).locked = now + LockFor
         \/ Written(stored, loaded, row).locked = Unset /\ loaded.locked # Unset
<1>1. Unlocked(loaded) \in UserRow /\ Unlocked(loaded).locked = Unset
  BY DEF Unlocked, UserRow
<1>2. row.locked \in {Unset, now + LockFor}
  BY <1>1 DEF CountedWrong, UserRow
<1>3. Written(stored, loaded, row).locked = IF row.locked # loaded.locked THEN row.locked ELSE stored.locked
  BY DEF Written, UserRow
<1> QED
  BY <1>2, <1>3

(* What a step makes of the lock of a user who has a row.                  *)
LEMMA LockSteps ==
  ASSUME AccountsInv, [AccountsNext]_accountVars, NEW u \in Users, users[u] # Removed
  PROVE  \/ users'[u].locked = users[u].locked
         \/ users'[u].locked = now + LockFor
         \/ /\ users'[u].locked = Unset
            /\ \E l \in Logins :
                 /\ logins[l] # Idle /\ logins'[l] = Idle /\ logins[l].user = u
                 /\ logins[l].row.locked # Unset /\ ~InForce(logins[l].row)
<1>1. users[u] \in UserRow /\ users \in [Users -> UserRow \cup {Removed}]
  BY DEF AccountsInv, AccountsType
<1>2. ASSUME NEW l \in Logins, LoginWrong(l) \/ LoginRight(l), users'[u] # users[u]
      PROVE  \/ users'[u].locked = users[u].locked
             \/ users'[u].locked = now + LockFor
             \/ /\ users'[u].locked = Unset
                /\ logins[l] # Idle /\ logins'[l] = Idle /\ logins[l].user = u
                /\ logins[l].row.locked # Unset /\ ~InForce(logins[l].row)
  <2>1. /\ logins[l] # Idle /\ logins' = [logins EXCEPT ![l] = Idle] /\ ~InForce(logins[l].row)
        /\ logins[l].user \in Users
    BY <1>2 DEF LoginWrong, LoginRight, AccountsInv, AccountsType, LoginRow
  <2>2. PICK loaded \in UserRow : loaded = logins[l].row
    BY <2>1, LoginEnds
  <2>3. PICK row \in {CountedWrong(Unlocked(loaded)), [Unlocked(loaded) EXCEPT !.failed = 0]} :
          users' = [users EXCEPT ![logins[l].user] = Written(users[logins[l].user], loaded, row)]
    BY <1>1, <1>2, <2>1, <2>2 DEF LoginWrong, LoginRight
  <2>4. logins[l].user = u /\ users'[u] = Written(users[u], loaded, row)
    BY <1>1, <1>2, <2>1, <2>3
  <2>5. logins'[l] = Idle
    BY <2>1 DEF AccountsInv, AccountsType
  <2> QED
    BY <1>1, <2>1, <2>2, <2>4, <2>5, AnswerLocks
<1>3. ASSUME NEW i \in DOMAIN sessions, NEW old \in Passwords, NEW new \in Passwords, ChangePassword(i, old, new)
      PROVE  users'[u].locked = users[u].locked
  BY <1>1, <1>3 DEF ChangePassword, UserRow
<1>4. ASSUME NEW i \in DOMAIN sessions, NEW v \in Users,
             (\E form \in Updates : UpdateUser(i, v, form)) \/ (\E roles \in RoleLists : AssignRoles(i, v, roles))
      PROVE  users'[u].locked = users[u].locked
  <2>1. users[v] \in UserRow
    BY <1>4 DEF UpdateUser, AssignRoles, Existing, AccountsInv, AccountsType
  <2>2. ASSUME NEW row, users' = [users EXCEPT ![v] = row], row.locked = users[v].locked
        PROVE  users'[u].locked = users[u].locked
    BY <1>1, <2>2
  <2>3. ASSUME NEW form \in Updates, UpdateUser(i, v, form)
        PROVE  users'[u].locked = users[u].locked
    <3>1. PICK row : row = [users[v] EXCEPT !.password = IF form.password = Unset THEN @ ELSE form.password,
                                            !.active = IF form.active = Unset THEN @ ELSE form.active]
      OBVIOUS
    <3>2. row.locked = users[v].locked
      BY <2>1, <3>1 DEF UserRow
    <3>3. users' = [users EXCEPT ![v] = row]
      BY <2>3, <3>1, <1>1 DEF UpdateUser
    <3> QED
      BY <2>2, <3>2, <3>3
  <2>4. ASSUME NEW roles \in RoleLists, AssignRoles(i, v, roles)
        PROVE  users'[u].locked = users[u].locked
    <3>1. PICK row : row = [users[v] EXCEPT !.roles = roles \cap DOMAIN SystemRoles]
      OBVIOUS
    <3>2. row.locked = users[v].locked
      BY <2>1, <3>1 DEF UserRow
    <3>3. users' = [users EXCEPT ![v] = row]
      BY <2>4, <3>1, <1>1 DEF AssignRoles
    <3> QED
      BY <2>2, <3>2, <3>3
  <2> QED
    BY <1>4, <2>3, <2>4
<1>5. ASSUME NEW v \in Users, NEW form \in Registrations, Register(v, form)
      PROVE  users'[u] = users[u]
  BY <1>1, <1>5 DEF Register
<1>6. UNCHANGED accountVars \/ Tick \/ Restart => users' = users
  BY DEF accountVars, Tick, Restart
<1>7. \A l \in Logins :
        /\ LoginLocked(l) => users' = users
        /\ \A handle \in Handles, password \in Passwords : LoginLoad(l, handle, password) => users' = users
  BY DEF LoginLocked, LoginLoad
<1>8. \A i \in DOMAIN sessions : Refresh(i) \/ Logout(i) => users' = users
  BY DEF Refresh, Logout
<1>9. CASE \E l \in Logins : LoginWrong(l) \/ LoginRight(l)
  <2>1. PICK l \in Logins : LoginWrong(l) \/ LoginRight(l)
    BY <1>9
  <2>2. CASE users'[u] = users[u]
    BY <2>2
  <2>3. CASE users'[u] # users[u]
    BY <1>2, <2>1, <2>3
  <2> QED
    BY <2>2, <2>3
<1>10. CASE AccountsNext /\ ~(\E l \in Logins : LoginWrong(l) \/ LoginRight(l))
  <2> DEFINE LogsIn == \E l \in Logins : \/ \E handle \in Handles, password \in Passwords : LoginLoad(l, handle, password)
                                       \/ LoginLocked(l)
             RenewsOrEnds == \E i \in DOMAIN sessions : Refresh(i) \/ Logout(i)
             ChangesOwn == \E i \in DOMAIN sessions, old, new \in Passwords : ChangePassword(i, old, new)
             EditsUser == \E i \in DOMAIN sessions, v \in Users :
                        (\E form \in Updates : UpdateUser(i, v, form)) \/ (\E roles \in RoleLists : AssignRoles(i, v, roles))
             AddsUser == \E v \in Users, form \in Registrations : Register(v, form)
  <2>1. LogsIn \/ RenewsOrEnds \/ ChangesOwn \/ EditsUser \/ AddsUser \/ Restart \/ Tick
    BY <1>10 DEF AccountsNext
  <2>2. LogsIn => users' = users
    BY <1>7
  <2>3. RenewsOrEnds => users' = users
    BY <1>8
  <2>4. ChangesOwn => users'[u].locked = users[u].locked
    BY <1>3
  <2>5. EditsUser => users'[u].locked = users[u].locked
    BY <1>4
  <2>6. AddsUser => users'[u].locked = users[u].locked
    BY <1>5
  <2> HIDE DEF LogsIn, RenewsOrEnds, ChangesOwn, EditsUser, AddsUser
  <2>7. users'[u].locked = users[u].locked
    BY <2>1, <2>2, <2>3, <2>4, <2>5, <2>6, <1>6
  <2> QED
    BY <2>7
<1>11. CASE UNCHANGED accountVars
  BY <1>6, <1>11
<1> QED
  BY <1>9, <1>10, <1>11

LEMMA LocksEndNext == AccountsInv /\ LocksEnd /\ [AccountsNext]_accountVars => LocksEnd'
<1> SUFFICES ASSUME AccountsInv, LocksEnd, [AccountsNext]_accountVars, NEW u \in Users,
                    users'[u] # Removed, users'[u].locked # Unset
             PROVE  users'[u].locked <= now' + LockFor
  BY DEF LocksEnd
<1>1. now \in Nat /\ LockFor \in Nat /\ now' \in {now, now + 1}
  BY AccountsAssumption DEF AccountsInv, AccountsType, AccountsNext, accountVars, Tick, Restart, LoginLocked, LoginLoad,
     LoginWrong, LoginRight, Refresh, Logout, ChangePassword, UpdateUser, AssignRoles, Register
<1>2. CASE users[u] # Removed
  <2>1. users'[u].locked = users[u].locked \/ users'[u].locked = now + LockFor
    BY <1>2, LockSteps
  <2>2. users[u].locked \in Nat \cup {Unset}
    BY <1>2 DEF AccountsInv, AccountsType, UserRow
  <2>3. users'[u].locked = users[u].locked => users[u].locked <= now + LockFor /\ users[u].locked \in Nat
    BY <1>2, <2>2 DEF LocksEnd
  <2> QED
    BY <1>1, <2>1, <2>3
<1>3. CASE users[u] = Removed
  <2>1. \A v \in Users : v = u => users'[v].locked = Unset \/ users'[v] = users[v]
    <3>1. \A l \in Logins : LoginWrong(l) \/ LoginRight(l) => logins[l].user # u
      BY <1>3 DEF LoginWrong, LoginRight, AccountsInv, HaveRows
    <3>2. \A i \in DOMAIN sessions : sessions[i].user # u
      BY <1>3, SessionUser
    <3>3. users \in [Users -> UserRow \cup {Removed}] /\ \A l \in Logins : logins[l] # Idle => logins[l].user \in Users
      BY DEF AccountsInv, AccountsType, LoginRow
    <3>4. ASSUME NEW l \in Logins, LoginWrong(l) \/ LoginRight(l) PROVE users'[u] = users[u]
      BY <3>1, <3>3, <3>4 DEF LoginWrong, LoginRight
    <3>5. ASSUME NEW i \in DOMAIN sessions, NEW old \in Passwords, NEW new \in Passwords, ChangePassword(i, old, new)
          PROVE  users'[u] = users[u]
      BY <3>2, <3>3, <3>5 DEF ChangePassword
    <3>6. ASSUME NEW i \in DOMAIN sessions, NEW v \in Users,
                 (\E form \in Updates : UpdateUser(i, v, form)) \/ (\E roles \in RoleLists : AssignRoles(i, v, roles))
          PROVE  users'[u] = users[u]
      BY <1>3, <3>3, <3>6 DEF UpdateUser, AssignRoles, Existing
    <3>7. ASSUME NEW v \in Users, NEW form \in Registrations, Register(v, form)
          PROVE  users'[u].locked = Unset \/ users'[u] = users[u]
      BY <3>3, <3>7 DEF Register, NewUser
    <3>8. CASE UNCHANGED users
      BY <3>8
    <3>9. CASE AccountsNext /\ users' # users
      <4>1. \/ \E l \in Logins : LoginWrong(l) \/ LoginRight(l)
            \/ \E i \in DOMAIN sessions, old, new \in Passwords : ChangePassword(i, old, new)
            \/ \E i \in DOMAIN sessions, v \in Users :
                 (\E form \in Updates : UpdateUser(i, v, form)) \/ (\E roles \in RoleLists : AssignRoles(i, v, roles))
            \/ \E v \in Users, form \in Registrations : Register(v, form)
        BY <3>9 DEF AccountsNext, Tick, Restart, LoginLocked, LoginLoad, Refresh, Logout
      <4> QED
        BY <4>1, <3>4, <3>5, <3>6, <3>7
    <3> QED
      BY <3>8, <3>9 DEF accountVars
  <2> QED
    BY <1>3, <2>1
<1> QED
  BY <1>2, <1>3

(* However logins overlap, and whatever is written while they do: a lock   *)
(* in force is neither lifted nor shortened, but by the answer to a login  *)
(* that had loaded an earlier lock (authenticate_user in auth_service.py). *)
THEOREM LocksAlwaysStand == ManagementSpec => LocksStand
<1>1. ManagementInit => AccountsInv /\ LocksEnd
  BY AccountsInitInv, AccountsAssumption DEF ManagementInit, AccountsInit, LocksEnd, DefaultAdmin, NewUser
<1>2. AccountsInv /\ LocksEnd /\ [ManagementNext]_managementVars => (AccountsInv /\ LocksEnd)'
  <2>1. [ManagementNext]_managementVars => [AccountsNext]_accountVars
    BY DEF ManagementNext, managementVars
  <2> QED
    BY <2>1, AccountsNextInv, LocksEndNext
<1>3. ASSUME AccountsInv, LocksEnd, [ManagementNext]_managementVars, NEW u \in Existing, InForce(users[u])
      PROVE  \/ users'[u].locked # Unset /\ users'[u].locked >= users[u].locked
             \/ \E l \in Logins :
                  /\ logins[l] # Idle /\ logins'[l] = Idle /\ logins[l].user = u
                  /\ logins[l].row.locked # Unset /\ ~InForce(logins[l].row)
  <2>1. [AccountsNext]_accountVars
    BY <1>3 DEF ManagementNext, managementVars
  <2>2. u \in Users /\ users[u] # Removed
    BY DEF Existing
  <2>3. users[u].locked \in Nat /\ users[u].locked <= now + LockFor /\ now + LockFor \in Nat /\ users[u].locked # Unset
    BY <1>3, <2>2, AccountsAssumption DEF InForce, LocksEnd, AccountsInv, AccountsType, UserRow
  <2>4. now + LockFor # Unset
    BY <2>3, AccountsAssumption
  <2> QED
    BY <1>3, <2>1, <2>2, <2>3, <2>4, LockSteps
<1>4. AccountsInv /\ LocksEnd /\ [ManagementNext]_managementVars =>
        [\A u \in Existing :
           InForce(users[u]) =>
             \/ users'[u].locked # Unset /\ users'[u].locked >= users[u].locked
             \/ \E l \in Logins :
                  /\ logins[l] # Idle /\ logins'[l] = Idle /\ logins[l].user = u
                  /\ logins[l].row.locked # Unset /\ ~InForce(logins[l].row)]_accountVars
  BY <1>3
<1> QED
  BY <1>1, <1>2, <1>4, PTL DEF ManagementSpec, LocksStand
=============================================================================
