-------------------------------- MODULE Tatp --------------------------------
(***************************************************************************)
(* The TATP benchmark: subscribers with their access types, special        *)
(* facilities and call forwardings, loaded per partition, and the eight    *)
(* procedures.  Facilities of type 4 are asked for but never loaded:       *)
(* every procedure has to do with a facility that is not there.            *)
(***************************************************************************)
EXTENDS Executor, FiniteSetsExt

CONSTANTS
    Subscribers, TatpPartitions,
    FacilityTypes,    \* SF_TYPES_PER_SUBSCRIBER
    MaxFacilityType,  \* SF_TYPE_MAX
    AccessTypes,
    Starts            \* start times loaded: 0 .. Starts - 1

\* FillScaleParams.
SubscribersOf(p) ==
    LET per == Subscribers \div TatpPartitions
    IN  p * per .. (IF p = TatpPartitions - 1 THEN Subscribers ELSE (p + 1) * per) - 1

(***************************************************************************)
(* TATPKeyGenerator: the parts of a key have eight bits each.              *)
(***************************************************************************)
Subscriber(s) == <<"SUBSCRIBER", s>>
AccessInfo(s, t) == <<"ACCESS_INFO", s * 256 + t>>
Facility(s, t) == <<"SPECIAL_FACILITY", s * 256 + t>>
Forwarding(s, t, start) == <<"CALL_FORWARDING", s * 65536 + t * 256 + start>>

\* PopulateSubscriber, PopulateAccessInfo, PopulateSpecialFacility,
\* PopulateCallForwarding: the rows of the subscribers S.
SubscriberRows(S) == [r \in {Subscriber(s) : s \in S} |-> [bit_1 |-> 0, vlr |-> 0]]
AccessInfoRows(S) == [r \in {AccessInfo(s, t) : s \in S, t \in 1 .. AccessTypes} |-> [data |-> 0]]
FacilityRows(S) ==
    [r \in {Facility(s, t) : s \in S, t \in 1 .. FacilityTypes} |-> [active |-> r[2] % 2, data_a |-> 0]]
ForwardingRows(S) ==
    [r \in {Forwarding(s, t, b) : s \in S, t \in 1 .. FacilityTypes, b \in 0 .. Starts - 1} |->
        [number |-> 0]]

\* StartPopulate of a partition.
TatpLoadedBy(p) ==
    LET S == SubscribersOf(p)
    IN  SubscriberRows(S) @@ AccessInfoRows(S) @@ FacilityRows(S) @@ ForwardingRows(S)

TatpLoaded == FoldSet(LAMBDA p, t : TatpLoadedBy(p) @@ t, <<>>, 0 .. TatpPartitions - 1)

TatpTypes == {"GET_SUBSCRIBER", "GET_NEW_DESTINATION", "GET_ACCESS", "UPDATE_SUBSCRIBER",
              "UPDATE_LOCATION", "INSERT_FORWARDING", "DELETE_FORWARDING", "TATP_SCAN"}

\* TATPSource: what the parameters can be.
IsTatpParam(p) ==
    /\ p.type \in TatpTypes
    /\ IF p.type = "TATP_SCAN" THEN p.n \in 1 .. Subscribers /\ p.start \in 0 .. Subscribers - p.n
       ELSE p.s \in 0 .. Subscribers - 1
    /\ p.type = "GET_ACCESS" => p.t \in 1 .. AccessTypes
    /\ p.type \in {"GET_NEW_DESTINATION", "UPDATE_SUBSCRIBER", "INSERT_FORWARDING",
                   "DELETE_FORWARDING"} => p.t \in 1 .. MaxFacilityType
    /\ p.type = "INSERT_FORWARDING" => p.start >= Starts

GetSubscriberNeeds(p) == <<Rd(Subscriber(p.s))>>
GetAccessNeeds(p) == <<Rd(AccessInfo(p.s, p.t))>>
GetNewDestinationNeeds(p) ==
    <<Rd(Facility(p.s, p.t))>> \o [k \in 1 .. p.end - p.start + 1 |-> Rd(Forwarding(p.s, p.t, p.start + k - 1))]
UpdateSubscriberNeeds(p) == <<Rw(Subscriber(p.s)), Rw(Facility(p.s, p.t))>>
UpdateLocationNeeds(p) == <<Rw(Subscriber(p.s))>>
InsertForwardingNeeds(p) == <<Rw(Facility(p.s, p.t))>>

\* DeleteCallForwarding only looks the row up; it deletes nothing.
DeleteForwardingNeeds(p) == <<Rd(Forwarding(p.s, p.t, p.start))>>

\* The scan takes n subscribers and, for each, follows the indexes of the
\* access types and of the facilities from the subscriber's first key on.
TatpScanNeeds(p) ==
    FlattenSeq(ForEach(p.n, LAMBDA k :
        LET s == p.start + k - 1
        IN  <<Rd(Subscriber(s))>> \o ScanRows(AccessInfo(s, 1), AccessTypes)
                                  \o ScanRows(Facility(s, 1), MaxFacilityType)))

TatpNeeds(p, v) ==
    CASE p.type = "GET_SUBSCRIBER" -> GetSubscriberNeeds(p)
      [] p.type = "GET_NEW_DESTINATION" -> GetNewDestinationNeeds(p)
      [] p.type = "GET_ACCESS" -> GetAccessNeeds(p)
      [] p.type = "UPDATE_SUBSCRIBER" -> UpdateSubscriberNeeds(p)
      [] p.type = "UPDATE_LOCATION" -> UpdateLocationNeeds(p)
      [] p.type = "INSERT_FORWARDING" -> InsertForwardingNeeds(p)
      [] p.type = "DELETE_FORWARDING" -> DeleteForwardingNeeds(p)
      [] p.type = "TATP_SCAN" -> TatpScanNeeds(p)

UpdateSubscriberLeaves(p, v) ==
    Subscriber(p.s) :> [v[1] EXCEPT !.bit_1 = p.bit_1]
    @@ IF v[2] = Missing THEN <<>> ELSE Facility(p.s, p.t) :> [v[2] EXCEPT !.data_a = p.data_a]

\* The forwarding is inserted whether or not the facility exists; an
\* inactive facility is switched on.
InsertForwardingLeaves(p, v) ==
    Forwarding(p.s, p.t, p.start) :> [number |-> p.number]
    @@ IF v[1] = Missing \/ v[1].active = 1 THEN <<>>
       ELSE Facility(p.s, p.t) :> [v[1] EXCEPT !.active = 1]

UpdateLocationLeaves(p, v) == Subscriber(p.s) :> [v[1] EXCEPT !.vlr = p.vlr]

TatpLeaves(p, v) ==
    CASE p.type = "UPDATE_SUBSCRIBER" -> UpdateSubscriberLeaves(p, v)
      [] p.type = "UPDATE_LOCATION" -> UpdateLocationLeaves(p, v)
      [] p.type = "INSERT_FORWARDING" -> InsertForwardingLeaves(p, v)
      [] OTHER -> <<>>

(***************************************************************************)
(* A forwarding that a committed transaction inserted serves an active     *)
(* facility, if the subscriber has that facility at all: updates of the    *)
(* facility that run beside the insert do not switch it off again.         *)
(***************************************************************************)
ForwardingsActive ==
    \A s \in 0 .. Subscribers - 1, t \in 1 .. FacilityTypes, b \in Starts .. Starts + 1 :
        Has(Forwarding(s, t, b), rows) => rows[Facility(s, t)].active = 1

(***************************************************************************)
(* "Scan special_facility for this subscriber using iterator": the rows    *)
(* the scan of a subscriber reads are that subscriber's.                   *)
(***************************************************************************)
ScanKeepsToSubscriber ==
    \A w \in Workers :
        worker[w].pc = "run" /\ Param(w).type = "TATP_SCAN" =>
            LET asked == {a.row : a \in ToSet(Accesses(w))}
            IN  \A r \in {x \in asked : x[1] = "SPECIAL_FACILITY"} :
                    r[2] \div 256 \in Param(w).start .. Param(w).start + Param(w).n - 1
=============================================================================
