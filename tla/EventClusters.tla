---------------------------- MODULE EventClusters ----------------------------
(***************************************************************************)
(* What the event centre shows of the stored events (api/events.py): the    *)
(* pages of the event list, the clusters of events that belong together,    *)
(* and the candidates for their root causes, scored and ranked.  How an     *)
(* event comes to be stored, decided and linked to a case is EventIntake's. *)
(*                                                                         *)
(* Scores are in hundredths, as the code rounds them.                       *)
(***************************************************************************)
EXTENDS Integers, Sequences, FiniteSets, FiniteSetsExt, SequencesExt

CONSTANTS
  Places,  \* where events come from: see Place
  Kinds,   \* the kinds of events that are stored: see Kind
  Times,   \* when events may occur
  Window,  \* the newest events that are clustered ([:500])
  Limit,   \* the clusters, and the events of a page, that a request asks for
  Readers, \* the categories a reader of the event list asks for, "any" for all
  MaxEnv   \* bounds: how often the environment does what, by kind

(* An event is stored for the first time or again, linked to a case or to a
   ticket, or the list is read. *)
EnvKinds == {"collect", "again", "link", "read"}

VARIABLES
  events, \* the stored events, those that occurred last first, and those that
          \* occurred at one time in an order of the database's: see Event
  reader, \* the reader of the list: the category asked for, and how many it has skipped
  env     \* how often the environment has acted, by kind

vars == <<events, reader, env>>

(* device: NetBox knows the device there; core: its role is core or spine;
   links: how many links its topology shows. *)
Place == [site : STRING, device : BOOLEAN, core : BOOLEAN, links : Nat]

Categories == {"log_signal", "zabbix_alert", "unknown"}
Causes == [link |-> {"crc", "interface", "flap", "link"},
           routing |-> {"neighbor", "routing", "ospf", "bgp"},
           hardware |-> {"hardware", "fan", "power", "temperature"},
           access |-> {"auth", "security"}]
Severity == 1 .. 5 \* what the labels weigh, of which an unknown one weighs 2

Kind == [place : Places, family : STRING, category : Categories, severity : Severity]

EventClustersAssumption ==
  /\ Places \subseteq Place /\ Kinds \subseteq Kind /\ Times \subseteq Nat
  /\ Readers # {} /\ Readers \subseteq {"any"} \cup Categories
  /\ Window \in Nat /\ Limit \in Nat \ {0}

(* due: the reader has still to see it; cut: so too, but a page ended between it
   and another event of its time; new: it came, or came again, since the reader
   began. *)
Event == [kind : Kind, time : Times, case : BOOLEAN, ticket : BOOLEAN,
          mark : {"due", "cut", "seen", "new"}]

Idle == [at |-> "idle", asks |-> "any", skip |-> 0]

TypeOK ==
  /\ events \in Seq(Event)
  /\ reader \in [at : {"idle", "reading", "done", "spoiled"}, asks : Readers, skip : Nat]
  /\ env \in [EnvKinds -> Nat]

Init == events = <<>> /\ reader = [Idle EXCEPT !.asks = CHOOSE r \in Readers : TRUE] /\ env = [k \in EnvKinds |-> 0]

Happens(kind) == env[kind] < MaxEnv[kind] /\ env' = [env EXCEPT ![kind] = @ + 1]

-----------------------------------------------------------------------------
(* Clusters: the events of one place and signal family. *)

ClusterKeys(evs) == {<<evs[i].kind.place, evs[i].kind.family>> : i \in DOMAIN evs}
Members(evs, key) == {i \in DOMAIN evs : <<evs[i].kind.place, evs[i].kind.family>> = key}

Highest(evs, members) == Max({evs[i].kind.severity : i \in members})

Cluster(evs, members) ==
  [first   |-> Min(members),
   events  |-> Cardinality(members),
   cases   |-> Cardinality({i \in members : evs[i].case}),
   tickets |-> Cardinality({i \in members : evs[i].ticket}),
   highest |-> Highest(evs, members),
   sources |-> {evs[i].kind.category : i \in members}]

(* Sorted by events, cases and severity, downwards; a tie keeps the order in
   which the clusters were met. *)
Before(k, l) ==
  \/ k.events > l.events
  \/ k.events = l.events /\ k.cases > l.cases
  \/ k.events = l.events /\ k.cases = l.cases /\ k.highest > l.highest
  \/ k.events = l.events /\ k.cases = l.cases /\ k.highest = l.highest /\ k.first < l.first

(* The clusters of evs that a request shows, each under its key. *)
Clusters(evs, limit) ==
  LET all == [key \in ClusterKeys(evs) |-> Cluster(evs, Members(evs, key))]
  IN  Restrict(all, {key \in DOMAIN all :
        Cardinality({other \in DOMAIN all : Before(all[other], all[key])}) < limit})

CrossSource(sources) == {"log_signal", "zabbix_alert"} \subseteq sources

Cause(key, sources) ==
  IF \E c \in DOMAIN Causes : key[2] \in Causes[c]
    THEN CHOOSE c \in DOMAIN Causes : key[2] \in Causes[c]
    ELSE IF ~CrossSource(sources) THEN "unconfirmed"
    ELSE IF key[1].core THEN "core device" ELSE "device"

(* The topology of the places in failed could not be asked for. *)
Impact(place, failed) ==
  IF ~place.device THEN "site_scope"
    ELSE IF place \in failed THEN "device_scope"
    ELSE IF place.links >= 4 \/ place.core THEN "topology_wide"
    ELSE IF place.links >= 2 THEN "adjacent_devices" ELSE "device_scope"

ImpactWeight == [topology_wide |-> 250, adjacent_devices |-> 160, site_scope |-> 120, device_scope |-> 80]

AtMost(bound, n) == IF n < bound THEN n ELSE bound

ClusterScore(cluster, impact) ==
  100 * cluster.highest + AtMost(300, 35 * cluster.events) + AtMost(240, 60 * cluster.cases)
  + AtMost(100, 25 * cluster.tickets) + ImpactWeight[impact]
  + (IF Cardinality(cluster.sources) > 1 THEN 180 ELSE 60)

-----------------------------------------------------------------------------
(* Root causes: the clusters of one site, family and cause. *)

Candidate(key, cluster) == <<key[1].site, key[2], Cause(key, cluster.sources)>>
Merged(clusters, c) == {key \in DOMAIN clusters : Candidate(key, clusters[key]) = c}

Score(clusters, key, failed) == ClusterScore(clusters[key], Impact(key[1], failed))

(* Bug, plausible: the cluster met last gives the candidate its score. *)
BestIsLast(clusters, keys, failed) ==
  Score(clusters, CHOOSE k \in keys : \A l \in keys \ {k} : Before(clusters[l], clusters[k]), failed)

Best(clusters, keys, failed) == Max({Score(clusters, key, failed) : key \in keys})

CandidateScore(clusters, c, failed) ==
  LET keys == Merged(clusters, c)
  IN  Best(clusters, keys, failed) + AtMost(200, 45 * Cardinality(keys))
      + (IF Cardinality(UNION {clusters[key].sources : key \in keys}) > 1 THEN 80 ELSE 0)

(* A request for the root causes looks at the newest events only, and at three
   clusters for each of the candidates it may return, at least twelve. *)
Viewed(evs) == Clusters(SubSeq(evs, 1, AtMost(Window, Len(evs))), Max({3 * Limit, 12}))

-----------------------------------------------------------------------------
(* The list, a page at a time. *)

(* Where the events are that a reader who asks for a category is given, or any. *)
AskedFor(asks) == {i \in DOMAIN events : asks \in {"any", events[i].kind.category}}

Newer(asks, i) == {j \in AskedFor(asks) : events[j].time > events[i].time}
SameTime(asks, i) == {j \in AskedFor(asks) : events[j].time = events[i].time}

(* Which events the places first .. last of an answer may hold.  The query orders
   by time alone: the events of one time take their places in any order, and in
   another one for the next page, if only because a row was updated in between. *)
Fits(asks, given, first, last) ==
  \A i \in AskedFor(asks) :
    LET before == Cardinality(Newer(asks, i))
        same   == Cardinality(SameTime(asks, i))
    IN  Cardinality(given \cap SameTime(asks, i))
          = Cardinality((before + 1 .. before + same) \cap (first .. last))

(* Bug, plausible: off by one. *)
HasMoreThanOne(skip, returned, total) == skip + returned + 1 < total

HasMore(skip, returned, total) == skip + returned < total

Read(asks) ==
  /\ reader.at # "reading" /\ Happens("read")
  /\ reader' = [at |-> "reading", asks |-> asks, skip |-> 0]
  /\ events' = [i \in DOMAIN events |-> [events[i] EXCEPT !.mark =
                  IF i \in AskedFor(asks) THEN "due" ELSE "new"]]

Page ==
  /\ reader.at \in {"reading", "spoiled"}
  /\ LET asked    == AskedFor(reader.asks)
         total    == Cardinality(asked)
         returned == Max({0, AtMost(Limit, total - reader.skip)})
     IN  /\ \E given \in SUBSET asked :
              /\ Fits(reader.asks, given, reader.skip + 1, reader.skip + returned)
              /\ events' = [i \in DOMAIN events |->
                   IF i \in given THEN [events[i] EXCEPT !.mark = "seen"]
                   ELSE IF events[i].mark = "due" /\ given \cap SameTime(reader.asks, i) # {}
                     THEN [events[i] EXCEPT !.mark = "cut"]
                   ELSE events[i]]
         /\ reader' = IF HasMore(reader.skip, returned, total)
                        THEN [reader EXCEPT !.skip = @ + returned]
                        ELSE [reader EXCEPT !.at = IF @ = "reading" THEN "done" ELSE "idle"]
  /\ UNCHANGED env

-----------------------------------------------------------------------------
(* The events, as EventIntake stores them. *)

InOrder(evs) == \A i, j \in DOMAIN evs : i < j => evs[i].time >= evs[j].time

Collect(kind, time, p) ==
  /\ Happens("collect")
  /\ events' = InsertAt(events, p, [kind |-> kind, time |-> time, case |-> FALSE, ticket |-> FALSE,
                                   mark |-> "new"])
  /\ InOrder(events')
  /\ UNCHANGED reader

(* Stored again: of a time and a severity that may be others, without the case and
   the ticket it was linked to.  An older time lets others move to the front. *)
Again(i, time, p, severity) ==
  /\ Happens("again")
  /\ events' = InsertAt(RemoveAt(events, i), p,
                 [kind |-> [events[i].kind EXCEPT !.severity = severity], time |-> time,
                  case |-> FALSE, ticket |-> FALSE, mark |-> "new"])
  /\ InOrder(events')
  /\ reader' = IF time < events[i].time /\ reader.at = "reading"
                 THEN [reader EXCEPT !.at = "spoiled"] ELSE reader

(* Whatever place the updated row is found at from now on, Page allows for it. *)
Link(i, to) ==
  /\ Happens("link")
  /\ events' = [events EXCEPT ![i].case = @ \/ to = "case", ![i].ticket = @ \/ to = "ticket"]
  /\ UNCHANGED reader

Next ==
  \/ \E kind \in Kinds, time \in Times, p \in 1 .. Len(events) + 1 : Collect(kind, time, p)
  \/ \E i, p \in DOMAIN events, time \in Times, severity \in {kind.severity : kind \in Kinds} :
       Again(i, time, p, severity)
  \/ \E i \in DOMAIN events, to \in {"case", "ticket"} : Link(i, to)
  \/ \E asks \in Readers : Read(asks)
  \/ Page

EventClustersSpec == Init /\ [][Next]_vars

-----------------------------------------------------------------------------
(* Whoever follows has_more to the end of the list is given every event that was
   there at the start and is what it was, though others come in between, in any
   order.  What may let one escape is an event stored again with an older time, and
   a page that ends between it and another event of its very time: the query
   orders by time alone, so the next page may find the two the other way round. *)
NothingEscapes == reader.at = "done" => \A i \in DOMAIN events : events[i].mark # "due"

(* More evidence never weakens a root cause: whatever event comes in, and
   whichever topologies cannot be asked for, no candidate's score falls as long as
   the clusters it was made of still belong to it, none of which is given up for
   the sake of the window or of the limit. *)
EvidenceNeverWeakens ==
  [][env'["collect"] > env["collect"] /\ Len(events') <= Window =>
       LET old == Viewed(events)
           new == Viewed(events')
       IN  \A c \in {Candidate(key, old[key]) : key \in DOMAIN old} :
             Merged(old, c) \subseteq Merged(new, c) =>
               \A failed \in SUBSET {p \in Places : p.device} :
                 CandidateScore(new, c, failed) >= CandidateScore(old, c, failed)]_vars
==============================================================================
