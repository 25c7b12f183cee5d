---------------------------- MODULE DdsDiscovery ----------------------------
(***************************************************************************)
(* openautosar::dds_binding::DdsDiscoveryCache: what one participant knows  *)
(* of the endpoints that others announce by SEDP.  Announcements are lost,  *)
(* delayed, repeated and reordered; participants restart and then number    *)
(* their announcements from 1 again.  A restart takes longer than an        *)
(* announcement is on its way.                                              *)
(***************************************************************************)
EXTENDS Integers, FiniteSets

CONSTANTS
  Announced,          \* endpoints: participant, role and id
  Contents,           \* what is announced of them: topic, type, reliability, durability
  LocalTopics,        \* local mappings: participant and the same fields
  EndpointTtl,        \* endpoint_ttl_ms
  Delay,              \* longest time an announcement is on its way
  MaxAnnouncements,   \* bound on the announcements of a life
  MaxLives,           \* bound on the lives of a participant
  MaxDiscoveryTime,   \* bound on the clock
  NoEndpoint

ASSUME DiscoveryAssumption ==
  /\ EndpointTtl \in Nat \ {0} /\ Delay \in Nat /\ Delay <= EndpointTtl
  /\ MaxAnnouncements \in Nat /\ MaxLives \in Nat /\ MaxDiscoveryTime \in Nat

(* What the cache holds of an endpoint.                                     *)
Discovered == [content : Contents, number : Nat, life : Nat, seen : Nat]

ASSUME NoEndpointAssumption == NoEndpoint \notin Discovered

VARIABLES
  discoveryClock,
  lives,              \* participant -> how often it started
  sedpSequence,       \* endpoint -> number of its last announcement
  contents,           \* endpoint -> what it is in this life
  announcements,      \* announcements on their way
  cache,              \* endpoints_: endpoint -> what was discovered of it, or NoEndpoint
  newestSent,         \* observer: endpoint -> when the announcement accepted last was made
  refusedSince        \* observer: endpoint -> since when this life's announcements
                      \* are refused, 0 if they are not

discoveryVars == <<discoveryClock, lives, sedpSequence, contents, announcements, cache,
                   newestSent, refusedSince>>

Roles == {"Publication", "Subscription"}
Participants == {e.participant : e \in Announced}

DiscoveryInit ==
  /\ discoveryClock = 1
  /\ lives = [p \in Participants |-> 1]
  /\ sedpSequence = [e \in Announced |-> 0]
  /\ contents \in [Announced -> Contents]
  /\ announcements = {}
  /\ cache = [e \in Announced |-> NoEndpoint]
  /\ newestSent = [e \in Announced |-> 0]
  /\ refusedSince = [e \in Announced |-> 0]

-----------------------------------------------------------------------------
DiscoveryTick ==
  /\ discoveryClock < MaxDiscoveryTime
  /\ discoveryClock' = discoveryClock + 1
  /\ announcements' = {a \in announcements : discoveryClock + 1 - a.sent <= Delay}
  /\ UNCHANGED <<lives, sedpSequence, contents, cache, newestSent, refusedSince>>

(* BuildSedpEndpointAnnouncement *)
Announcement(e, number) ==
  [endpoint |-> e, content |-> contents[e], number |-> number,
   life |-> lives[e.participant], sent |-> discoveryClock]

(* BuildEndpointDiscovery; whoever announces takes the next number.         *)
Announce(e) ==
  /\ sedpSequence[e] < MaxAnnouncements
  /\ sedpSequence' = [sedpSequence EXCEPT ![e] = @ + 1]
  /\ announcements' = announcements \cup {Announcement(e, sedpSequence[e] + 1)}
  /\ UNCHANGED <<discoveryClock, lives, contents, cache, newestSent, refusedSince>>

ParticipantRestarts(p) ==
  /\ lives[p] < MaxLives
  /\ lives' = [lives EXCEPT ![p] = @ + 1]
  /\ sedpSequence' = [e \in Announced |-> IF e.participant = p THEN 0 ELSE sedpSequence[e]]
  /\ contents' \in {c \in [Announced -> Contents] :
                      \A e \in Announced : e.participant # p => c[e] = contents[e]}
  /\ announcements' = {a \in announcements : a.endpoint.participant # p}
  /\ refusedSince' = [e \in Announced |-> IF e.participant = p THEN 0 ELSE refusedSince[e]]
  /\ UNCHANGED <<discoveryClock, cache, newestSent>>

-----------------------------------------------------------------------------
\* Mutated: only a repetition of the number taken last is refused.
IsReplayOfLast(a) ==
  cache[a.endpoint] # NoEndpoint /\ a.number = cache[a.endpoint].number

IsStaleAnnouncement(a) ==
  cache[a.endpoint] # NoEndpoint /\ a.number <= cache[a.endpoint].number

\* Mutated: an announcement that is refused still shows its sender is alive.
SeenAgain(a) == [cache EXCEPT ![a.endpoint].seen = discoveryClock]

(* A refused announcement leaves the cache as it is.                        *)
AfterRefusal(a) == cache

(* FindSedpSequenceNumber: whether there is one for the role.               *)
IsOfRole(role, a) == a.endpoint.role = role /\ a.number # 0

(* A number that is not higher is refused, also from a participant that     *)
(* restarted.                                                               *)
ObserveEndpointDiscovery(role, a) ==
  /\ IsOfRole(role, a)
  /\ \/ /\ IsStaleAnnouncement(a)
        /\ cache' = AfterRefusal(a)
        /\ refusedSince' = [refusedSince EXCEPT ![a.endpoint] =
             IF @ = 0 /\ cache[a.endpoint].life # a.life THEN discoveryClock ELSE @]
        /\ UNCHANGED newestSent
     \/ /\ ~IsStaleAnnouncement(a)
        /\ cache' = [cache EXCEPT ![a.endpoint] =
             [content |-> a.content, number |-> a.number, life |-> a.life, seen |-> discoveryClock]]
        /\ newestSent' = [newestSent EXCEPT ![a.endpoint] = a.sent]
        /\ refusedSince' = [refusedSince EXCEPT ![a.endpoint] = 0]
  /\ UNCHANGED <<discoveryClock, lives, sedpSequence, contents, announcements>>

IsExpired(e) == discoveryClock - cache[e].seen > EndpointTtl

RemoveStaleEndpoints ==
  /\ cache' = [e \in Announced |->
       IF cache[e] # NoEndpoint /\ IsExpired(e) THEN NoEndpoint ELSE cache[e]]
  /\ UNCHANGED <<discoveryClock, lives, sedpSequence, contents, announcements, newestSent,
                 refusedSince>>

OppositeRole(role) == IF role = "Publication" THEN "Subscription" ELSE "Publication"

HasStaticQosProfileMatch(local, content) ==
  content.reliable = local.reliable /\ content.transient = local.transient

(* BuildEndpointMatch *)
IsMatch(local, role, e, content) ==
  /\ e.role = OppositeRole(role)
  /\ e.participant # local.participant
  /\ content.topic = local.content.topic
  /\ HasStaticQosProfileMatch(local.content, content)

MatchesFor(local, role) ==
  {e \in Announced :
     cache[e] # NoEndpoint /\ ~IsExpired(e) /\ IsMatch(local, role, e, cache[e].content)}

DiscoveryNext ==
  \/ DiscoveryTick
  \/ \E e \in Announced : Announce(e)
  \/ \E p \in Participants : ParticipantRestarts(p)
  \/ \E role \in Roles, a \in announcements : ObserveEndpointDiscovery(role, a)
  \/ RemoveStaleEndpoints

DiscoverySpec == DiscoveryInit /\ [][DiscoveryNext]_discoveryVars

-----------------------------------------------------------------------------
DiscoveryTypeOK ==
  /\ discoveryClock \in Nat
  /\ lives \in [Participants -> Nat] /\ sedpSequence \in [Announced -> Nat]
  /\ contents \in [Announced -> Contents]
  /\ announcements \subseteq
       [endpoint : Announced, content : Contents, number : Nat, life : Nat, sent : Nat]
  /\ cache \in [Announced -> Discovered \cup {NoEndpoint}]
  /\ newestSent \in [Announced -> Nat] /\ refusedSince \in [Announced -> Nat]

(* What is known of an endpoint never goes back to what was announced       *)
(* before, not over a restart of its participant and not after its entry    *)
(* was removed.                                                             *)
DiscoveryGoesForward ==
  [][\A e \in Announced : newestSent'[e] >= newestSent[e]]_discoveryVars

(* No reader or writer stays matched to what an endpoint was before its     *)
(* participant restarted for longer than the TTL from the first             *)
(* announcement that came in of what it is now.                             *)
RestartIsLearnt ==
  \A local \in LocalTopics, role \in Roles :
    \A e \in MatchesFor(local, role) :
      cache[e].life # lives[e.participant] /\ refusedSince[e] # 0 =>
        discoveryClock - refusedSince[e] <= EndpointTtl
=============================================================================
