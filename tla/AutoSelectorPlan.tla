-------------------------- MODULE AutoSelectorPlan --------------------------
(***************************************************************************)
(* How an auto selector picks the members it is built from:                *)
(* src/src/configs/AutoSelectorPlan.cpp.                                   *)
(*                                                                         *)
(* Pure operators over lat, the stored latency of each member (-1 failed,  *)
(* 0 not measured), the members that exist, and the pool, the order kept   *)
(* from the last ranking.  Members are numbered in the order of their      *)
(* group; the ones that a filter or a chain rule leaves out are not among  *)
(* them, and a result that expired counts as not measured.                 *)
(***************************************************************************)
EXTENDS Integers, Sequences, FiniteSets, TLC

CONSTANTS MaxMember,           \* members are 1 .. MaxMember
          PoolCap,             \* poolCap
          BuildLimit,          \* buildLimit
          Quorum,              \* AutoSelectorStartQuorum
          ResultsCount,        \* resultValidityMins > 0
          ExcludeUnavailable   \* excludeUnavailable

ASSUME SizeAssumption == {MaxMember, PoolCap, BuildLimit} \subseteq Nat \ {0}
ASSUME QuorumAssumption == Quorum \in 1 .. BuildLimit
ASSUME SwitchAssumption == {ResultsCount, ExcludeUnavailable} \subseteq BOOLEAN

Member == 1 .. MaxMember
First(s, n) == SubSeq(s, 1, IF Len(s) < n THEN Len(s) ELSE n)
Elements(s) == {s[i] : i \in DOMAIN s}
GroupOrder(there) == SelectSeq([m \in Member |-> m], LAMBDA m : m \in there)

EffectiveLatency(lat, m) == IF ResultsCount THEN lat[m] ELSE 0
Works(lat, m) == EffectiveLatency(lat, m) > 0
Unavailable(lat, m) == ExcludeUnavailable /\ EffectiveLatency(lat, m) < 0

\* An outage that failed every member leaves them all in.
EligibleMembers(lat, there) ==
  LET some == SelectSeq(GroupOrder(there), LAMBDA m : ~Unavailable(lat, m)) IN
  IF some # <<>> THEN some ELSE GroupOrder(there)

LatencyRank(latency) == IF latency > 0 THEN 0 ELSE IF latency = 0 THEN 1 ELSE 2
ByLatency(left, right) ==
  \/ LatencyRank(left) < LatencyRank(right)
  \/ LatencyRank(left) = 0 /\ LatencyRank(right) = 0 /\ left < right
\* stable_sort, with a member not to be trusted taken for one not measured.
SortByLatency(ids, lat, untrusted) ==
  LET latency(m) == IF m \in untrusted THEN 0 ELSE EffectiveLatency(lat, m)
      place(m) == CHOOSE i \in DOMAIN ids : ids[i] = m
      before(l, r) == \/ ByLatency(latency(l), latency(r))
                      \/ ~ByLatency(latency(r), latency(l)) /\ place(l) < place(r)
  IN SortSeq(ids, before)

OrderMembers(members, pool, lat) ==
  SelectSeq(pool, LAMBDA m : m \in Elements(members))
    \o SortByLatency(SelectSeq(members, LAMBDA m : m \notin Elements(pool)), lat, {})

PlanPool(lat, there, pool) == First(OrderMembers(EligibleMembers(lat, there), pool, lat), PoolCap)
PlanBuild(lat, there, pool) == First(PlanPool(lat, there, pool), BuildLimit)
PlanFails(there) == there = {}
\* Ranking is wanted when there is a choice and part of the build was never measured.
NeedsRanking(lat, there, pool) ==
  /\ Len(PlanPool(lat, there, pool)) > BuildLimit
  /\ \E m \in Elements(PlanBuild(lat, there, pool)) : EffectiveLatency(lat, m) = 0

UnmeasuredCandidates(lat, there, stale) ==
  {m \in Elements(EligibleMembers(lat, there)) : m \in stale \/ EffectiveLatency(lat, m) = 0}
WorkingCandidates(lat, there, stale) ==
  {m \in Elements(EligibleMembers(lat, there)) \ stale : Works(lat, m)}

\* Mutant of Rerank: the early ranking trusts results that are about to be measured again.
RerankTrusting(lat, there, untrusted) == First(SortByLatency(EligibleMembers(lat, there), lat, {}), PoolCap)
Rerank(lat, there, untrusted) == First(SortByLatency(EligibleMembers(lat, there), lat, untrusted), PoolCap)

\* built is what the running core was given.
BuildChanged(lat, there, pool, built) ==
  LET next == Elements(PlanBuild(lat, there, pool)) IN
  /\ ~PlanFails(there)
  /\ ~(Elements(built) \subseteq next) \/ \E m \in next \ Elements(built) : Works(lat, m)
=============================================================================
