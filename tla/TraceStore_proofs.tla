---- MODULE TraceStore_proofs ----
(***************************************************************************)
(* Proofs about the trace database (TraceStore).                           *)
(***************************************************************************)
EXTENDS TraceStore, FiniteSetTheorems, SequenceTheorems, TLAPS

\* Every snapshot of a run that exists: in the memory of its process, in the
\* database, and in the spool.
Snapshots(r) == {live[r], stored[r]} \cup {s.trace : s \in {f \in spool : f.run = r}}

\* The snapshots of a run are stages of one history: the revision tells which
\* of two is the earlier one, and the later one continues it.
SnapshotsFollow ==
    \A r \in Runs : \A a, b \in Snapshots(r) :
        /\ a.revision <= live[r].revision
        /\ a.revision = b.revision => a = b
        /\ a.revision <= b.revision => IsPrefix(a.events, b.events)

\* Each return of a run is answered once, the newest maybe not yet.
OneAnswerPerReturn ==
    \A r \in Runs :
        /\ Len(answers[r]) <= live[r].revision
        /\ phase[r] = "waiting" => live[r].revision = Len(answers[r])
        /\ phase[r] = "saving" => live[r].revision = Len(answers[r]) + 1

\* What was stored without observations stays the beginning of what is stored,
\* and a database of schema 1 has no row of a call.
UnobservedIsStored ==
    \A r \in Runs :
        /\ unobserved[r] <= Len(stored[r].events)
        /\ version < 2 => calls[r] = {}

\* The inductive invariant.
SInv ==
    /\ TypeOK
    /\ TablesAgree
    /\ AnswersAreKept
    /\ SnapshotsFollow
    /\ OneAnswerPerReturn
    /\ UnobservedIsStored

----
\* One sequence of events is a prefix of another: events[:len(old)] == old.
LEMMA PrefixIs ==
    ASSUME NEW S, NEW s \in Seq(S), NEW t \in Seq(S)
    PROVE  IsPrefix(s, t) <=> /\ Len(s) <= Len(t)
                              /\ \A i \in 1 .. Len(s) : s[i] = t[i]
<1>1. SubSeq(s, 1, Len(s)) = s
  BY SubSeqFull
<1>2. CASE Len(s) <= Len(t)
  <2>1. \A i \in 1 .. Len(s) : t[i] \in S
    BY <1>2, LenProperties
  <2>2. /\ SubSeq(t, 1, Len(s)) \in Seq(S)
        /\ Len(SubSeq(t, 1, Len(s))) = Len(s)
        /\ \A i \in 1 .. Len(s) : SubSeq(t, 1, Len(s))[i] = t[i]
    BY <2>1, LenProperties, SubSeqProperties
  <2>3. QED
    BY <1>1, <1>2, <2>2, SeqEqual DEF IsPrefix
<1>3. QED
  BY <1>2 DEF IsPrefix

\* What follows a prefix completes it: the rows of the old events and those of
\* the added ones are the rows of the new events.
LEMMA PrefixCompleted ==
    ASSUME NEW S, NEW s \in Seq(S), NEW t \in Seq(S), IsPrefix(s, t)
    PROVE  s \o SubSeq(t, Len(s) + 1, Len(t)) = t
<1>1. /\ Len(s) <= Len(t)
      /\ SubSeq(t, 1, Len(s)) = s
  BY SubSeqFull DEF IsPrefix
<1>2. /\ 1 \in 1 .. Len(t) + 1
      /\ Len(s) \in 1 - 1 .. Len(t)
      /\ Len(t) \in Len(s) .. Len(t)
  BY <1>1, LenProperties
<1>3. SubSeq(t, 1, Len(s)) \o SubSeq(t, Len(s) + 1, Len(t)) = SubSeq(t, 1, Len(t))
  BY <1>2, ConcatAdjacentSubSeq
<1>4. QED
  BY <1>1, <1>3, SubSeqFull

\* Prefixes compose.
LEMMA PrefixTransitive ==
    ASSUME NEW S, NEW s \in Seq(S), NEW t \in Seq(S), NEW u \in Seq(S),
           IsPrefix(s, t), IsPrefix(t, u)
    PROVE  IsPrefix(s, u)
<1>1. /\ Len(s) <= Len(t)
      /\ \A i \in 1 .. Len(s) : s[i] = t[i]
  BY PrefixIs
<1>2. /\ Len(t) <= Len(u)
      /\ \A i \in 1 .. Len(t) : t[i] = u[i]
  BY PrefixIs
<1>3. Len(s) \in Nat /\ Len(t) \in Nat /\ Len(u) \in Nat
  BY LenProperties
<1>4. Len(s) <= Len(u) /\ \A i \in 1 .. Len(s) : s[i] = u[i]
  BY <1>1, <1>2, <1>3
<1>5. QED
  BY <1>4, PrefixIs

\* What a run returns next extends what it returned before.
LEMMA PrefixExtended ==
    ASSUME NEW S, NEW s \in Seq(S), NEW t \in Seq(S)
    PROVE  IsPrefix(s, s \o t)
<1>1. Len(s) \in Nat /\ Len(t) \in Nat
  BY LenProperties
<1>2. /\ s \o t \in Seq(S)
      /\ Len(s \o t) = Len(s) + Len(t)
      /\ \A i \in 1 .. Len(s) + Len(t) : (s \o t)[i] = IF i <= Len(s) THEN s[i] ELSE t[i - Len(s)]
  BY ConcatProperties
<1>3. /\ Len(s) <= Len(s \o t)
      /\ \A i \in 1 .. Len(s) : s[i] = (s \o t)[i]
  BY <1>1, <1>2
<1>4. QED
  BY <1>2, <1>3, PrefixIs

\* A sequence is a prefix of itself.
LEMMA PrefixReflexive ==
    ASSUME NEW S, NEW s \in Seq(S)
    PROVE  IsPrefix(s, s)
  BY LenProperties DEF IsPrefix
----
\* A set of positions in the events is finite.
LEMMA PositionsFinite ==
    ASSUME NEW n \in Nat, NEW T \in SUBSET (1 .. n)
    PROVE  IsFiniteSet(T) /\ Cardinality(T) \in Nat
<1>1. IsFiniteSet(1 .. n)
  BY FS_Interval
<1>2. IsFiniteSet(T)
  BY <1>1, FS_Subset
<1>3. QED
  BY <1>2, FS_CardinalityType

\* A row per record.
LEMMA RowPerRecord ==
    ASSUME NEW n \in Nat, NEW T \in SUBSET (1 .. n), NEW count
    PROVE  Cardinality(NumberedFrom(count, T)) = Cardinality(T)
<1> DEFINE row(i) == [call_index |-> count + Cardinality({j \in T : j <= i}), event_seq |-> i]
           f == [i \in T |-> row(i)]
<1>1. f \in [T -> NumberedFrom(count, T)]
  BY DEF NumberedFrom
<1>2. \A i, j \in T : f[i] = f[j] => i = j
  OBVIOUS
<1>3. \A y \in NumberedFrom(count, T) : \E i \in T : f[i] = y
  BY DEF NumberedFrom
<1>4. f \in Bijection(T, NumberedFrom(count, T))
  BY <1>1, <1>2, <1>3 DEF Bijection, Injection, Surjection, IsInjective
<1>5. QED
  BY <1>4, PositionsFinite, FS_Bijection DEF ExistsBijection

\* The rows of the earlier records and, numbered on from them, the rows of the
\* later ones are the rows of all of them numbered from the start.
LEMMA NumberingContinues ==
    ASSUME NEW n \in Nat, NEW T \in SUBSET (1 .. n), NEW k \in Nat
    PROVE  LET old == {i \in T : i <= k}
               later == {i \in T : i > k}
               kept == NumberedFrom(0, old)
           IN  kept \cup NumberedFrom(Cardinality(kept), later) = NumberedFrom(0, T)
<1> DEFINE old == {i \in T : i <= k}
           later == {i \in T : i > k}
           kept == NumberedFrom(0, old)
           upto(A, i) == {j \in A : j <= i}
<1>a. \A i \in T : i \in Nat
  OBVIOUS
<1>0. \A i \in T : (i <= k \/ i > k) /\ ~(i <= k /\ i > k)
  BY <1>a
<1>b. \A i, j \in T : (j <= i /\ i <= k => j <= k) /\ (j <= k /\ i > k => j <= i)
  BY <1>a
<1>1. Cardinality(kept) = Cardinality(old)
  BY RowPerRecord
<1>2. ASSUME NEW i \in old
      PROVE  upto(T, i) = upto(old, i)
  BY <1>b
<1>3. ASSUME NEW i \in later
      PROVE  Cardinality(upto(T, i)) = Cardinality(old) + Cardinality(upto(later, i))
  <2>1. upto(T, i) = old \cup upto(later, i)
    BY <1>0, <1>b
  <2>2. old \cap upto(later, i) = {}
    BY <1>0
  <2>3. /\ old \in SUBSET (1 .. n)
        /\ upto(later, i) \in SUBSET (1 .. n)
    OBVIOUS
  <2> HIDE DEF old, upto, later
  <2>4. /\ IsFiniteSet(old) /\ Cardinality(old) \in Nat
        /\ IsFiniteSet(upto(later, i)) /\ Cardinality(upto(later, i)) \in Nat
    BY <2>3, PositionsFinite
  <2>5. Cardinality(old \cup upto(later, i))
          = Cardinality(old) + Cardinality(upto(later, i)) - Cardinality({})
    BY <2>2, <2>4, FS_Union
  <2>6. QED
    BY <2>1, <2>4, <2>5, FS_EmptySet
<1>4. \A i \in old \cup later : Cardinality(upto(later, i)) \in Nat /\ Cardinality(upto(old, i)) \in Nat
  <2>1. \A i \in old \cup later : upto(later, i) \in SUBSET (1 .. n) /\ upto(old, i) \in SUBSET (1 .. n)
    OBVIOUS
  <2> HIDE DEF old, upto, later
  <2>2. \A A \in SUBSET (1 .. n) : Cardinality(A) \in Nat
    BY PositionsFinite
  <2>3. QED
    BY <2>1, <2>2
<1>5. T = old \cup later
  BY <1>0
<1> DEFINE Row(c, i) == [call_index |-> c, event_seq |-> i]
<1>6. NumberedFrom(0, T) = {Row(0 + Cardinality(upto(T, i)), i) : i \in T}
  BY DEF NumberedFrom
<1>7. kept = {Row(0 + Cardinality(upto(old, i)), i) : i \in old}
  BY DEF NumberedFrom
<1>8. NumberedFrom(Cardinality(old), later) =
        {Row(Cardinality(old) + Cardinality(upto(later, i)), i) : i \in later}
  BY DEF NumberedFrom
<1>9. Cardinality(old) \in Nat
  BY PositionsFinite
<1>10. \A i \in later : 0 + Cardinality(upto(T, i)) = Cardinality(old) + Cardinality(upto(later, i))
  <2> HIDE DEF old, upto, later
  <2>1. QED
    BY <1>3, <1>4, <1>9
<1>11. \A i \in old : 0 + Cardinality(upto(T, i)) = 0 + Cardinality(upto(old, i))
  <2> HIDE DEF old, upto, later
  <2>1. QED
    BY <1>2
<1> HIDE DEF old, later, kept, upto, Row
<1>12. kept \cup NumberedFrom(Cardinality(kept), later) = NumberedFrom(0, T)
  BY <1>1, <1>5, <1>6, <1>7, <1>8, <1>10, <1>11
<1>13. QED
  BY <1>12 DEF old, later, kept

\* The numbers of the rows go up to the number of records.
LEMMA NumbersBounded ==
    ASSUME NEW n \in Nat, NEW T \in SUBSET (1 .. n)
    PROVE  NumberedFrom(0, T) \subseteq [call_index : 1 .. Cardinality(T), event_seq : Nat]
<1>0. \A i \in T : i \in Nat
  OBVIOUS
<1> SUFFICES ASSUME NEW i \in T
             PROVE  [call_index |-> 0 + Cardinality({j \in T : j <= i}), event_seq |-> i]
                      \in [call_index : 1 .. Cardinality(T), event_seq : Nat]
  BY DEF NumberedFrom
<1> DEFINE upto == {j \in T : j <= i}
<1>1. upto \in SUBSET T /\ i \in upto
  BY <1>0
<1>2. IsFiniteSet(upto) /\ Cardinality(upto) \in Nat /\ Cardinality(upto) <= Cardinality(T)
  BY <1>1, PositionsFinite, FS_Subset
<1>3. Cardinality(upto) # 0
  BY <1>1, <1>2, FS_EmptySet
<1>4. 0 + Cardinality(upto) \in 1 .. Cardinality(T)
  BY <1>2, <1>3, PositionsFinite
<1>5. QED
  BY <1>0, <1>4

\* The call records of a prefix are those of the whole up to its end, so the
\* rows of llm_calls are continued by those of the records after it.
LEMMA CallsContinue ==
    ASSUME NEW s \in Seq(Events), NEW t \in Seq(Events), IsPrefix(s, t),
           NEW u \in Nat, u <= Len(s)
    PROVE  LET kept == NumberedFrom(0, {i \in CallRecords(s) : i > u})
               later == {i \in CallRecords(t) : i > Len(s)}
           IN  kept \cup NumberedFrom(Cardinality(kept), later)
                 = NumberedFrom(0, {i \in CallRecords(t) : i > u})
<1> DEFINE T == {i \in CallRecords(t) : i > u}
<1>1. /\ Len(s) \in Nat /\ Len(t) \in Nat
      /\ DOMAIN s = 1 .. Len(s) /\ DOMAIN t = 1 .. Len(t)
  BY LenProperties
<1>2. /\ Len(s) <= Len(t)
      /\ \A i \in 1 .. Len(s) : s[i] = t[i]
  BY PrefixIs
<1>3. T \in SUBSET (1 .. Len(t))
  BY <1>1 DEF CallRecords
<1>4. \A i : i \in CallRecords(s) /\ i > u <=> i \in T /\ i <= Len(s)
  BY <1>1, <1>2 DEF CallRecords
<1>5. \A i : i \in CallRecords(t) /\ i > Len(s) <=> i \in T /\ i > Len(s)
  BY <1>1, <1>2 DEF CallRecords
<1>6. /\ {i \in CallRecords(s) : i > u} = {i \in T : i <= Len(s)}
      /\ {i \in CallRecords(t) : i > Len(s)} = {i \in T : i > Len(s)}
  <2> HIDE DEF T
  <2>1. QED
    BY <1>4, <1>5
<1> HIDE DEF T
<1>7. QED
  BY <1>1, <1>3, <1>6, NumberingContinues DEF T

\* The rows of a snapshot with no more calls than MaxCalls pass the CHECK of
\* the table.
LEMMA CallsFit ==
    ASSUME NEW trace \in Traces, ~TooManyCalls(trace), NEW u
    PROVE  NumberedFrom(0, {i \in CallRecords(trace.events) : i > u})
             \subseteq [call_index : 1 .. MaxCalls, event_seq : Nat]
<1> DEFINE all == CallRecords(trace.events)
           T == {i \in all : i > u}
<1>1. Len(trace.events) \in Nat /\ DOMAIN trace.events = 1 .. Len(trace.events)
  BY LenProperties DEF Traces
<1>2. all \in SUBSET (1 .. Len(trace.events))
  BY <1>1 DEF CallRecords
<1>3. T \in SUBSET all
  OBVIOUS
<1> HIDE DEF all, T
<1>4. IsFiniteSet(all) /\ Cardinality(all) \in Nat
  BY <1>1, <1>2, PositionsFinite
<1>5. Cardinality(T) \in Nat /\ Cardinality(T) <= Cardinality(all)
  BY <1>3, <1>4, FS_Subset, FS_CardinalityType
<1>6. Cardinality(all) <= MaxCalls
  BY <1>4, LimitsAssumption DEF TooManyCalls, all
<1>7. 1 .. Cardinality(T) \subseteq 1 .. MaxCalls
  BY <1>4, <1>5, <1>6, LimitsAssumption
<1>8. NumberedFrom(0, T) \subseteq [call_index : 1 .. Cardinality(T), event_seq : Nat]
  BY <1>1, <1>2, <1>3, NumbersBounded
<1>9. QED
  BY <1>7, <1>8 DEF T, all
----
\* The tables hold another snapshot of a run, or the same, and still agree.
TablesHold(r, trace) ==
    /\ stored' \in [Runs -> Traces]
    /\ rows' \in [Runs -> Seq(Events)]
    /\ calls' \in [Runs -> SUBSET [call_index : 1 .. MaxCalls, event_seq : Nat]]
    /\ version' \in 0 .. 3
    /\ unobserved' \in [Runs -> Nat]
    /\ stored'[r] \in {stored[r], trace}
    /\ stored'[r].revision >= stored[r].revision
    /\ \A other \in Runs \ {r} : stored'[other] = stored[other]
    /\ TablesAgree'
    /\ UnobservedIsStored'

\* What a save_trace of a snapshot of the run does, whether by the run itself
\* or by a replay: the tables hold the newer of the two.
LEMMA SaveStep ==
    ASSUME SInv, NEW r \in Runs, NEW trace \in Snapshots(r), SaveTrace(r, trace)
    PROVE  /\ TablesHold(r, trace)
           /\ stored'[r].revision >= trace.revision
<1>1. /\ trace \in Traces /\ stored[r] \in Traces
      /\ trace.events \in Seq(Events) /\ stored[r].events \in Seq(Events)
      /\ trace.revision \in Nat /\ stored[r].revision \in Nat
  BY DEF SInv, TypeOK, Snapshots, Traces
<1>2. /\ version' = 3 /\ unobserved' = unobserved
  BY DEF SaveTrace, Migrate
<1>3. \A q \in Runs : calls[q] = GetLlmCalls(q)
  BY DEF SInv, UnobservedIsStored, GetLlmCalls
<1>4. CASE Stale(r, trace)
  <2>1. UNCHANGED <<stored, rows, calls>>
    BY <1>4 DEF SaveTrace
  <2>2. TablesAgree'
    <3>1. \A q \in Runs : GetLlmCalls(q)' = GetLlmCalls(q)
      BY <1>2, <1>3, <2>1 DEF GetLlmCalls
    <3>2. QED
      BY <1>2, <2>1, <3>1 DEF SInv, TablesAgree
  <2>3. UnobservedIsStored'
    BY <1>2, <2>1 DEF SInv, UnobservedIsStored
  <2>4. QED
    BY <1>1, <1>2, <1>4, <2>1, <2>2, <2>3 DEF SInv, TypeOK, Stale, TablesHold
<1>5. CASE ~Stale(r, trace)
  <2> DEFINE kept == Len(stored[r].events)
             later == {i \in CallRecords(trace.events) : i > kept}
             added == SubSeq(trace.events, kept + 1, Len(trace.events))
             since(q) == {i \in CallRecords(stored[q].events) : i > unobserved[q]}
  <2>1. /\ ~TooManyCalls(trace)
        /\ IsPrefix(stored[r].events, trace.events)
        /\ Insert(r, trace)
    BY <1>5 DEF SaveTrace, Invalid
  <2>2. /\ stored' = [stored EXCEPT ![r] = trace]
        /\ rows' = [rows EXCEPT ![r] = rows[r] \o added]
        /\ calls' = [calls EXCEPT ![r] =
                        calls[r] \cup NumberedFrom(Cardinality(calls[r]), later)]
    BY <2>1 DEF Insert, SInv, TypeOK
  <2>3. \A q \in Runs : rows[q] = stored[q].events /\ calls[q] = NumberedFrom(0, since(q))
    BY <1>3 DEF SInv, TablesAgree
  <2>4. rows[r] \o added = trace.events
    BY <1>1, <2>1, <2>3, PrefixCompleted
  <2>5. unobserved[r] \in Nat /\ unobserved[r] <= Len(stored[r].events)
    BY DEF SInv, TypeOK, UnobservedIsStored
  <2>6. calls[r] \cup NumberedFrom(Cardinality(calls[r]), later)
          = NumberedFrom(0, {i \in CallRecords(trace.events) : i > unobserved[r]})
    <3>1. NumberedFrom(0, since(r))
            \cup NumberedFrom(Cardinality(NumberedFrom(0, since(r))), later)
            = NumberedFrom(0, {i \in CallRecords(trace.events) : i > unobserved[r]})
      BY <1>1, <2>1, <2>5, CallsContinue
    <3> HIDE DEF later, since
    <3>2. QED
      BY <2>3, <3>1
  <2>7. NumberedFrom(0, {i \in CallRecords(trace.events) : i > unobserved[r]})
          \subseteq [call_index : 1 .. MaxCalls, event_seq : Nat]
    BY <1>1, <2>1, CallsFit
  <2> HIDE DEF kept, later, added
  <2>8. /\ stored' \in [Runs -> Traces]
        /\ rows' \in [Runs -> Seq(Events)]
        /\ calls' \in [Runs -> SUBSET [call_index : 1 .. MaxCalls, event_seq : Nat]]
    BY <1>1, <2>2, <2>4, <2>6, <2>7 DEF SInv, TypeOK
  <2>9. /\ stored'[r] = trace
        /\ rows'[r] = trace.events
        /\ calls'[r] = NumberedFrom(0, {i \in CallRecords(trace.events) : i > unobserved[r]})
        /\ \A q \in Runs \ {r} : /\ stored'[q] = stored[q] /\ rows'[q] = rows[q]
                                 /\ calls'[q] = calls[q]
    BY <2>2, <2>4, <2>6 DEF SInv, TypeOK
  <2>10. \A q \in Runs : GetLlmCalls(q)' = calls'[q]
    BY <1>2 DEF GetLlmCalls
  <2>11. TablesAgree'
    <3> SUFFICES ASSUME NEW q \in Runs
                 PROVE  /\ rows'[q] = stored'[q].events
                        /\ calls'[q] = NumberedFrom(0,
                             {i \in CallRecords(stored'[q].events) : i > unobserved'[q]})
      BY <2>10 DEF TablesAgree, CallRecords, NumberedFrom
    <3>1. CASE q = r
      BY <1>2, <2>9, <3>1
    <3>2. CASE q # r
      BY <1>2, <2>3, <2>9, <3>2
    <3>3. QED
      BY <3>1, <3>2
  <2>12. UnobservedIsStored'
    <3>1. Len(stored[r].events) <= Len(trace.events)
      BY <2>1 DEF IsPrefix
    <3>2. \A q \in Runs : unobserved[q] <= Len(stored[q].events)
      BY DEF SInv, UnobservedIsStored
    <3>3. /\ Len(stored[r].events) \in Nat /\ Len(trace.events) \in Nat
      BY <1>1, LenProperties
    <3>4. \A q \in Runs : unobserved[q] <= Len(stored'[q].events)
      BY <2>5, <2>9, <3>1, <3>2, <3>3
    <3>5. QED
      BY <1>2, <3>4 DEF UnobservedIsStored
  <2>13. trace.revision > stored[r].revision
    BY <1>1, <1>5 DEF Stale
  <2>14. QED
    BY <1>1, <1>2, <2>8, <2>9, <2>11, <2>12, <2>13 DEF SInv, TypeOK, TablesHold
<1>6. QED
  BY <1>4, <1>5

\* What a snapshot of a run is.
LEMMA SnapshotIs ==
    ASSUME SInv, NEW r \in Runs, NEW c \in Snapshots(r)
    PROVE  /\ c \in Traces /\ c.revision \in Nat /\ c.events \in Seq(Events)
           /\ c.revision <= live[r].revision
           /\ IsPrefix(c.events, live[r].events)
<1>1. c \in Traces
  BY DEF SInv, TypeOK, Snapshots
<1>2. live[r] \in Snapshots(r)
  BY DEF Snapshots
<1>3. QED
  BY <1>1, <1>2 DEF SInv, SnapshotsFollow, Traces

\* No revision in the database goes back.
LEMMA RevisionsGrow ==
    ASSUME SInv, NEW r \in Runs, NEW trace, TablesHold(r, trace)
    PROVE  \A q \in Runs : /\ stored[q].revision \in Nat /\ stored'[q].revision \in Nat
                           /\ stored'[q].revision >= stored[q].revision
<1>1. stored \in [Runs -> Traces] /\ stored' \in [Runs -> Traces]
  BY DEF SInv, TypeOK, TablesHold
<1>2. \A q \in Runs : stored[q].revision \in Nat /\ stored'[q].revision \in Nat
  BY <1>1 DEF Traces
<1>3. stored'[r].revision >= stored[r].revision
  BY DEF TablesHold
<1>4. \A q \in Runs \ {r} : stored'[q].revision >= stored[q].revision
  BY <1>2 DEF TablesHold
<1>5. QED
  BY <1>2, <1>3, <1>4

\* The answers to a run are numbered from 1.
LEMMA AnswersNumbered ==
    ASSUME TypeOK, NEW q \in Runs
    PROVE  DOMAIN answers[q] = 1 .. Len(answers[q]) /\ Len(answers[q]) \in Nat
<1>1. answers[q] \in Seq({"saved", "unchanged", "pending", "failed"})
  BY DEF TypeOK
<1>2. QED
  BY <1>1, LenProperties

\* A snapshot of a run agrees with the database; only its number of calls can
\* make save_trace refuse it.
LEMMA SnapshotsAgreeAlways ==
    ASSUME SInv, NEW r \in Runs, NEW trace \in Snapshots(r), Invalid(r, trace)
    PROVE  TooManyCalls(trace)
<1>1. stored[r] \in Snapshots(r)
  BY DEF Snapshots
<1>2. /\ trace.revision = stored[r].revision => trace = stored[r]
      /\ stored[r].revision <= trace.revision => IsPrefix(stored[r].events, trace.events)
  BY <1>1 DEF SInv, SnapshotsFollow
<1>3. trace.revision \in Nat /\ stored[r].revision \in Nat
  BY DEF SInv, TypeOK, Snapshots, Traces
<1>4. QED
  BY <1>2, <1>3 DEF Invalid, Stale

\* The initial states satisfy the invariant, those with the database of an
\* older release included.
LEMMA InitInv ==
    ASSUME Init
    PROVE  SInv
<1>1. PICK old \in SUBSET Runs, first \in Invocations, more \in Invocations \cup {<<>>} :
        LET saved == Trace(1, first)
            later == IF more = <<>> THEN saved ELSE Trace(2, first \o more)
            Of(value, default) == [r \in Runs |-> IF r \in old THEN value ELSE default]
        IN  /\ version = 0 => old = {} /\ more = <<>>
            /\ version = 2 => ~TooManyCalls(saved)
            /\ live = Of(later, NoTrace)
            /\ phase = Of("over", "waiting")
            /\ stored = Of(saved, NoTrace)
            /\ rows = Of(first, <<>>)
            /\ calls = Of(IF version = 1 THEN {} ELSE NumberedFrom(0, CallRecords(first)), {})
            /\ unobserved = Of(IF version = 1 THEN Len(first) ELSE 0, 0)
            /\ spool = IF later = saved THEN {} ELSE [run : old, trace : {later}]
            /\ answers = Of(IF later = saved THEN <<"saved">> ELSE <<"saved", "pending">>, <<>>)
  BY DEF Init
<1> DEFINE saved == Trace(1, first)
           later == IF more = <<>> THEN saved ELSE Trace(2, first \o more)
<1>2. /\ first \in Seq(Events) /\ more \in Seq(Events) /\ first \o more \in Seq(Events)
      /\ <<>> \in Seq(Events) /\ Len(first) \in Nat /\ Len(<<>>) = 0
  BY EventsAssumption, ConcatProperties, EmptySeq, LenProperties
<1>3. /\ saved \in Traces /\ later \in Traces /\ NoTrace \in Traces
      /\ saved.revision = 1 /\ saved.events = first
      /\ NoTrace.revision = 0 /\ NoTrace.events = <<>>
      /\ later = saved <=> more = <<>>
      /\ more # <<>> => later.revision = 2 /\ later.events = first \o more
  BY <1>2 DEF Trace, Traces, NoTrace
<1>4. /\ IsPrefix(first, first \o more)
      /\ IsPrefix(first, first) /\ IsPrefix(<<>>, <<>>)
      /\ IsPrefix(first \o more, first \o more)
  BY <1>2, PrefixExtended, PrefixReflexive
<1>5. version \in 0 .. 2
  BY DEF Init
<1> HIDE DEF saved, later
<1>6. /\ version = 0 => old = {} /\ more = <<>>
      /\ version = 2 => ~TooManyCalls(saved)
      /\ live = [r \in Runs |-> IF r \in old THEN later ELSE NoTrace]
      /\ phase = [r \in Runs |-> IF r \in old THEN "over" ELSE "waiting"]
      /\ stored = [r \in Runs |-> IF r \in old THEN saved ELSE NoTrace]
      /\ rows = [r \in Runs |-> IF r \in old THEN first ELSE <<>>]
      /\ calls = [r \in Runs |-> IF r \in old THEN
                    IF version = 1 THEN {} ELSE NumberedFrom(0, CallRecords(first)) ELSE {}]
      /\ unobserved = [r \in Runs |-> IF r \in old THEN
                         IF version = 1 THEN Len(first) ELSE 0 ELSE 0]
      /\ spool = IF later = saved THEN {} ELSE [run : old, trace : {later}]
      /\ answers = [r \in Runs |-> IF r \in old THEN
                      IF later = saved THEN <<"saved">> ELSE <<"saved", "pending">> ELSE <<>>]
  BY <1>1 DEF saved, later
<1>7. \A trace \in Traces, u \in Nat :
        u >= Len(trace.events) => {i \in CallRecords(trace.events) : i > u} = {}
  BY LenProperties DEF CallRecords, Traces
<1>8. /\ NumberedFrom(0, {}) = {}
      /\ {i \in CallRecords(first) : i > 0} = CallRecords(first)
  BY <1>2, LenProperties DEF NumberedFrom, CallRecords
<1>9. TypeOK
  <2>1. calls \in [Runs -> SUBSET [call_index : 1 .. MaxCalls, event_seq : Nat]]
    <3>1. version = 2 => NumberedFrom(0, CallRecords(first))
            \subseteq [call_index : 1 .. MaxCalls, event_seq : Nat]
      <4>1. version = 2 => NumberedFrom(0, {i \in CallRecords(saved.events) : i > 0})
              \subseteq [call_index : 1 .. MaxCalls, event_seq : Nat]
        BY <1>3, <1>6, CallsFit
      <4>2. QED
        BY <1>3, <1>8, <4>1
    <3>2. QED
      BY <1>5, <1>6, <3>1
  <2>2. spool \subseteq [run : Runs, trace : Traces]
    BY <1>3, <1>6
  <2>3. answers \in [Runs -> Seq({"saved", "unchanged", "pending", "failed"})]
    <3>1. /\ <<"saved">> \in Seq({"saved", "unchanged", "pending", "failed"})
          /\ <<"saved", "pending">> \in Seq({"saved", "unchanged", "pending", "failed"})
          /\ <<>> \in Seq({"saved", "unchanged", "pending", "failed"})
      OBVIOUS
    <3>2. QED
      BY <1>6, <3>1
  <2>4. QED
    BY <1>2, <1>3, <1>5, <1>6, <2>1, <2>2, <2>3 DEF TypeOK
<1>10. TablesAgree
  <2> SUFFICES ASSUME NEW r \in Runs
               PROVE  /\ rows[r] = stored[r].events
                      /\ GetLlmCalls(r) = NumberedFrom(0,
                            {i \in CallRecords(stored[r].events) : i > unobserved[r]})
    BY DEF TablesAgree
  <2> DEFINE since == {i \in CallRecords(stored[r].events) : i > unobserved[r]}
  <2>1. CASE r \in old /\ version = 1
    <3>1. stored[r] = saved /\ unobserved[r] = Len(first) /\ GetLlmCalls(r) = {}
      BY <1>6, <2>1 DEF GetLlmCalls
    <3>2. since = {}
      BY <1>2, <1>3, <1>7, <3>1
    <3>3. QED
      BY <1>3, <1>6, <1>8, <2>1, <3>1, <3>2
  <2>2. CASE r \in old /\ version # 1
    <3>1. /\ stored[r] = saved /\ unobserved[r] = 0
          /\ GetLlmCalls(r) = NumberedFrom(0, CallRecords(first))
      BY <1>5, <1>6, <2>2 DEF GetLlmCalls
    <3>2. since = CallRecords(first)
      BY <1>3, <1>8, <3>1
    <3>3. QED
      BY <1>3, <1>6, <2>2, <3>1, <3>2
  <2>3. CASE r \notin old
    <3>1. stored[r] = NoTrace /\ unobserved[r] = 0 /\ GetLlmCalls(r) = {}
      BY <1>6, <2>3 DEF GetLlmCalls
    <3>2. since = {}
      BY <1>2, <1>3, <1>7, <3>1
    <3>3. QED
      BY <1>3, <1>6, <1>8, <2>3, <3>1, <3>2
  <2>4. QED
    BY <2>1, <2>2, <2>3
<1>11. AnswersAreKept
  <2> SUFFICES ASSUME NEW r \in Runs, NEW k \in DOMAIN answers[r]
               PROVE  /\ answers[r][k] = "saved" => stored[r].revision >= k
                      /\ answers[r][k] = "pending" =>
                            \E s \in spool : s.run = r /\ s.trace.revision = k
    BY DEF AnswersAreKept
  <2>1. CASE later = saved
    BY <1>3, <1>6, <2>1
  <2>2. CASE later # saved
    <3>1. r \in old /\ answers[r] = <<"saved", "pending">>
      BY <1>6, <2>2
    <3>2. k = 1 \/ k = 2
      BY <3>1
    <3>3. stored[r] = saved
      BY <1>6, <3>1
    <3>4. [run |-> r, trace |-> later] \in spool /\ later.revision = 2
      BY <1>3, <1>6, <2>2, <3>1
    <3>5. QED
      BY <1>3, <3>1, <3>2, <3>3, <3>4
  <2>3. QED
    BY <2>1, <2>2
<1>12. SnapshotsFollow
  <2> SUFFICES ASSUME NEW r \in Runs, NEW a \in Snapshots(r), NEW b \in Snapshots(r)
               PROVE  /\ a.revision <= live[r].revision
                      /\ a.revision = b.revision => a = b
                      /\ a.revision <= b.revision => IsPrefix(a.events, b.events)
    BY DEF SnapshotsFollow
  <2>1. CASE r \in old
    <3>1. a \in {saved, later} /\ b \in {saved, later} /\ live[r] = later
      BY <1>6, <2>1 DEF Snapshots
    <3>2. CASE more = <<>>
      BY <1>3, <1>4, <3>1, <3>2
    <3>3. CASE more # <<>>
      <4>1. /\ saved.revision = 1 /\ saved.events = first
            /\ later.revision = 2 /\ later.events = first \o more
        BY <1>3, <3>3
      <4>2. /\ IsPrefix(saved.events, saved.events)
            /\ IsPrefix(saved.events, later.events)
            /\ IsPrefix(later.events, later.events)
        BY <1>4, <4>1
      <4>3. /\ \A c \in {saved, later} : c.revision <= later.revision
            /\ \A c, d \in {saved, later} :
                 /\ c.revision = d.revision => c = d
                 /\ c.revision <= d.revision => IsPrefix(c.events, d.events)
        <5>1. \A c \in {saved, later} : c.revision <= later.revision
          BY <4>1
        <5>2. \A c, d \in {saved, later} : c.revision = d.revision => c = d
          BY <4>1
        <5>3. \A c, d \in {saved, later} :
                c.revision <= d.revision => IsPrefix(c.events, d.events)
          <6> SUFFICES ASSUME NEW c \in {saved, later}, NEW d \in {saved, later},
                              ~IsPrefix(c.events, d.events)
                       PROVE  ~(c.revision <= d.revision)
            OBVIOUS
          <6>1. c = later /\ d = saved
            BY <4>2
          <6>2. QED
            BY <4>1, <6>1
        <5>4. QED
          BY <5>1, <5>2, <5>3
      <4>4. QED
        BY <3>1, <4>3
    <3>4. QED
      BY <3>2, <3>3
  <2>2. CASE r \notin old
    <3>1. a = NoTrace /\ b = NoTrace /\ live[r] = NoTrace
      BY <1>6, <2>2 DEF Snapshots
    <3>2. QED
      BY <1>3, <1>4, <3>1
  <2>3. QED
    BY <2>1, <2>2
<1>13. OneAnswerPerReturn
  BY <1>3, <1>6 DEF OneAnswerPerReturn
<1>14. UnobservedIsStored
  BY <1>2, <1>3, <1>5, <1>6 DEF UnobservedIsStored
<1>15. QED
  BY <1>9, <1>10, <1>11, <1>12, <1>13, <1>14 DEF SInv

\* A step that leaves the tables alone.
LEMMA TablesKept ==
    ASSUME SInv, NEW r \in Runs, NEW trace, UNCHANGED tables
    PROVE  TablesHold(r, trace)
<1>1. UNCHANGED <<stored, rows, calls, version, unobserved>>
  BY DEF tables
<1>2. TablesAgree' /\ UnobservedIsStored'
  BY <1>1 DEF SInv, TablesAgree, UnobservedIsStored, GetLlmCalls
<1>3. stored[r].revision \in Nat
  BY DEF SInv, TypeOK, Traces
<1>4. QED
  BY <1>1, <1>2, <1>3 DEF SInv, TypeOK, TablesHold

\* Saving and spooling a snapshot make no new ones.
LEMMA SnapshotsStay ==
    ASSUME SInv, NEW r \in Runs, NEW trace \in Snapshots(r), TablesHold(r, trace),
           UNCHANGED live,
           spool' \in {spool, spool \cup {[run |-> r, trace |-> live[r]]}}
    PROVE  SnapshotsFollow'
<1>1. \A q \in Runs : \A a \in Snapshots(q)' : a \in Snapshots(q)
  BY DEF Snapshots, TablesHold
<1>2. QED
  BY <1>1 DEF SInv, SnapshotsFollow

\* A return is answered: the caller is told what has happened to its snapshot.
LEMMA Answered ==
    ASSUME SInv, NEW r \in Runs, NEW answer \in {"saved", "unchanged", "pending", "failed"},
           Answer(r, answer), TablesHold(r, live[r]),
           spool' \in {spool, spool \cup {[run |-> r, trace |-> live[r]]}},
           answer = "saved" => stored'[r].revision >= live[r].revision,
           answer = "pending" => [run |-> r, trace |-> live[r]] \in spool'
    PROVE  SInv'
<1>1. /\ live' = live
      /\ phase[r] = "saving"
      /\ answers' = [answers EXCEPT ![r] = Append(answers[r], answer)]
      /\ phase' \in [Runs -> {"waiting", "saving", "over"}]
      /\ phase'[r] # "saving"
      /\ \A q \in Runs \ {r} : phase'[q] = phase[q]
  BY DEF Answer, SInv, TypeOK
<1>2. /\ answers[r] \in Seq({"saved", "unchanged", "pending", "failed"})
      /\ Len(answers[r]) \in Nat
      /\ DOMAIN answers[r] = 1 .. Len(answers[r])
      /\ live[r].revision = Len(answers[r]) + 1
  BY <1>1, LenProperties DEF SInv, TypeOK, OneAnswerPerReturn
<1>3. /\ answers'[r] \in Seq({"saved", "unchanged", "pending", "failed"})
      /\ Len(answers'[r]) = Len(answers[r]) + 1
      /\ DOMAIN answers'[r] = 1 .. Len(answers[r]) + 1
      /\ \A k \in 1 .. Len(answers[r]) : answers'[r][k] = answers[r][k]
      /\ answers'[r][Len(answers[r]) + 1] = answer
      /\ \A q \in Runs \ {r} : answers'[q] = answers[q]
      /\ answers' \in [Runs -> Seq({"saved", "unchanged", "pending", "failed"})]
  <2>1. /\ Append(answers[r], answer) \in Seq({"saved", "unchanged", "pending", "failed"})
        /\ Len(Append(answers[r], answer)) = Len(answers[r]) + 1
        /\ DOMAIN Append(answers[r], answer) = 1 .. Len(answers[r]) + 1
        /\ \A k \in 1 .. Len(answers[r]) : Append(answers[r], answer)[k] = answers[r][k]
        /\ Append(answers[r], answer)[Len(answers[r]) + 1] = answer
    BY <1>2, AppendProperties, LenProperties
  <2>2. QED
    BY <1>1, <2>1 DEF SInv, TypeOK
<1>4. TypeOK'
  <2>1. spool' \subseteq [run : Runs, trace : Traces]
    BY DEF SInv, TypeOK
  <2>2. QED
    BY <1>1, <1>3, <2>1 DEF SInv, TypeOK, TablesHold
<1>5. SnapshotsFollow'
  BY <1>1, SnapshotsStay DEF Snapshots
<1>6. OneAnswerPerReturn'
  BY <1>1, <1>2, <1>3 DEF SInv, OneAnswerPerReturn
<1>7. AnswersAreKept'
  <2> SUFFICES ASSUME NEW q \in Runs, NEW k \in DOMAIN answers'[q]
               PROVE  /\ answers'[q][k] = "saved" => stored'[q].revision >= k
                      /\ answers'[q][k] = "pending" =>
                            \E s \in spool' : s.run = q /\ s.trace.revision = k
    BY DEF AnswersAreKept
  <2>1. CASE q = r /\ k = Len(answers[r]) + 1
    BY <1>2, <1>3, <2>1
  <2>2. CASE ~(q = r /\ k = Len(answers[r]) + 1)
    <3>1. k \in DOMAIN answers[q] /\ answers'[q][k] = answers[q][k]
      BY <1>2, <1>3, <2>2
    <3>2. /\ answers[q][k] = "saved" => stored[q].revision >= k
          /\ answers[q][k] = "pending" => \E s \in spool : s.run = q /\ s.trace.revision = k
      BY <3>1 DEF SInv, AnswersAreKept
    <3>3. k \in Nat
      BY <3>1, AnswersNumbered DEF SInv
    <3>4. /\ stored[q].revision \in Nat /\ stored'[q].revision \in Nat
          /\ stored'[q].revision >= stored[q].revision
      BY RevisionsGrow
    <3>5. QED
      BY <3>1, <3>2, <3>3, <3>4
  <2>3. QED
    BY <2>1, <2>2
<1>8. QED
  BY <1>4, <1>5, <1>6, <1>7 DEF SInv, TablesHold

\* Every step keeps the invariant.
LEMMA Inductive ==
    ASSUME SInv, [Next]_vars
    PROVE  SInv'
<1>1. ASSUME NEW r \in Runs, Return(r)
      PROVE  SInv'
  <2>1. PICK new \in Invocations :
          live' = [live EXCEPT ![r] = Trace(live[r].revision + 1, live[r].events \o new)]
    BY <1>1 DEF Return, SInv, TypeOK
  <2> DEFINE next == Trace(live[r].revision + 1, live[r].events \o new)
  <2>2. /\ live[r] \in Traces /\ live[r].revision \in Nat
        /\ live[r].events \in Seq(Events) /\ new \in Seq(Events)
    BY EventsAssumption DEF SInv, TypeOK, Traces
  <2>3. /\ next \in Traces
        /\ next.revision = live[r].revision + 1
        /\ next.events = live[r].events \o new
        /\ IsPrefix(live[r].events, next.events)
        /\ IsPrefix(next.events, next.events)
    <3>1. live[r].events \o new \in Seq(Events)
      BY <2>2, ConcatProperties
    <3>2. /\ next \in Traces
          /\ next.revision = live[r].revision + 1
          /\ next.events = live[r].events \o new
      BY <2>2, <3>1 DEF Trace, Traces
    <3> HIDE DEF next
    <3>3. QED
      BY <2>2, <3>1, <3>2, PrefixExtended, PrefixReflexive
  <2> HIDE DEF next
  <2>4. /\ live' = [live EXCEPT ![r] = next]
        /\ phase[r] = "waiting"
        /\ phase' = [phase EXCEPT ![r] = "saving"]
        /\ UNCHANGED <<stored, rows, calls, version, unobserved, spool, answers>>
    BY <1>1, <2>1 DEF Return, tables, next
  <2>5. TypeOK'
    BY <2>3, <2>4 DEF SInv, TypeOK
  <2>6. TablesAgree' /\ AnswersAreKept' /\ UnobservedIsStored'
    BY <2>4 DEF SInv, TablesAgree, AnswersAreKept, UnobservedIsStored, GetLlmCalls
  <2>7. SnapshotsFollow'
    <3> SUFFICES ASSUME NEW q \in Runs, NEW a \in Snapshots(q)', NEW b \in Snapshots(q)'
                 PROVE  /\ a.revision <= live'[q].revision
                        /\ a.revision = b.revision => a = b
                        /\ a.revision <= b.revision => IsPrefix(a.events, b.events)
      BY DEF SnapshotsFollow
    <3>1. CASE q # r
      BY <2>4, <3>1 DEF SInv, TypeOK, SnapshotsFollow, Snapshots
    <3>2. CASE q = r
      <4>1. live'[q] = next
        BY <2>4, <3>2 DEF SInv, TypeOK
      <4>2. \A c \in Snapshots(q)' : c = next \/ c \in Snapshots(r)
        BY <2>4, <3>2, <4>1 DEF Snapshots
      <4>3. \A c \in Snapshots(r) :
              /\ c \in Traces /\ c.revision \in Nat /\ c.events \in Seq(Events)
              /\ c.revision <= live[r].revision
              /\ IsPrefix(c.events, live[r].events)
        BY SnapshotIs
      <4>4. \A c \in Snapshots(r) : IsPrefix(c.events, next.events)
        BY <2>2, <2>3, <4>3, PrefixTransitive DEF Traces
      <4>5. CASE a = next \/ b = next
        <5>1. \A c \in Snapshots(r) : c.revision < next.revision
          BY <2>2, <2>3, <4>3
        <5>2. next.revision \in Nat /\ \A c \in Snapshots(r) : c.revision \in Nat
          BY <2>2, <2>3, <4>3
        <5>3. CASE a = next /\ b = next
          <6>1. next.revision <= live'[q].revision
            BY <4>1, <5>2
          <6>2. QED
            BY <2>3, <5>3, <6>1
        <5>4. CASE a = next /\ b \in Snapshots(r)
          BY <4>1, <5>1, <5>2, <5>4
        <5>5. CASE a \in Snapshots(r) /\ b = next
          BY <4>1, <4>4, <5>1, <5>2, <5>5
        <5>6. QED
          BY <4>2, <4>5, <5>3, <5>4, <5>5
      <4>6. CASE a \in Snapshots(r) /\ b \in Snapshots(r)
        BY <2>2, <2>3, <4>1, <4>3, <4>6 DEF SInv, SnapshotsFollow
      <4>7. QED
        BY <4>2, <4>5, <4>6
    <3>3. QED
      BY <3>1, <3>2
  <2>8. OneAnswerPerReturn'
    BY <2>2, <2>3, <2>4 DEF SInv, TypeOK, OneAnswerPerReturn
  <2>9. QED
    BY <2>5, <2>6, <2>7, <2>8 DEF SInv
<1>2. ASSUME NEW r \in Runs, Persist(r)
      PROVE  SInv'
  <2> DEFINE answer == IF Stale(r, live[r]) THEN "unchanged" ELSE "saved"
  <2>1. SaveTrace(r, live[r]) /\ live[r] \in Snapshots(r) /\ Answer(r, answer) /\ spool' = spool
    BY <1>2 DEF Persist, Snapshots
  <2>2. TablesHold(r, live[r]) /\ stored'[r].revision >= live[r].revision
    BY <2>1, SaveStep
  <2>3. answer \in {"saved", "unchanged", "pending", "failed"} /\ answer # "pending"
    OBVIOUS
  <2> HIDE DEF answer
  <2>4. QED
    BY <2>1, <2>2, <2>3, Answered
<1>3. ASSUME NEW r \in Runs, PersistSpools(r)
      PROVE  SInv'
  <2>1. /\ Answer(r, "pending")
        /\ spool' = spool \cup {[run |-> r, trace |-> live[r]]}
        /\ TablesHold(r, live[r])
    BY <1>3, TablesKept DEF PersistSpools
  <2>2. QED
    BY <2>1, Answered
<1>4. ASSUME NEW r \in Runs, PersistFails(r)
      PROVE  SInv'
  <2>1. /\ Answer(r, "failed") /\ spool' = spool
        /\ TablesHold(r, live[r])
    BY <1>4, TablesKept DEF PersistFails
  <2>2. QED
    BY <2>1, Answered
<1>5. ASSUME NEW r \in Runs, Crash(r)
      PROVE  SInv'
  <2>1. /\ phase' = [phase EXCEPT ![r] = "over"]
        /\ UNCHANGED <<live, stored, rows, calls, version, unobserved, spool, answers>>
    BY <1>5 DEF Crash, tables
  <2>2. TypeOK' /\ OneAnswerPerReturn'
    BY <2>1 DEF SInv, TypeOK, OneAnswerPerReturn
  <2>3. TablesAgree' /\ AnswersAreKept' /\ UnobservedIsStored'
    <3>1. TablesAgree' /\ UnobservedIsStored'
      BY <1>5, TablesKept DEF Crash, TablesHold
    <3>2. AnswersAreKept'
      BY <2>1 DEF SInv, AnswersAreKept
    <3>3. QED
      BY <3>1, <3>2
  <2>4. SnapshotsFollow'
    <3>1. \A q \in Runs : Snapshots(q)' = Snapshots(q)
      BY <2>1 DEF Snapshots
    <3>2. QED
      BY <2>1, <3>1 DEF SInv, SnapshotsFollow
  <2>5. QED
    BY <2>2, <2>3, <2>4 DEF SInv
<1>6. ASSUME NEW snapshot \in spool, Replay(snapshot)
      PROVE  SInv'
  <2> DEFINE r == snapshot.run
             trace == snapshot.trace
  <2>1. r \in Runs /\ trace \in Snapshots(r)
    BY DEF SInv, TypeOK, Snapshots
  <2>2. SaveTrace(r, trace) /\ UNCHANGED <<live, phase, spool, answers>>
    BY <1>6 DEF Replay
  <2> HIDE DEF r, trace
  <2>3. TablesHold(r, trace)
    BY <2>1, <2>2, SaveStep
  <2>4. TypeOK' /\ OneAnswerPerReturn'
    BY <2>2, <2>3 DEF SInv, TypeOK, OneAnswerPerReturn, TablesHold
  <2>5. SnapshotsFollow'
    BY <2>1, <2>2, <2>3, SnapshotsStay
  <2>6. AnswersAreKept'
    <3> SUFFICES ASSUME NEW q \in Runs, NEW k \in DOMAIN answers[q]
                 PROVE  /\ answers[q][k] = "saved" => stored'[q].revision >= k
                        /\ answers[q][k] = "pending" =>
                              \E s \in spool : s.run = q /\ s.trace.revision = k
      BY <2>2 DEF AnswersAreKept
    <3>1. k \in Nat
      BY AnswersNumbered DEF SInv
    <3>2. /\ stored[q].revision \in Nat /\ stored'[q].revision \in Nat
          /\ stored'[q].revision >= stored[q].revision
      BY <2>1, <2>3, RevisionsGrow
    <3>3. QED
      BY <3>1, <3>2 DEF SInv, AnswersAreKept
  <2>7. QED
    BY <2>3, <2>4, <2>5, <2>6 DEF SInv, TablesHold
<1>7. ASSUME UNCHANGED vars
      PROVE  SInv'
  <2>1. UNCHANGED <<live, phase, stored, rows, calls, version, unobserved, spool, answers>>
    BY <1>7 DEF vars, tables
  <2>2. QED
    BY <2>1 DEF SInv, TypeOK, TablesAgree, AnswersAreKept, UnobservedIsStored, SnapshotsFollow,
                OneAnswerPerReturn, Snapshots, GetLlmCalls
<1>8. QED
  BY <1>1, <1>2, <1>3, <1>4, <1>5, <1>6, <1>7 DEF Next
----
\* The invariant holds at all times.
LEMMA Invariance ==
    Spec => []SInv
  BY InitInv, Inductive, PTL DEF Spec

\* TypeOK: every table holds rows of its type; in particular the CHECK of the
\* llm_calls table on the number of a call never fires.
THEOREM TypeCorrect ==
    Spec => []TypeOK
<1>1. SInv => TypeOK
  BY DEF SInv
<1>2. QED
  BY <1>1, Invariance, PTL

\* TablesAgree: in whatever order the snapshots of any number of runs arrive,
\* repeated, skipped, replayed, and on top of whatever an older release has
\* left, the event table is the stored snapshot and the call table its
\* observations since they are recorded, numbered without a gap.
THEOREM TablesAlwaysAgree ==
    Spec => []TablesAgree
<1>1. SInv => TablesAgree
  BY DEF SInv
<1>2. QED
  BY <1>1, Invariance, PTL

\* AnswersAreKept: a return that was told "saved" finds its revision, or a
\* newer one, in the database for good, and one told "pending" in the spool.
THEOREM AnswersAreAlwaysKept ==
    Spec => []AnswersAreKept
<1>1. SInv => AnswersAreKept
  BY DEF SInv
<1>2. QED
  BY <1>1, Invariance, PTL

\* SnapshotsAgree: save_trace never finds a snapshot of memory or spool in
\* conflict with the database.
THEOREM SnapshotsAlwaysAgree ==
    Spec => []SnapshotsAgree
<1>1. SInv => SnapshotsAgree
  <2> SUFFICES ASSUME SInv
               PROVE  SnapshotsAgree
    OBVIOUS
  <2>1. \A r \in Runs : live[r] \in Snapshots(r)
    BY DEF Snapshots
  <2>2. \A s \in spool : s.run \in Runs /\ s.trace \in Snapshots(s.run)
    BY DEF SInv, TypeOK, Snapshots
  <2>3. QED
    BY <2>1, <2>2, SnapshotsAgreeAlways DEF SnapshotsAgree
<1>2. QED
  BY <1>1, Invariance, PTL
----
\* A step of save_trace advances the history of one run or of none.
LEMMA SaveAdvances ==
    ASSUME SInv, SInv', NEW r \in Runs, NEW trace \in Snapshots(r), TablesHold(r, trace)
    PROVE  [Promised!Next]_<<StoredRevisions, rows>>
<1>1. /\ \A q \in Runs : /\ rows[q] = stored[q].events /\ rows'[q] = stored'[q].events
                         /\ StoredRevisions[q] = stored[q].revision
                         /\ StoredRevisions'[q] = stored'[q].revision
      /\ \A q \in Runs \ {r} : stored'[q] = stored[q]
  BY DEF SInv, TablesAgree, TablesHold, StoredRevisions
<1>2. CASE stored'[r] = stored[r]
  <2>1. \A q \in Runs : stored'[q] = stored[q]
    BY <1>1, <1>2
  <2>2. rows' = rows
    <3>1. /\ rows \in [Runs -> Seq(Events)]
          /\ rows' \in [Runs -> Seq(Events)]
      BY DEF SInv, TypeOK
    <3>2. \A q \in Runs : rows'[q] = rows[q]
      BY <1>1, <2>1
    <3>3. QED
      BY <3>1, <3>2
  <2>3. StoredRevisions' = StoredRevisions
    BY <2>1 DEF StoredRevisions
  <2>4. QED
    BY <2>2, <2>3
<1>3. CASE stored'[r] # stored[r]
  <2>1. /\ stored'[r] = trace /\ stored'[r].revision >= stored[r].revision
        /\ stored[r] \in Snapshots(r)
    BY <1>3 DEF TablesHold, Snapshots
  <2>2. stored'[r].revision \in Nat /\ stored[r].revision \in Nat
    BY DEF SInv, TypeOK, Traces
  <2>3. /\ stored[r].revision < stored'[r].revision
        /\ IsPrefix(stored[r].events, stored'[r].events)
    BY <1>3, <2>1, <2>2 DEF SInv, SnapshotsFollow
  <2>4. Promised!Advance(r)
    <3>1. /\ StoredRevisions'[r] > StoredRevisions[r]
          /\ IsPrefix(rows[r], rows'[r])
          /\ \A q \in Runs \ {r} : /\ StoredRevisions'[q] = StoredRevisions[q]
                                   /\ rows'[q] = rows[q]
      BY <1>1, <2>2, <2>3
    <3>2. QED
      BY <3>1 DEF Promised!Advance, Promised!IsPrefix, IsPrefix
  <2>5. QED
    BY <2>4 DEF Promised!Next
<1>4. QED
  BY <1>2, <1>3

\* PromisedHistory: the database implements the history it promises
\* (RunHistory): of no run does a revision go back, or a recorded event change.
THEOREM TablesImplementTheHistory ==
    Spec => PromisedHistory
<1>1. Init => Promised!Init
  <2> SUFFICES ASSUME Init
               PROVE  Promised!Init
    OBVIOUS
  <2>1. SInv
    BY InitInv
  <2>2. \A r \in Runs : stored[r].revision = 0 => stored[r] = NoTrace
    BY DEF Init, Trace
  <2>3. \A r \in Runs : /\ stored[r].revision \in Nat
                        /\ rows[r] = stored[r].events
    BY <2>1 DEF SInv, TypeOK, Traces, TablesAgree
  <2>4. NoTrace.events = <<>>
    BY DEF NoTrace, Trace
  <2>5. QED
    BY <2>2, <2>3, <2>4 DEF Promised!Init, StoredRevisions
<1>2. SInv /\ SInv' /\ [Next]_vars => [Promised!Next]_<<StoredRevisions, rows>>
  <2> SUFFICES ASSUME SInv, SInv', [Next]_vars
               PROVE  [Promised!Next]_<<StoredRevisions, rows>>
    OBVIOUS
  <2>1. ASSUME NEW r \in Runs, Persist(r)
        PROVE  [Promised!Next]_<<StoredRevisions, rows>>
    BY <2>1, SaveStep, SaveAdvances DEF Persist, Snapshots
  <2>2. ASSUME NEW snapshot \in spool, Replay(snapshot)
        PROVE  [Promised!Next]_<<StoredRevisions, rows>>
    <3>1. snapshot.run \in Runs /\ snapshot.trace \in Snapshots(snapshot.run)
      BY DEF SInv, TypeOK, Snapshots
    <3>2. SaveTrace(snapshot.run, snapshot.trace)
      BY <2>2 DEF Replay
    <3>3. QED
      BY <3>1, <3>2, SaveStep, SaveAdvances
  <2>3. ASSUME UNCHANGED <<stored, rows>>
        PROVE  [Promised!Next]_<<StoredRevisions, rows>>
    BY <2>3 DEF StoredRevisions
  <2>4. QED
    BY <2>1, <2>2, <2>3 DEF Next, vars, tables, Return, PersistSpools, PersistFails, Crash
<1>3. QED
  BY <1>1, <1>2, Invariance, PTL DEF Spec, PromisedHistory, Promised!Spec
====
