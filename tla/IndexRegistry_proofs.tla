---- MODULE IndexRegistry_proofs ----
(***************************************************************************)
(* Proofs about the index registry (IndexRegistry).                        *)
(***************************************************************************)
EXTENDS IndexRegistry, SequenceTheorems, TLAPS

\* One thread of a process at most holds the lock of a key.
KeysAreLocked ==
    \A t, u \in Threads :
        /\ at[t] = "idle" => key[t] = None
        /\ key[t] \in Keys /\ key[u] = key[t] /\ ProcessOf[u] = ProcessOf[t] => t = u

\* A version belongs to one stretch of history: it is never taken up again.
VersionsAreNew ==
    \A f \in Files :
        /\ \A i \in DOMAIN history : history[i][f] <= Len(history)
        /\ \A i, j, k \in DOMAIN history :
            i <= j /\ j <= k /\ history[i][f] = history[k][f] /\ history[i][f] # 0
                => history[j][f] = history[i][f]

\* File f had version v at some moment between two positions of history.
Seen(f, v, first, last) == \E i \in first..last : history[i][f] = v

\* What the first scan has so far was seen during the call.
ScansAreSeen ==
    \A t \in Threads : at[t] = "scan" =>
        /\ content[t] = <<>> /\ again[t] = <<>>
        /\ \A f \in 1..Len(manifest[t]) :
            Seen(f, manifest[t][f], since[t], Len(history))

\* Between the two scans there was a moment: everything in the first one was seen
\* before it, and everything in the second one after it.
ScansMeet ==
    \A t \in Threads : at[t] \in {"build", "verify"} =>
        \E m \in since[t]..Len(history) :
            /\ \A f \in Files : Seen(f, manifest[t][f], since[t], m)
            /\ \A f \in 1..Len(again[t]) : Seen(f, again[t][f], m, Len(history))

\* The text of a listed file is the one that the manifest lists, or one that
\* the file got later on; the second scan finds out which.
TextsAreRead ==
    \A t \in Threads : at[t] \in {"build", "verify"} =>
        /\ at[t] = "build" => again[t] = <<>>
        /\ \A f \in 1..Len(content[t]) : manifest[t][f] # 0 =>
            \/ content[t][f] = manifest[t][f]
            \/ \E i, j \in DOMAIN history :
                i <= j /\ history[i][f] = manifest[t][f] /\ history[j][f] = content[t][f]
        /\ \A f \in 1..Len(again[t]) :
            again[t][f] = manifest[t][f] /\ manifest[t][f] # 0
                => content[t][f] = manifest[t][f]

\* The index that is about to be stored is a current one.
CandidatesAreCurrent ==
    \A t \in Threads : at[t] \in {"write", "publish"} =>
        Coherent(Candidate(t)) /\ Current(t, Candidate(t))

\* An index that is coherent and was current at one moment.
Sound(index) == Coherent(index) /\ \E i \in DOMAIN history : Fits(index, i)

StoredAreSound ==
    /\ \A p \in Processes : \A e \in Entries(p) : Sound(e.index)
    /\ \A k \in Keys : disk[k] # None => Sound(disk[k])
    /\ \A t \in Threads : baseline[t] # None => Sound(baseline[t])

\* The entry in memory of the key that a thread looks up is older than its call.
EntriesAreOlder ==
    \A t \in Threads : at[t] # "idle" =>
        \A e \in Entries(ProcessOf[t]) : e.key = key[t] =>
            \E i \in 1..since[t] : Fits(e.index, i)

\* The inductive invariant.
RInv ==
    /\ TypeOK
    /\ KeysAreLocked
    /\ VersionsAreNew
    /\ ScansAreSeen
    /\ ScansMeet
    /\ TextsAreRead
    /\ CandidatesAreCurrent
    /\ StoredAreSound
    /\ EntriesAreOlder

----
Entry == [key : Keys, index : Indexes]

\* Removing one element of a sequence keeps the others, in their order.
LEMMA RemoveAtIs ==
    ASSUME NEW S, NEW s \in Seq(S), NEW i \in 1 .. Len(s)
    PROVE  /\ RemoveAt(s, i) \in Seq(S)
           /\ Len(RemoveAt(s, i)) = Len(s) - 1
           /\ \A j \in 1 .. (Len(s) - 1) :
                RemoveAt(s, i)[j] = IF j < i THEN s[j] ELSE s[j + 1]
<1> DEFINE before == SubSeq(s, 1, i - 1)
           after == SubSeq(s, i + 1, Len(s))
<1>0. Len(s) \in Nat /\ \A j \in 1 .. Len(s) : s[j] \in S
  BY LenProperties
<1>1. /\ before \in Seq(S)
      /\ Len(before) = i - 1
      /\ \A j \in 1 .. (i - 1) : before[j] = s[j]
  BY <1>0, SubSeqProperties
<1>2. /\ after \in Seq(S)
      /\ Len(after) = Len(s) - i
      /\ \A j \in 1 .. (Len(s) - i) : after[j] = s[i + j]
  BY <1>0, SubSeqProperties
<1> HIDE DEF before, after
<1>3. /\ before \o after \in Seq(S)
      /\ Len(before \o after) = Len(before) + Len(after)
      /\ \A j \in 1 .. (Len(before) + Len(after)) :
           (before \o after)[j] =
              IF j <= Len(before) THEN before[j] ELSE after[j - Len(before)]
  BY <1>1, <1>2, ConcatProperties
<1>4. RemoveAt(s, i) = before \o after
  BY DEF RemoveAt, before, after
<1>5. ASSUME NEW j \in 1 .. (Len(s) - 1)
      PROVE  (before \o after)[j] = IF j < i THEN s[j] ELSE s[j + 1]
  <2>1. CASE j < i
    BY <1>0, <1>1, <1>2, <1>3, <2>1
  <2>2. CASE ~(j < i)
    <3>1. j - (i - 1) \in 1 .. (Len(s) - i) /\ i + (j - (i - 1)) = j + 1
      BY <1>0, <2>2
    <3>2. (before \o after)[j] = after[j - (i - 1)]
      BY <1>0, <1>1, <1>2, <1>3, <2>2
    <3>3. QED
      BY <1>2, <2>2, <3>1, <3>2
  <2>3. QED
    BY <2>1, <2>2
<1>6. Len(before \o after) = Len(s) - 1
  BY <1>0, <1>1, <1>2, <1>3
<1>7. QED
  BY <1>3, <1>4, <1>5, <1>6

\* The other entries of a process have other keys.
LEMMA OthersAre ==
    ASSUME NEW p \in Processes, NEW k \in Keys, TypeOK
    PROVE  /\ Others(p, k) \in Seq(Entry)
           /\ Len(Others(p, k)) <= MaxEntries
           /\ \A i, j \in DOMAIN Others(p, k) :
                Others(p, k)[i].key = Others(p, k)[j].key => i = j
           /\ \A i \in DOMAIN Others(p, k) :
                /\ Others(p, k)[i].key # k
                /\ Others(p, k)[i] \in Entries(p)
<1> DEFINE s == memory[p]
<1>1. /\ s \in Seq(Entry)
      /\ Len(s) <= MaxEntries
      /\ \A i, j \in DOMAIN s : s[i].key = s[j].key => i = j
  BY DEF TypeOK, Entry
<1>2. Entries(p) = {s[i] : i \in DOMAIN s}
  BY DEF Entries, ToSet
<1>3. Len(s) \in Nat /\ DOMAIN s = 1 .. Len(s) /\ MaxEntries \in Nat
  BY <1>1, LenProperties, SizesAssumption
<1>4. CASE Cached(p, k)
  <2> DEFINE i == CHOOSE i \in DOMAIN s : s[i].key = k
             r == RemoveAt(s, i)
  <2>1. i \in 1 .. Len(s) /\ s[i].key = k
    BY <1>2, <1>3, <1>4 DEF Cached
  <2> HIDE DEF i, s
  <2>2. /\ r \in Seq(Entry)
        /\ Len(r) = Len(s) - 1
        /\ \A j \in 1 .. (Len(s) - 1) : r[j] = IF j < i THEN s[j] ELSE s[j + 1]
    BY <1>1, <2>1, RemoveAtIs
  <2>3. Others(p, k) = r
    BY <1>4 DEF Others, s, i
  <2> HIDE DEF r
  <2>4. DOMAIN r = 1 .. (Len(s) - 1)
    BY <2>2, LenProperties
  <2>5. \A j \in DOMAIN r : \E h \in DOMAIN s :
           h # i /\ r[j] = s[h] /\ h = IF j < i THEN j ELSE j + 1
    BY <1>3, <2>1, <2>2, <2>4
  <2>6. \A j \in DOMAIN r : r[j].key # k /\ r[j] \in Entries(p)
    BY <1>1, <1>2, <1>3, <2>1, <2>5
  <2>7. \A j, h \in DOMAIN r : r[j].key = r[h].key => j = h
    BY <1>1, <1>3, <2>1, <2>4, <2>5
  <2>8. QED
    BY <1>1, <1>3, <2>2, <2>3, <2>6, <2>7
<1>5. CASE ~Cached(p, k)
  <2>1. Others(p, k) = s
    BY <1>5 DEF Others
  <2>2. \A i \in DOMAIN s : s[i] \in Entries(p) /\ s[i].key # k
    BY <1>2, <1>5 DEF Cached
  <2>3. QED
    BY <1>1, <2>1, <2>2
<1>6. QED
  BY <1>4, <1>5

\* What the memory of a process has after a publication: the new entry, and
\* entries of other keys that it had before.
LEMMA PublishedEntries ==
    ASSUME NEW p \in Processes, NEW k \in Keys, NEW index \in Indexes, TypeOK
    PROVE  /\ Published(p, k, index) \in Seq(Entry)
           /\ Len(Published(p, k, index)) <= MaxEntries
           /\ \A i, j \in DOMAIN Published(p, k, index) :
                Published(p, k, index)[i].key = Published(p, k, index)[j].key => i = j
           /\ \A e \in ToSet(Published(p, k, index)) :
                \/ e = [key |-> k, index |-> index]
                \/ e \in Entries(p) /\ e.key # k
<1> DEFINE s == Others(p, k)
           new == [key |-> k, index |-> index]
           all == Append(s, new)
           excess == IF Len(all) > MaxEntries THEN Len(all) - MaxEntries ELSE 0
           r == SubSeq(all, excess + 1, Len(all))
<1>1. /\ s \in Seq(Entry)
      /\ Len(s) <= MaxEntries
      /\ \A i, j \in DOMAIN s : s[i].key = s[j].key => i = j
      /\ \A i \in DOMAIN s : s[i].key # k /\ s[i] \in Entries(p)
  BY OthersAre
<1>2. new \in Entry
  BY DEF Entry
<1>3. Published(p, k, index) = r
  BY DEF Published
<1> HIDE DEF s, new
<1>4. Len(s) \in Nat /\ DOMAIN s = 1 .. Len(s) /\ MaxEntries \in Nat \ {0}
  BY <1>1, LenProperties, SizesAssumption
<1>5. /\ all \in Seq(Entry)
      /\ Len(all) = Len(s) + 1
      /\ \A i \in 1 .. Len(s) : all[i] = s[i]
      /\ all[Len(s) + 1] = new
  BY <1>1, <1>2, <1>4, AppendProperties
<1> HIDE DEF all
<1>6. excess \in {0, 1} /\ Len(all) - excess <= MaxEntries /\ excess <= Len(s)
  BY <1>1, <1>4, <1>5
<1> HIDE DEF excess
<1>7. /\ r \in Seq(Entry)
      /\ Len(r) = Len(all) - excess
      /\ \A i \in 1 .. (Len(all) - excess) : r[i] = all[excess + i]
  <2>1. \A i \in 1 .. Len(all) : all[i] \in Entry
    BY <1>5, LenProperties
  <2>2. /\ r \in Seq(Entry)
        /\ Len(r) = IF excess + 1 <= Len(all) THEN Len(all) - (excess + 1) + 1 ELSE 0
        /\ \A i \in 1 .. (Len(all) - (excess + 1) + 1) : r[i] = all[excess + 1 + i - 1]
    BY <1>4, <1>5, <1>6, <2>1, SubSeqProperties
  <2>3. QED
    BY <1>4, <1>5, <1>6, <2>2
<1> HIDE DEF r
<1>8. DOMAIN r = 1 .. (Len(all) - excess)
  BY <1>7, LenProperties
<1>9. \A i \in DOMAIN r :
        \/ excess + i = Len(s) + 1 /\ r[i] = new
        \/ excess + i \in DOMAIN s /\ r[i] = s[excess + i]
  <2> TAKE i \in DOMAIN r
  <2>1. i \in 1 .. (Len(all) - excess) /\ r[i] = all[excess + i]
    BY <1>7, <1>8
  <2>2. excess + i \in 1 .. (Len(s) + 1)
    BY <1>4, <1>5, <1>6, <2>1
  <2>3. QED
    BY <1>4, <1>5, <2>1, <2>2
<1>10. new.key = k
  BY DEF new
<1>11. \A i, j \in DOMAIN r : r[i].key = r[j].key => i = j
  BY <1>1, <1>4, <1>6, <1>8, <1>9, <1>10
<1>12. \A e \in ToSet(r) : e = new \/ (e \in Entries(p) /\ e.key # k)
  BY <1>1, <1>9 DEF ToSet
<1>13. QED
  BY <1>3, <1>6, <1>7, <1>11, <1>12 DEF new

----
\* What the initial state makes of the variables.
LEMMA InitTypes == Init => TypeOK
<1> SUFFICES ASSUME Init PROVE TypeOK
  OBVIOUS
<1>1. PICK first \in [Files -> {0, 1}] : history = <<first>>
  BY DEF Init
<1>2. /\ first \in [Files -> Versions]
      /\ Len(history) = 1
      /\ history \in Seq([Files -> Versions]) /\ history # <<>>
  BY <1>1, SizesAssumption DEF Versions
<1>3. \A p \in Processes :
        /\ Len(memory[p]) <= MaxEntries
        /\ \A i, j \in DOMAIN memory[p] : memory[p][i].key = memory[p][j].key => i = j
  BY SizesAssumption DEF Init
<1>4. QED
  BY <1>2, <1>3, SizesAssumption DEF Init, TypeOK, Places

\* Leaving get or starting an attempt keeps the types.
LEMMA LeaveTypes ==
    ASSUME TypeOK, NEW t \in Threads, NEW result \in Indexes \cup {None},
           Leave(t, result), UNCHANGED fileVars,
           UNCHANGED memory \/ \E k \in Keys, index \in Indexes :
              memory' = [memory EXCEPT ![ProcessOf[t]] = Published(ProcessOf[t], k, index)]
    PROVE  TypeOK'
<1>1. /\ memory' \in [Processes -> Seq([key : Keys, index : Indexes])]
      /\ \A p \in Processes :
          /\ Len(memory'[p]) <= MaxEntries
          /\ \A i, j \in DOMAIN memory'[p] :
               memory'[p][i].key = memory'[p][j].key => i = j
  <2>1. CASE UNCHANGED memory
    BY <2>1 DEF TypeOK
  <2>2. CASE \E k \in Keys, index \in Indexes :
               memory' = [memory EXCEPT ![ProcessOf[t]] = Published(ProcessOf[t], k, index)]
    <3>1. PICK k \in Keys, index \in Indexes :
               memory' = [memory EXCEPT ![ProcessOf[t]] = Published(ProcessOf[t], k, index)]
      BY <2>2
    <3>2. ProcessOf[t] \in Processes
      BY ThreadsAssumption
    <3>3. /\ Published(ProcessOf[t], k, index) \in Seq(Entry)
          /\ Len(Published(ProcessOf[t], k, index)) <= MaxEntries
          /\ \A i, j \in DOMAIN Published(ProcessOf[t], k, index) :
               Published(ProcessOf[t], k, index)[i].key
                 = Published(ProcessOf[t], k, index)[j].key => i = j
      BY <3>2, PublishedEntries
    <3>4. QED
      BY <3>1, <3>2, <3>3 DEF TypeOK, Entry
  <2>3. QED
    BY <2>1, <2>2
<1>2. /\ history' = history /\ disk' = disk
      /\ at' = [at EXCEPT ![t] = "idle"]
      /\ key' = [key EXCEPT ![t] = None]
      /\ tries' = [tries EXCEPT ![t] = 0]
      /\ since' = [since EXCEPT ![t] = 1]
      /\ answer' = [answer EXCEPT ![t] = result]
      /\ callsMade' = callsMade
      /\ manifest' = [manifest EXCEPT ![t] = <<>>]
      /\ baseline' = [baseline EXCEPT ![t] = None]
      /\ content' = [content EXCEPT ![t] = <<>>]
      /\ again' = [again EXCEPT ![t] = <<>>]
  BY DEF Leave, Fresh, Clear, fileVars
<1>3. Len(history) \in Nat /\ 1 <= Len(history)
  BY EmptySeq, LenProperties DEF TypeOK
<1>4. /\ history' \in Seq([Files -> Versions]) /\ history' # <<>>
      /\ disk' \in [Keys -> Indexes \cup {None}]
      /\ at' \in [Threads -> Places]
      /\ key' \in [Threads -> Keys \cup {None}]
      /\ \A u \in Threads : at'[u] # "idle" => key'[u] \in Keys
      /\ tries' \in [Threads -> 0..2]
  BY <1>2 DEF TypeOK, Places
<1>5. /\ manifest' \in [Threads -> Seq(Versions)]
      /\ baseline' \in [Threads -> Indexes \cup {None}]
      /\ content' \in [Threads -> Seq(Versions)]
      /\ again' \in [Threads -> Seq(Versions)]
      /\ since' \in [Threads -> 1..Len(history')]
      /\ answer' \in [Threads -> Indexes \cup {None}]
      /\ callsMade' \in [Threads -> 0..MaxCalls]
  BY <1>2, <1>3 DEF TypeOK
<1>6. \A u \in Threads :
        /\ \A scan \in {manifest'[u], content'[u], again'[u]} : Len(scan) <= NumFiles
        /\ at'[u] \notin {"idle", "scan"} => Len(manifest'[u]) = NumFiles
        /\ at'[u] \in {"verify", "write", "publish"} => Len(content'[u]) = NumFiles
  BY <1>2, SizesAssumption DEF TypeOK
<1>7. QED
  BY <1>1, <1>4, <1>5, <1>6 DEF TypeOK

\* The third attempt fails; the ones before start anew.
LEMMA RetryTypes ==
    ASSUME TypeOK, NEW t \in Threads, at[t] # "idle", Retry(t), UNCHANGED <<fileVars, memory>>
    PROVE  TypeOK'
<1>1. CASE Raise(t)
  BY <1>1, LeaveTypes DEF Raise
<1>2. CASE ~Raise(t)
  <2>1. /\ history' = history /\ memory' = memory /\ disk' = disk
        /\ at' = [at EXCEPT ![t] = "scan"]
        /\ tries[t] # 2 /\ tries' = [tries EXCEPT ![t] = @ + 1]
        /\ manifest' = [manifest EXCEPT ![t] = <<>>]
        /\ baseline' = [baseline EXCEPT ![t] = None]
        /\ content' = [content EXCEPT ![t] = <<>>]
        /\ again' = [again EXCEPT ![t] = <<>>]
        /\ UNCHANGED <<key, since, callsMade, answer>>
    BY <1>2 DEF Retry, Fresh, Clear, fileVars, callVars
  <2>0. tries' \in [Threads -> 0..2]
    <3>1. \A u \in Threads : tries[u] \in 0..2
      BY DEF TypeOK
    <3>2. tries[t] + 1 \in 0..2
      BY <2>1, <3>1
    <3>3. QED
      BY <2>1, <3>2 DEF TypeOK
  <2>2. /\ at' \in [Threads -> Places]
        /\ \A u \in Threads : at'[u] # "idle" => key'[u] \in Keys
        /\ manifest' \in [Threads -> Seq(Versions)]
        /\ baseline' \in [Threads -> Indexes \cup {None}]
        /\ content' \in [Threads -> Seq(Versions)]
        /\ again' \in [Threads -> Seq(Versions)]
    BY <2>1 DEF TypeOK, Places
  <2>3. \A u \in Threads :
          /\ \A scan \in {manifest'[u], content'[u], again'[u]} : Len(scan) <= NumFiles
          /\ at'[u] \notin {"idle", "scan"} => Len(manifest'[u]) = NumFiles
          /\ at'[u] \in {"verify", "write", "publish"} => Len(content'[u]) = NumFiles
    BY <2>1, SizesAssumption DEF TypeOK
  <2>4. QED
    BY <2>0, <2>1, <2>2, <2>3 DEF TypeOK
<1>3. QED
  BY <1>1, <1>2

\* What the memory, the disk and the baselines hold are indexes.
LEMMA IndexTypes ==
    ASSUME TypeOK, NEW t \in Threads, at[t] # "idle"
    PROVE  /\ ProcessOf[t] \in Processes /\ key[t] \in Keys
           /\ \A e \in Entries(ProcessOf[t]) : e \in Entry
           /\ Cached(ProcessOf[t], key[t]) => EntryOf(ProcessOf[t], key[t]) \in Indexes
           /\ disk[key[t]] # None => disk[key[t]] \in Indexes
           /\ Baselines(t) \subseteq Indexes \cup {None}
<1>1. ProcessOf[t] \in Processes /\ key[t] \in Keys
  BY ThreadsAssumption DEF TypeOK
<1>2. \A e \in Entries(ProcessOf[t]) : e \in Entry
  <2>1. memory[ProcessOf[t]] \in Seq(Entry)
    BY <1>1 DEF TypeOK, Entry
  <2>2. QED
    BY <2>1, LenProperties DEF Entries, ToSet
<1>3. Cached(ProcessOf[t], key[t]) => EntryOf(ProcessOf[t], key[t]) \in Indexes
  BY <1>2 DEF Cached, EntryOf, Entry
<1>4. disk[key[t]] # None => disk[key[t]] \in Indexes
  BY <1>1 DEF TypeOK
<1>5. QED
  BY <1>1, <1>2, <1>3, <1>4 DEF Baselines, Readable

\* A text that the build has for a file is a version.
LEMMA TextTypes ==
    ASSUME TypeOK, NEW t \in Threads, NEW f \in Files
    PROVE  /\ tree[f] \in Versions
           /\ Texts(t, f) \subseteq Versions
<1>1. tree \in [Files -> Versions]
  BY EmptySeq, LenProperties DEF TypeOK, tree, Last
<1>2. baseline[t] # None => baseline[t].content \in [Files -> Versions]
  BY DEF TypeOK, Indexes
<1>3. 0 \in Versions
  BY SizesAssumption DEF Versions
<1>4. QED
  BY <1>1, <1>2, <1>3 DEF Texts

\* A whole scan is a function on the files.
LEMMA CandidateTypes ==
    ASSUME TypeOK, NEW t \in Threads, at[t] \in {"verify", "write", "publish"}
    PROVE  Candidate(t) \in Indexes
<1>1. /\ manifest[t] \in Seq(Versions) /\ content[t] \in Seq(Versions)
      /\ Len(manifest[t]) = NumFiles /\ Len(content[t]) = NumFiles
  BY DEF TypeOK
<1>2. manifest[t] \in [Files -> Versions] /\ content[t] \in [Files -> Versions]
  BY <1>1, LenProperties DEF Files
<1>3. QED
  BY <1>2 DEF Candidate, Indexes

LEMMA TypesKept == TypeOK /\ [Next]_vars => TypeOK'
<1> SUFFICES ASSUME TypeOK, [Next]_vars PROVE TypeOK'
  OBVIOUS
<1>0. /\ Len(history) \in Nat /\ 1 <= Len(history)
      /\ NumFiles \in Nat
  BY EmptySeq, LenProperties, SizesAssumption DEF TypeOK
<1>1. CASE EditTree
  <2>1. PICK f \in Files, v \in Versions : history' = Append(history, [tree EXCEPT ![f] = v])
    BY <1>1 DEF EditTree
  <2>2. tree \in [Files -> Versions]
    BY EmptySeq, LenProperties DEF TypeOK, tree, Last
  <2>3. [tree EXCEPT ![f] = v] \in [Files -> Versions]
    BY <2>2
  <2>4. /\ history' \in Seq([Files -> Versions]) /\ history' # <<>>
        /\ Len(history') = Len(history) + 1
    <3>1. history \in Seq([Files -> Versions])
      BY DEF TypeOK
    <3>2. QED
      BY <2>1, <2>3, <3>1, AppendProperties
  <2>5. since' = since /\ since \in [Threads -> 1..Len(history')]
    BY <1>0, <1>1, <2>4 DEF EditTree, callVars, TypeOK
  <2>6. QED
    BY <1>1, <2>4, <2>5 DEF EditTree, TypeOK, scanVars, callVars
<1>2. ASSUME NEW t \in Threads, Enter(t)
      PROVE  TypeOK'
  <2>1. PICK k \in Keys : Begins(t, k)
    BY <1>2 DEF Enter
  <2>2. /\ history' = history /\ memory' = memory /\ disk' = disk /\ tries' = tries
        /\ at' = [at EXCEPT ![t] = "scan"]
        /\ key' = [key EXCEPT ![t] = k]
        /\ since' = [since EXCEPT ![t] = Len(history)]
        /\ callsMade[t] < MaxCalls /\ callsMade' = [callsMade EXCEPT ![t] = @ + 1]
        /\ answer' = [answer EXCEPT ![t] = None]
        /\ manifest' = [manifest EXCEPT ![t] = <<>>]
        /\ baseline' = [baseline EXCEPT ![t] = None]
        /\ content' = [content EXCEPT ![t] = <<>>]
        /\ again' = [again EXCEPT ![t] = <<>>]
    BY <2>1 DEF Begins, Fresh, Clear, fileVars
  <2>3. callsMade' \in [Threads -> 0..MaxCalls]
    <3>1. callsMade \in [Threads -> 0..MaxCalls] /\ MaxCalls \in Nat
      BY SizesAssumption DEF TypeOK
    <3>2. callsMade[t] + 1 \in 0..MaxCalls
      BY <2>2, <3>1
    <3>3. QED
      BY <2>2, <3>1, <3>2
  <2>4. /\ manifest' \in [Threads -> Seq(Versions)]
        /\ baseline' \in [Threads -> Indexes \cup {None}]
        /\ content' \in [Threads -> Seq(Versions)]
        /\ again' \in [Threads -> Seq(Versions)]
        /\ since' \in [Threads -> 1..Len(history')]
        /\ answer' \in [Threads -> Indexes \cup {None}]
    BY <1>0, <2>2 DEF TypeOK
  <2>5. /\ at' \in [Threads -> Places]
        /\ key' \in [Threads -> Keys \cup {None}]
        /\ \A u \in Threads : at'[u] # "idle" => key'[u] \in Keys
    BY <2>2 DEF TypeOK, Places
  <2>6. \A u \in Threads :
          /\ \A scan \in {manifest'[u], content'[u], again'[u]} : Len(scan) <= NumFiles
          /\ at'[u] \notin {"idle", "scan"} => Len(manifest'[u]) = NumFiles
          /\ at'[u] \in {"verify", "write", "publish"} => Len(content'[u]) = NumFiles
    BY <1>0, <2>2 DEF TypeOK
  <2>7. QED
    BY <2>2, <2>3, <2>4, <2>5, <2>6 DEF TypeOK
<1>3. ASSUME NEW t \in Threads, Scan(t) \/ Verify(t) \/ ReadFile(t)
      PROVE  TypeOK'
  <2>1. ASSUME NEW s \in [Threads -> Seq(Versions)], NEW v \in Versions, Len(s[t]) < NumFiles
        PROVE  /\ Append(s[t], v) \in Seq(Versions)
               /\ Len(Append(s[t], v)) <= NumFiles
               /\ [s EXCEPT ![t] = Append(@, v)] \in [Threads -> Seq(Versions)]
    BY <1>0, <2>1, AppendProperties, LenProperties
  <2>2. ASSUME NEW s \in [Threads -> Seq(Versions)], Len(s[t]) < NumFiles
        PROVE  Len(s[t]) + 1 \in Files
    BY <1>0, <2>2, LenProperties DEF Files
  <2>3. CASE Scan(t)
    <3>1. Len(manifest[t]) + 1 \in Files
      BY <2>2, <2>3 DEF Scan, TypeOK
    <3>2. tree[Len(manifest[t]) + 1] \in Versions
      BY <3>1, TextTypes
    <3>3. QED
      BY <2>1, <2>3, <3>2 DEF Scan, TypeOK, fileVars, callVars
  <2>4. CASE Verify(t)
    <3>1. Len(again[t]) + 1 \in Files
      BY <2>2, <2>4 DEF Verify, TypeOK
    <3>2. tree[Len(again[t]) + 1] \in Versions
      BY <3>1, TextTypes
    <3>3. QED
      BY <2>1, <2>4, <3>2 DEF Verify, TypeOK, fileVars, callVars
  <2>5. CASE ReadFile(t)
    <3>1. Len(content[t]) + 1 \in Files
      BY <2>2, <2>5 DEF ReadFile, TypeOK
    <3>2. PICK text \in Texts(t, Len(content[t]) + 1) :
             content' = [content EXCEPT ![t] = Append(@, text)]
      BY <2>5 DEF ReadFile
    <3>3. text \in Versions
      BY <3>1, <3>2, TextTypes
    <3>4. QED
      BY <2>1, <2>5, <3>2, <3>3 DEF ReadFile, TypeOK, fileVars, callVars
  <2>6. QED
    BY <1>3, <2>3, <2>4, <2>5
<1>4. ASSUME NEW t \in Threads, ScanRaises(t) \/ BuildRaises(t)
      PROVE  TypeOK'
  BY <1>4, LeaveTypes DEF ScanRaises, BuildRaises, Raise, fileVars
<1>5. ASSUME NEW t \in Threads, MemoryHit(t) \/ DiskHit(t) \/ PublishBuild(t)
      PROVE  TypeOK'
  <2>0. at[t] # "idle" /\ key[t] \in Keys
    BY <1>5 DEF MemoryHit, DiskHit, PublishBuild, Scanned, TypeOK
  <2>1. PICK index \in Indexes : Publish(t, index) /\ Leave(t, index) /\ UNCHANGED fileVars
    BY <1>5, <2>0, IndexTypes, CandidateTypes DEF MemoryHit, DiskHit, PublishBuild, Readable
  <2>2. memory' = [memory EXCEPT ![ProcessOf[t]] = Published(ProcessOf[t], key[t], index)]
    BY <2>1 DEF Publish
  <2>3. QED
    BY <2>0, <2>1, <2>2, LeaveTypes
<1>6. ASSUME NEW t \in Threads, BuildRetries(t) \/ Refuted(t)
      PROVE  TypeOK'
  BY <1>6, RetryTypes DEF BuildRetries, Refuted
<1>7. ASSUME NEW t \in Threads, BeginBuild(t)
      PROVE  TypeOK'
  <2>1. PICK start \in Baselines(t) : baseline' = [baseline EXCEPT ![t] = start]
    BY <1>7 DEF BeginBuild
  <2>2. start \in Indexes \cup {None}
    BY <1>7, IndexTypes DEF BeginBuild, Scanned
  <2>3. QED
    BY <1>7, <2>1, <2>2 DEF BeginBuild, Scanned, TypeOK, Places, fileVars, callVars
<1>8. ASSUME NEW t \in Threads, Built(t) \/ Verified(t)
      PROVE  TypeOK'
  BY <1>8 DEF Built, Verified, TypeOK, Places, fileVars, scanVars, callVars
<1>9. ASSUME NEW t \in Threads, WriteDisk(t)
      PROVE  TypeOK'
  <2>1. Candidate(t) \in Indexes
    BY <1>9, CandidateTypes DEF WriteDisk
  <2>2. disk' \in [Keys -> Indexes \cup {None}]
    BY <1>9, <2>1 DEF WriteDisk, TypeOK
  <2>3. QED
    BY <1>9, <2>2 DEF WriteDisk, TypeOK, Places, scanVars, callVars
<1>10. CASE UNCHANGED vars
  BY <1>10 DEF vars, fileVars, scanVars, callVars, TypeOK
<1>11. QED
  BY <1>1, <1>2, <1>3, <1>4, <1>5, <1>6, <1>7, <1>8, <1>9, <1>10 DEF Next, Get

\* The types hold, whatever can be read.
THEOREM TypeCorrect == Spec => []TypeOK
<1>1. QED
  BY InitTypes, TypesKept, PTL DEF Spec

----
\* What one step of the system is for one thread.

\* It is none of the thread's, or has no effect on where it is.
Stays(t) ==
    /\ at'[t] = at[t] /\ key'[t] = key[t] /\ since'[t] = since[t]
    /\ manifest'[t] = manifest[t] /\ baseline'[t] = baseline[t]
    /\ content'[t] = content[t] /\ again'[t] = again[t]

\* Nothing is scanned or read.
Blank(t) ==
    /\ manifest'[t] = <<>> /\ baseline'[t] = None
    /\ content'[t] = <<>> /\ again'[t] = <<>>

\* Its call is over.
Gone(t) == at'[t] = "idle" /\ key'[t] = None /\ Blank(t)

\* Its next attempt begins.
Renewed(t) ==
    /\ at[t] # "idle" /\ at'[t] = "scan" /\ Blank(t)
    /\ key'[t] = key[t] /\ since'[t] = since[t]
    /\ UNCHANGED <<history, memory, disk>>

\* It works alone: on what it has, or on the cache file.
Works(t) ==
    /\ \/ Scan(t) \/ BeginBuild(t) \/ ReadFile(t) \/ Built(t)
       \/ Verify(t) \/ Verified(t) \/ WriteDisk(t)
    /\ UNCHANGED <<history, memory, key, since>>

LEMMA StepCases ==
    ASSUME TypeOK, [Next]_vars, NEW t \in Threads
    PROVE  Stays(t) \/ Gone(t) \/ Renewed(t) \/ Enter(t) \/ Works(t)
<1>1. CASE EditTree
  BY <1>1 DEF EditTree, Stays, scanVars, callVars
<1>2. ASSUME NEW u \in Threads, Enter(u)
      PROVE  Stays(t) \/ Enter(t)
  <2>1. CASE u = t
    BY <1>2, <2>1
  <2>2. CASE u # t
    <3>1. PICK k \in Keys : Begins(u, k)
      BY <1>2 DEF Enter
    <3>2. QED
      BY <2>2, <3>1 DEF Begins, Fresh, Clear, Stays, TypeOK
  <2>3. QED
    BY <2>1, <2>2
<1>3. ASSUME NEW u \in Threads,
             \/ Scan(u) \/ BeginBuild(u) \/ ReadFile(u) \/ Built(u)
             \/ Verify(u) \/ Verified(u) \/ WriteDisk(u)
      PROVE  Stays(t) \/ Works(t)
  <2>1. UNCHANGED <<history, memory, key, since>>
    BY <1>3 DEF Scan, BeginBuild, ReadFile, Built, Verify, Verified, WriteDisk,
                fileVars, callVars
  <2>2. CASE u = t
    BY <1>3, <2>1, <2>2 DEF Works
  <2>3. CASE u # t
    BY <1>3, <2>1, <2>3 DEF Scan, BeginBuild, ReadFile, Built, Verify, Verified, WriteDisk,
                            scanVars, Stays, TypeOK
  <2>4. QED
    BY <2>2, <2>3
<1>4. ASSUME NEW u \in Threads, NEW result, Leave(u, result)
      PROVE  Stays(t) \/ Gone(t)
  BY <1>4 DEF Leave, Fresh, Clear, Stays, Gone, Blank, TypeOK
<1>5. ASSUME NEW u \in Threads, at[u] # "idle", Retry(u), UNCHANGED <<fileVars, memory>>
      PROVE  Stays(t) \/ Gone(t) \/ Renewed(t)
  <2>1. CASE Raise(u)
    BY <1>4, <2>1 DEF Raise
  <2>2. CASE ~Raise(u)
    BY <1>5, <2>2 DEF Retry, Fresh, Clear, Stays, Renewed, Blank, TypeOK, fileVars, callVars
  <2>3. QED
    BY <2>1, <2>2
<1>6. ASSUME NEW u \in Threads,
             \/ ScanRaises(u) \/ BuildRaises(u) \/ MemoryHit(u) \/ DiskHit(u) \/ PublishBuild(u)
      PROVE  Stays(t) \/ Gone(t)
  BY <1>4, <1>6 DEF ScanRaises, BuildRaises, MemoryHit, DiskHit, PublishBuild, Raise
<1>7. ASSUME NEW u \in Threads, BuildRetries(u) \/ Refuted(u)
      PROVE  Stays(t) \/ Gone(t) \/ Renewed(t)
  BY <1>5, <1>7 DEF BuildRetries, Refuted
<1>8. CASE UNCHANGED vars
  BY <1>8 DEF vars, scanVars, callVars, Stays
<1>9. QED
  BY <1>1, <1>2, <1>3, <1>6, <1>7, <1>8 DEF Next, Get

\* History is only ever continued.
LEMMA HistoryGrows ==
    ASSUME TypeOK, [Next]_vars
    PROVE  /\ Len(history) \in Nat /\ Len(history') \in Nat
           /\ 1 <= Len(history) /\ Len(history) <= Len(history')
           /\ DOMAIN history = 1..Len(history)
           /\ DOMAIN history' = 1..Len(history')
           /\ \A i \in 1..Len(history) : history'[i] = history[i]
           /\ tree = history[Len(history)]
<1>1. /\ Len(history) \in Nat /\ 1 <= Len(history) /\ DOMAIN history = 1..Len(history)
      /\ tree = history[Len(history)]
  BY EmptySeq, LenProperties DEF TypeOK, tree, Last
<1>2. CASE EditTree
  <2>1. PICK f \in Files, v \in Versions : history' = Append(history, [tree EXCEPT ![f] = v])
    BY <1>2 DEF EditTree
  <2>2. [tree EXCEPT ![f] = v] \in [Files -> Versions]
    BY <1>1, LenProperties DEF TypeOK
  <2>3. history \in Seq([Files -> Versions])
    BY DEF TypeOK
  <2>4. /\ history' \in Seq([Files -> Versions])
        /\ Len(history') = Len(history) + 1
        /\ \A i \in 1..Len(history) : history'[i] = history[i]
    BY <2>1, <2>2, <2>3, AppendProperties
  <2>5. QED
    BY <1>1, <2>4, LenProperties
<1>3. CASE history' = history
  BY <1>1, <1>3
<1>4. [Next]_vars => EditTree \/ history' = history
  BY DEF Next, Get, Enter, Begins, Scan, ScanRaises, MemoryHit, DiskHit, BeginBuild, ReadFile,
         Built, BuildRaises, BuildRetries, Verify, Verified, Refuted, WriteDisk, PublishBuild,
         vars, fileVars
<1>5. QED
  BY <1>2, <1>3, <1>4

\* The memory of a process changes by a publication only.
LEMMA MemorySteps ==
    ASSUME TypeOK, [Next]_vars, NEW p \in Processes, memory'[p] # memory[p]
    PROVE  \E t \in Threads, index \in Indexes :
             /\ ProcessOf[t] = p /\ at[t] # "idle" /\ key[t] \in Keys
             /\ memory'[p] = Published(p, key[t], index)
             /\ history' = history /\ Gone(t)
             /\ \/ Cached(p, key[t]) /\ index = EntryOf(p, key[t])
                \/ ~Cached(p, key[t]) /\ disk[key[t]] # None /\ index = disk[key[t]]
                \/ at[t] = "publish" /\ index = Candidate(t)
<1>1. memory' # memory
  OBVIOUS
<1>2. PICK t \in Threads : MemoryHit(t) \/ DiskHit(t) \/ PublishBuild(t)
  <2>1. ASSUME NEW u \in Threads, Retry(u), UNCHANGED <<fileVars, memory>>
        PROVE  FALSE
    BY <1>1, <2>1
  <2>2. QED
    BY <1>1, <2>1 DEF Next, Get, EditTree, Enter, Begins, Scan, ScanRaises, BeginBuild, ReadFile,
         Built, BuildRaises, BuildRetries, Verify, Verified, Refuted, WriteDisk, vars
<1>3. at[t] # "idle" /\ key[t] \in Keys
  BY <1>2 DEF MemoryHit, DiskHit, PublishBuild, Scanned, TypeOK
<1>4. PICK index \in Indexes :
         /\ Publish(t, index) /\ Leave(t, index) /\ history' = history
         /\ \/ Cached(ProcessOf[t], key[t]) /\ index = EntryOf(ProcessOf[t], key[t])
            \/ ~Cached(ProcessOf[t], key[t]) /\ disk[key[t]] # None /\ index = disk[key[t]]
            \/ at[t] = "publish" /\ index = Candidate(t)
  <2>1. CASE MemoryHit(t)
    BY <1>3, <2>1, IndexTypes DEF MemoryHit, fileVars
  <2>2. CASE DiskHit(t)
    BY <1>3, <2>2, IndexTypes DEF DiskHit, Readable, fileVars
  <2>3. CASE PublishBuild(t)
    BY <2>3, CandidateTypes DEF PublishBuild, fileVars
  <2>4. QED
    BY <1>2, <2>1, <2>2, <2>3
<1>5. memory' = [memory EXCEPT ![ProcessOf[t]] = Published(ProcessOf[t], key[t], index)]
  BY <1>4 DEF Publish
<1>6. ProcessOf[t] = p /\ memory'[p] = Published(p, key[t], index)
  BY <1>5 DEF TypeOK
<1>7. Gone(t)
  BY <1>4 DEF Leave, Fresh, Clear, Gone, Blank, TypeOK
<1>8. QED
  BY <1>3, <1>4, <1>6, <1>7

----
\* The thread that holds the lock of a key is the only one of its process.
LEMMA LocksKept ==
    ASSUME TypeOK, KeysAreLocked, [Next]_vars
    PROVE  KeysAreLocked'
<1>1. None \notin Keys
  BY ThreadsAssumption
<1>2. ASSUME NEW t \in Threads
      PROVE  at'[t] = "idle" => key'[t] = None
  <2>1. Enter(t) => at'[t] # "idle"
    BY DEF Enter, Begins, Fresh, Clear, TypeOK
  <2>2. Works(t) => at'[t] # "idle"
    BY DEF Works, Scan, BeginBuild, ReadFile, Built, Verify, Verified, WriteDisk, TypeOK,
           Scanned, fileVars, scanVars, callVars
  <2>3. QED
    BY <2>1, <2>2, StepCases DEF KeysAreLocked, Stays, Gone, Renewed
<1>3. ASSUME NEW t \in Threads, Enter(t)
      PROVE  \A u, v \in Threads :
               key'[u] \in Keys /\ key'[v] = key'[u] /\ ProcessOf[v] = ProcessOf[u] => u = v
  <2>1. PICK k \in Keys :
           /\ \A u \in Threads : ProcessOf[u] = ProcessOf[t] => key[u] # k
           /\ key' = [key EXCEPT ![t] = k]
    BY <1>3 DEF Enter, Begins
  <2>2. QED
    BY <2>1 DEF KeysAreLocked, TypeOK
<1>4. ASSUME NEW u \in Threads, NEW v \in Threads, \A t \in Threads : ~Enter(t),
             key'[u] \in Keys, key'[v] = key'[u], ProcessOf[v] = ProcessOf[u]
      PROVE  u = v
  <2>1. \A t \in Threads : key'[t] = key[t] \/ key'[t] = None
    BY <1>4, StepCases DEF Stays, Gone, Renewed, Works
  <2>2. QED
    BY <1>1, <1>4, <2>1 DEF KeysAreLocked
<1>5. QED
  BY <1>2, <1>3, <1>4 DEF KeysAreLocked

\* An edit gives a file a version that it never had.
LEMMA VersionsKept ==
    ASSUME TypeOK, VersionsAreNew, [Next]_vars
    PROVE  VersionsAreNew'
<1> DEFINE N == Len(history)
<1>1. /\ N \in Nat /\ Len(history') \in Nat /\ 1 <= N /\ N <= Len(history')
      /\ DOMAIN history = 1..N /\ DOMAIN history' = 1..Len(history')
      /\ \A i \in 1..N : history'[i] = history[i]
      /\ tree = history[N]
  BY HistoryGrows
<1>2. CASE EditTree
  <2>1. PICK g \in Files, v \in Versions :
           v \in {0, N + 1} /\ history' = Append(history, [tree EXCEPT ![g] = v])
    BY <1>2 DEF EditTree
  <2>2. /\ [tree EXCEPT ![g] = v] \in [Files -> Versions]
        /\ tree \in [Files -> Versions]
    BY <1>1, LenProperties DEF TypeOK
  <2>3. history \in Seq([Files -> Versions])
    BY DEF TypeOK
  <2>4. Len(history') = N + 1 /\ history'[N + 1] = [tree EXCEPT ![g] = v]
    BY <2>1, <2>2, <2>3, AppendProperties
  <2>5. ASSUME NEW f \in Files
        PROVE  /\ history'[N + 1][f] = history[N][f] \/ history'[N + 1][f] \in {0, N + 1}
               /\ \A i \in 1..N : history[i][f] \in Nat /\ history[i][f] <= N
    <3>1. \A i \in 1..N : history[i][f] \in Versions
      BY <1>1, <2>3, LenProperties
    <3>2. \A i \in 1..N : history[i][f] \in Nat
      BY <3>1, SizesAssumption DEF Versions
    <3>3. QED
      BY <1>1, <2>1, <2>2, <2>4, <3>2 DEF VersionsAreNew
  <2> HIDE DEF N
  <2>6. ASSUME NEW f \in Files, NEW i \in 1..(N + 1)
        PROVE  history'[i][f] <= N + 1
    BY <1>1, <2>5, <2>6
  <2>7. ASSUME NEW f \in Files, NEW i \in 1..(N + 1), NEW j \in 1..(N + 1), NEW k \in 1..(N + 1),
               i <= j, j <= k, history'[i][f] = history'[k][f], history'[i][f] # 0
        PROVE  history'[j][f] = history'[i][f]
    <3>1. CASE k <= N
      BY <1>1, <2>7, <3>1 DEF VersionsAreNew
    <3>2. CASE k = N + 1 /\ j <= N
      <4>1. i \in 1..N /\ j \in 1..N /\ N \in 1..N
        BY <1>1, <2>7, <3>2
      <4>2. history[N][f] = history[i][f]
        BY <1>1, <2>5, <2>7, <3>2, <4>1
      <4>3. history[j][f] = history[i][f]
        BY <1>1, <2>7, <4>1, <4>2 DEF VersionsAreNew
      <4>4. QED
        BY <1>1, <4>1, <4>3
    <3>3. CASE k = N + 1 /\ j = N + 1
      BY <2>7, <3>3
    <3>4. QED
      BY <1>1, <2>7, <3>1, <3>2, <3>3
  <2>8. QED
    BY <1>1, <2>4, <2>6, <2>7 DEF VersionsAreNew
<1>3. CASE history' = history
  BY <1>3 DEF VersionsAreNew
<1>4. QED
  BY <1>2, <1>3 DEF Next, Get, Enter, Begins, Scan, ScanRaises, MemoryHit, DiskHit, BeginBuild,
         ReadFile, Built, BuildRaises, BuildRetries, Verify, Verified, Refuted, WriteDisk,
         PublishBuild, vars, fileVars

\* What the first scan reads it sees now, and it stays seen.
LEMMA ScansKept ==
    ASSUME TypeOK, ScansAreSeen, [Next]_vars
    PROVE  ScansAreSeen'
<1> SUFFICES ASSUME NEW t \in Threads, at'[t] = "scan"
             PROVE  /\ content'[t] = <<>> /\ again'[t] = <<>>
                    /\ \A f \in 1..Len(manifest'[t]) :
                         \E i \in since'[t]..Len(history') : history'[i][f] = manifest'[t][f]
  BY DEF ScansAreSeen, Seen
<1>1. /\ Len(history) \in Nat /\ Len(history') \in Nat /\ 1 <= Len(history)
      /\ Len(history) <= Len(history')
      /\ \A i \in 1..Len(history) : history'[i] = history[i]
      /\ tree = history[Len(history)]
  BY HistoryGrows
<1>2. since[t] \in 1..Len(history) /\ manifest[t] \in Seq(Versions)
  BY DEF TypeOK
<1>3. CASE Stays(t)
  <2>1. /\ at[t] = "scan" /\ since'[t] = since[t] /\ manifest'[t] = manifest[t]
        /\ content'[t] = content[t] /\ again'[t] = again[t]
    BY <1>3 DEF Stays
  <2>2. ASSUME NEW f \in 1..Len(manifest[t])
        PROVE  \E i \in since[t]..Len(history') : history'[i][f] = manifest[t][f]
    <3>1. PICK i \in since[t]..Len(history) : history[i][f] = manifest[t][f]
      BY <2>1 DEF ScansAreSeen, Seen
    <3>2. i \in 1..Len(history) /\ i \in since[t]..Len(history')
      BY <1>1, <1>2
    <3>3. QED
      BY <1>1, <3>1, <3>2
  <2>3. QED
    BY <2>1, <2>2 DEF ScansAreSeen
<1>4. CASE Renewed(t) \/ Enter(t)
  <2>1. manifest'[t] = <<>> /\ content'[t] = <<>> /\ again'[t] = <<>>
    BY <1>4 DEF Renewed, Blank, Enter, Begins, Fresh, Clear, TypeOK
  <2>2. QED
    BY <2>1
<1>5. CASE Scan(t) /\ UNCHANGED <<history, since>>
  <2>1. /\ at[t] = "scan" /\ content' = content /\ again' = again
        /\ manifest'[t] = Append(manifest[t], tree[Len(manifest[t]) + 1])
        /\ Len(manifest[t]) < NumFiles
    BY <1>5 DEF Scan, TypeOK
  <2>2. tree[Len(manifest[t]) + 1] \in Versions
    BY <1>2, <2>1, TextTypes, LenProperties, SizesAssumption DEF Files
  <2>3. /\ Len(manifest'[t]) = Len(manifest[t]) + 1
        /\ \A f \in 1..Len(manifest[t]) : manifest'[t][f] = manifest[t][f]
        /\ manifest'[t][Len(manifest[t]) + 1] = tree[Len(manifest[t]) + 1]
        /\ Len(manifest[t]) \in Nat
    BY <1>2, <2>1, <2>2, AppendProperties, LenProperties
  <2>4. QED
    BY <1>1, <1>2, <1>5, <2>1, <2>3 DEF ScansAreSeen, Seen
<1>6. QED
  <2>1. Works(t) => Scan(t) /\ UNCHANGED <<history, since>>
    BY DEF Works, BeginBuild, ReadFile, Built, Verify, Verified, WriteDisk, TypeOK
  <2>2. QED
    BY <1>3, <1>4, <1>5, <2>1, StepCases DEF Gone

\* The moment between the scans is the one at which the build begins.
LEMMA MeetingKept ==
    ASSUME TypeOK, ScansAreSeen, ScansMeet, TextsAreRead, [Next]_vars
    PROVE  ScansMeet'
<1> DEFINE N == Len(history)
<1> SUFFICES ASSUME NEW t \in Threads, at'[t] \in {"build", "verify"}
             PROVE  \E m \in since'[t]..Len(history') :
                      /\ \A f \in Files : \E i \in since'[t]..m : history'[i][f] = manifest'[t][f]
                      /\ \A f \in 1..Len(again'[t]) :
                           \E i \in m..Len(history') : history'[i][f] = again'[t][f]
  BY DEF ScansMeet, Seen
<1>1. /\ N \in Nat /\ Len(history') \in Nat /\ 1 <= N
      /\ N <= Len(history')
      /\ \A i \in 1..N : history'[i] = history[i]
      /\ tree = history[N]
  BY HistoryGrows
<1>2. /\ since[t] \in 1..N /\ again[t] \in Seq(Versions) /\ NumFiles \in Nat
      /\ Len(manifest[t]) \in Nat
  BY LenProperties, SizesAssumption DEF TypeOK
<1>3. ASSUME NEW m \in since[t]..N, NEW f, NEW v, NEW i \in since[t]..m, history[i][f] = v
      PROVE  \E j \in since[t]..m : history'[j][f] = v
  BY <1>1, <1>2, <1>3
<1>4. ASSUME NEW m \in since[t]..N, NEW f, NEW v, NEW i \in m..N, history[i][f] = v
      PROVE  \E j \in m..Len(history') : history'[j][f] = v
  BY <1>1, <1>2, <1>4
<1> HIDE DEF N
<1>5. CASE /\ at[t] \in {"build", "verify"} /\ since'[t] = since[t]
           /\ manifest'[t] = manifest[t] /\ again'[t] = again[t]
  <2>1. PICK m \in since[t]..N :
          /\ \A f \in Files : Seen(f, manifest[t][f], since[t], m)
          /\ \A f \in 1..Len(again[t]) : Seen(f, again[t][f], m, N)
    BY <1>5 DEF ScansMeet, N
  <2>2. m \in since[t]..Len(history')
    BY <1>1, <1>2
  <2>3. \A f \in Files : \E i \in since[t]..m : history'[i][f] = manifest[t][f]
    BY <1>3, <2>1 DEF Seen
  <2>4. \A f \in 1..Len(again[t]) : \E i \in m..Len(history') : history'[i][f] = again[t][f]
    BY <1>4, <2>1 DEF Seen
  <2>5. QED
    BY <1>5, <2>2, <2>3, <2>4
<1>6. CASE BeginBuild(t) /\ UNCHANGED <<history, since>>
  <2>1. /\ at[t] = "scan" /\ Len(manifest[t]) = NumFiles
        /\ manifest' = manifest /\ again' = again
    BY <1>6 DEF BeginBuild, Scanned
  <2>2. again[t] = <<>> /\ \A f \in Files : Seen(f, manifest[t][f], since[t], N)
    BY <2>1 DEF ScansAreSeen, Files, N
  <2>3. N \in since[t]..N
    BY <1>1, <1>2
  <2>4. QED
    BY <1>6, <2>1, <2>2, <2>3 DEF Seen, N
<1>7. CASE Verify(t) /\ UNCHANGED <<history, since>>
  <2>1. /\ at[t] = "verify" /\ manifest' = manifest
        /\ again'[t] = Append(again[t], tree[Len(again[t]) + 1])
        /\ Len(again[t]) < NumFiles
    BY <1>7 DEF Verify, TypeOK
  <2>2. tree[Len(again[t]) + 1] \in Versions
    BY <1>2, <2>1, TextTypes, LenProperties DEF Files
  <2>3. /\ Len(again'[t]) = Len(again[t]) + 1
        /\ \A f \in 1..Len(again[t]) : again'[t][f] = again[t][f]
        /\ again'[t][Len(again[t]) + 1] = tree[Len(again[t]) + 1]
        /\ Len(again[t]) \in Nat
    BY <1>2, <2>1, <2>2, AppendProperties, LenProperties
  <2>4. PICK m \in since[t]..N :
          /\ \A f \in Files : Seen(f, manifest[t][f], since[t], m)
          /\ \A f \in 1..Len(again[t]) : Seen(f, again[t][f], m, N)
    BY <2>1 DEF ScansMeet, N
  <2>5. N \in m..N
    BY <1>1, <1>2
  <2>6. \A f \in 1..Len(again'[t]) : Seen(f, again'[t][f], m, N)
    BY <1>1, <2>3, <2>4, <2>5 DEF Seen
  <2>7. QED
    BY <1>7, <2>1, <2>4, <2>6 DEF Seen, N
<1>8. Works(t) =>
        \/ BeginBuild(t) /\ UNCHANGED <<history, since>>
        \/ Verify(t) /\ UNCHANGED <<history, since>>
        \/ /\ at[t] \in {"build", "verify"} /\ since'[t] = since[t]
           /\ manifest'[t] = manifest[t] /\ again'[t] = again[t]
  BY DEF Works, Scan, ReadFile, Built, Verified, WriteDisk, TypeOK, scanVars
<1>9. Enter(t) => at'[t] = "scan"
  BY DEF Enter, Begins, Fresh, Clear, TypeOK
<1>10. QED
  BY <1>5, <1>6, <1>7, <1>8, <1>9, StepCases DEF Stays, Gone, Renewed

\* A version that a file has at two moments it has at all moments between.
LEMMA SameBetween ==
    ASSUME TypeOK, VersionsAreNew, NEW f \in Files,
           NEW i \in 1..Len(history), NEW j \in 1..Len(history), NEW k \in 1..Len(history),
           i <= j, j <= k, history[i][f] = history[k][f], history[i][f] # 0
    PROVE  history[j][f] = history[i][f]
<1>1. DOMAIN history = 1..Len(history)
  BY LenProperties DEF TypeOK
<1>2. QED
  BY <1>1 DEF VersionsAreNew

\* A text is read after the first scan and before the second: if both list the
\* same version, it is that one.
LEMMA TextsKept ==
    ASSUME TypeOK, VersionsAreNew, ScansAreSeen, ScansMeet, TextsAreRead, StoredAreSound,
           ~Unreadable, [Next]_vars
    PROVE  TextsAreRead'
<1> DEFINE N == Len(history)
           Later(f, v, w) == \E i, j \in 1..N : i <= j /\ history[i][f] = v /\ history[j][f] = w
<1>1. /\ N \in Nat /\ Len(history') \in Nat /\ 1 <= N
      /\ N <= Len(history')
      /\ DOMAIN history = 1..N /\ DOMAIN history' = 1..Len(history')
      /\ \A i \in 1..N : history'[i] = history[i]
      /\ tree = history[N]
  BY HistoryGrows
<1>2. \A f, v, w : Later(f, v, w) =>
        \E i, j \in DOMAIN history' : i <= j /\ history'[i][f] = v /\ history'[j][f] = w
  BY <1>1
<1> HIDE DEF Later
<1> SUFFICES ASSUME NEW t \in Threads, at'[t] \in {"build", "verify"}
             PROVE  /\ at'[t] = "build" => again'[t] = <<>>
                    /\ \A f \in 1..Len(content'[t]) : manifest'[t][f] # 0 =>
                         content'[t][f] = manifest'[t][f]
                           \/ Later(f, manifest'[t][f], content'[t][f])
                    /\ \A f \in 1..Len(again'[t]) :
                         again'[t][f] = manifest'[t][f] /\ manifest'[t][f] # 0
                           => content'[t][f] = manifest'[t][f]
  BY <1>2 DEF TextsAreRead
<1>3. /\ since[t] \in 1..N /\ NumFiles \in Nat
      /\ manifest[t] \in Seq(Versions) /\ again[t] \in Seq(Versions)
      /\ content[t] \in Seq(Versions)
      /\ Len(content[t]) \in Nat /\ Len(again[t]) \in Nat
  BY LenProperties, SizesAssumption DEF TypeOK
<1>4. at[t] \in {"build", "verify"} =>
        /\ at[t] = "build" => again[t] = <<>>
        /\ \A f \in 1..Len(content[t]) : manifest[t][f] # 0 =>
             content[t][f] = manifest[t][f] \/ Later(f, manifest[t][f], content[t][f])
        /\ \A f \in 1..Len(again[t]) :
             again[t][f] = manifest[t][f] /\ manifest[t][f] # 0
               => content[t][f] = manifest[t][f]
  BY <1>1 DEF TextsAreRead, Later
<1>5. CASE /\ at[t] \in {"build", "verify"} /\ (at'[t] = "build" => at[t] = "build")
           /\ manifest'[t] = manifest[t] /\ content'[t] = content[t] /\ again'[t] = again[t]
  BY <1>4, <1>5
<1>6. CASE BeginBuild(t)
  <2>1. content'[t] = <<>> /\ again'[t] = <<>>
    BY <1>6 DEF BeginBuild, Scanned, ScansAreSeen
  <2>2. QED
    BY <2>1
<1>7. CASE ReadFile(t)
  <2> DEFINE f == Len(content[t]) + 1
  <2>1. PICK text \in Texts(t, f) : content'[t] = Append(content[t], text)
    BY <1>7 DEF ReadFile, TypeOK
  <2>2. /\ at[t] = "build" /\ at' = at /\ manifest' = manifest /\ again' = again
        /\ Len(content[t]) < NumFiles
    BY <1>7 DEF ReadFile
  <2>3. f \in Files
    BY <1>3, <2>2 DEF Files
  <2>4. text \in Versions
    BY <2>1, <2>3, TextTypes
  <2>5. /\ Len(content'[t]) = f
        /\ \A g \in 1..Len(content[t]) : content'[t][g] = content[t][g]
        /\ content'[t][f] = text
    BY <1>3, <2>1, <2>4, AppendProperties
  <2>6. \E i \in 1..N : history[i][f] = manifest[t][f]
    <3>1. PICK m \in since[t]..N : Seen(f, manifest[t][f], since[t], m)
      BY <2>2, <2>3 DEF ScansMeet
    <3>2. QED
      BY <1>1, <1>3, <3>1 DEF Seen
  <2> HIDE DEF f
  <2>7. text = tree[f] => Later(f, manifest[t][f], text)
    BY <1>1, <2>6 DEF Later
  <2>8. manifest[t][f] # 0 => text = manifest[t][f] \/ text = tree[f]
    <3>1. baseline[t] # None => Coherent(baseline[t])
      BY DEF StoredAreSound, Sound
    <3>2. QED
      BY <2>1, <2>3, <3>1 DEF Texts, Coherent
  <2>9. again'[t] = <<>>
    BY <1>4, <2>2
  <2>10. ASSUME NEW g \in 1..Len(content'[t]), manifest[t][g] # 0
         PROVE  content'[t][g] = manifest[t][g] \/ Later(g, manifest[t][g], content'[t][g])
    <3>1. CASE g = f
      BY <2>5, <2>7, <2>8, <2>10, <3>1
    <3>2. CASE g # f
      <4>1. g \in 1..Len(content[t])
        BY <1>3, <2>5, <3>2 DEF f
      <4>2. QED
        BY <1>4, <2>2, <2>5, <2>10, <4>1
    <3>3. QED
      BY <3>1, <3>2
  <2>11. QED
    BY <2>2, <2>9, <2>10
<1>8. CASE Verify(t)
  <2> DEFINE f == Len(again[t]) + 1
  <2>1. /\ at[t] = "verify" /\ manifest' = manifest /\ content' = content /\ at' = at
        /\ again'[t] = Append(again[t], tree[f])
        /\ Len(again[t]) < NumFiles
    BY <1>8 DEF Verify, TypeOK
  <2>2. f \in Files
    BY <1>3, <2>1 DEF Files
  <2>3. tree[f] \in Versions
    BY <2>2, TextTypes
  <2>4. /\ Len(again'[t]) = f
        /\ \A g \in 1..Len(again[t]) : again'[t][g] = again[t][g]
        /\ again'[t][f] = tree[f]
    BY <1>3, <2>1, <2>3, AppendProperties
  <2>5. f \in 1..Len(content[t])
    BY <2>1, <2>2 DEF TypeOK, Files
  <2>6. tree[f] = manifest[t][f] /\ manifest[t][f] # 0 => content[t][f] = manifest[t][f]
    <3>1. SUFFICES ASSUME tree[f] = manifest[t][f], manifest[t][f] # 0,
                          Later(f, manifest[t][f], content[t][f])
                   PROVE  content[t][f] = manifest[t][f]
      BY <1>4, <2>1, <2>5
    <3>2. PICK i, j \in 1..N :
            i <= j /\ history[i][f] = manifest[t][f] /\ history[j][f] = content[t][f]
      BY <3>1 DEF Later
    <3>3. N \in 1..N /\ j <= N /\ history[N][f] = manifest[t][f]
      BY <1>1, <3>1
    <3>4. history[j][f] = history[i][f]
      BY <2>2, <3>1, <3>2, <3>3, SameBetween
    <3>5. QED
      BY <3>2, <3>4
  <2> HIDE DEF f
  <2>7. ASSUME NEW g \in 1..Len(again'[t]),
               again'[t][g] = manifest[t][g], manifest[t][g] # 0
        PROVE  content[t][g] = manifest[t][g]
    <3>1. CASE g = f
      BY <2>4, <2>6, <2>7, <3>1
    <3>2. CASE g # f
      <4>1. g \in 1..Len(again[t])
        BY <1>3, <2>4, <3>2 DEF f
      <4>2. QED
        BY <1>4, <2>1, <2>4, <2>7, <4>1
    <3>3. QED
      BY <3>1, <3>2
  <2>8. QED
    BY <1>4, <2>1, <2>7
<1>9. Works(t) => \/ BeginBuild(t) \/ ReadFile(t) \/ Verify(t)
                  \/ /\ at[t] \in {"build", "verify"} /\ (at'[t] = "build" => at[t] = "build")
                     /\ manifest'[t] = manifest[t] /\ content'[t] = content[t]
                     /\ again'[t] = again[t]
  BY DEF Works, Scan, Built, Verified, WriteDisk, TypeOK, scanVars
<1>10. Enter(t) => at'[t] = "scan"
  BY DEF Enter, Begins, Fresh, Clear, TypeOK
<1>11. QED
  BY <1>5, <1>6, <1>7, <1>8, <1>9, <1>10, StepCases DEF Stays, Gone, Renewed

\* Two equal scans: the files they list had these versions at the moment between
\* them, and the texts are those of these versions.
LEMMA VerifiedIsCurrent ==
    ASSUME TypeOK, VersionsAreNew, ScansMeet, TextsAreRead, NEW t \in Threads, Verified(t)
    PROVE  Coherent(Candidate(t)) /\ Current(t, Candidate(t))
<1> DEFINE N == Len(history)
           seen == manifest[t]
           text == content[t]
<1>0. N \in Nat /\ since[t] \in 1..N /\ NumFiles \in Nat
  BY LenProperties, SizesAssumption DEF TypeOK
<1>1. /\ at[t] = "verify" /\ again[t] = seen
      /\ Files = 1..Len(seen) /\ Files = 1..Len(text)
  BY DEF Verified, TypeOK, Files
<1>2. PICK m \in since[t]..N : \A f \in Files : Seen(f, seen[f], since[t], m) /\ Seen(f, seen[f], m, N)
  BY <1>1 DEF ScansMeet
<1>3. \A f \in Files : seen[f] # 0 => text[f] = seen[f]
  BY <1>1 DEF TextsAreRead
<1> HIDE DEF N, seen, text
<1>4. ASSUME NEW f \in Files, seen[f] # 0
      PROVE  history[m][f] = seen[f]
  <2>1. PICK i \in since[t]..m : history[i][f] = seen[f]
    BY <1>2 DEF Seen
  <2>2. PICK k \in m..N : history[k][f] = seen[f]
    BY <1>2 DEF Seen
  <2>3. i \in 1..N /\ m \in 1..N /\ k \in 1..N /\ i <= m /\ m <= k
    BY <1>0, <1>2, <2>1, <2>2
  <2>4. QED
    BY <1>4, <2>1, <2>2, <2>3, SameBetween DEF N
<1>5. ASSUME NEW f \in Files, seen[f] = 0
      PROVE  WasMissing(t, f)
  <2>1. PICK i \in since[t]..m : history[i][f] = 0
    BY <1>2, <1>5 DEF Seen
  <2>2. i \in since[t]..N
    BY <1>0, <1>2, <2>1
  <2>3. QED
    BY <2>1, <2>2 DEF WasMissing, N
<1>6. Candidate(t).manifest = seen /\ Candidate(t).content = text
  BY DEF Candidate, seen, text
<1>7. Coherent(Candidate(t)) /\ Fits(Candidate(t), m)
  BY <1>3, <1>4, <1>6 DEF Coherent, Fits
<1>8. QED
  BY <1>2, <1>5, <1>6, <1>7 DEF Current, N

\* What was so at a moment of the call stays so.
LEMMA CandidatesKept ==
    ASSUME TypeOK, VersionsAreNew, ScansMeet, TextsAreRead, CandidatesAreCurrent, [Next]_vars
    PROVE  CandidatesAreCurrent'
<1> DEFINE N == Len(history)
<1>1. /\ N \in Nat /\ Len(history') \in Nat /\ 1 <= N
      /\ N <= Len(history')
      /\ \A i \in 1..N : history'[i] = history[i]
  BY HistoryGrows
<1> HIDE DEF N
<1> SUFFICES ASSUME NEW t \in Threads, at'[t] \in {"write", "publish"}
             PROVE  Coherent(Candidate(t))' /\ Current(t, Candidate(t))'
  BY DEF CandidatesAreCurrent
<1>2. since[t] \in 1..N
  BY DEF TypeOK, N
<1>3. ASSUME Coherent(Candidate(t)), Current(t, Candidate(t)),
             manifest'[t] = manifest[t], content'[t] = content[t], since'[t] = since[t]
      PROVE  Coherent(Candidate(t))' /\ Current(t, Candidate(t))'
  <2>1. Candidate(t)' = Candidate(t)
    BY <1>3 DEF Candidate
  <2>2. PICK i \in since[t]..N : Fits(Candidate(t), i)
    BY <1>3 DEF Current, N
  <2>3. i \in 1..N /\ i \in since'[t]..Len(history')
    BY <1>1, <1>2, <1>3, <2>2
  <2>4. \A f \in Files : Candidate(t).manifest[f] # 0 => history'[i][f] = Candidate(t).content[f]
    BY <1>1, <2>2, <2>3 DEF Fits
  <2>5. ASSUME NEW f \in Files, Candidate(t).manifest[f] = 0
        PROVE  \E j \in since'[t]..Len(history') : history'[j][f] = 0
    <3>1. PICK j \in since[t]..N : history[j][f] = 0
      BY <1>3, <2>5 DEF Current, WasMissing, N
    <3>2. j \in 1..N /\ j \in since'[t]..Len(history')
      BY <1>1, <1>2, <1>3, <3>1
    <3>3. QED
      BY <1>1, <3>1, <3>2
  <2>6. \A f \in Files : Candidate(t).manifest[f] # 0 => Candidate(t).content[f] = Candidate(t).manifest[f]
    BY <1>3 DEF Coherent
  <2>7. QED
    BY <2>1, <2>3, <2>4, <2>5, <2>6 DEF Coherent, Current, Fits, WasMissing
<1>4. CASE Stays(t)
  BY <1>3, <1>4 DEF Stays, CandidatesAreCurrent
<1>5. CASE Works(t)
  <2>1. \/ Verified(t)
        \/ WriteDisk(t)
    BY <1>5 DEF Works, Scan, BeginBuild, ReadFile, Built, Verify, TypeOK
  <2>2. manifest' = manifest /\ content' = content /\ since' = since
    BY <1>5, <2>1 DEF Works, Verified, WriteDisk, scanVars
  <2>3. CASE Verified(t)
    BY <1>3, <2>2, <2>3, VerifiedIsCurrent
  <2>4. CASE WriteDisk(t)
    BY <1>3, <2>2, <2>4 DEF WriteDisk, CandidatesAreCurrent
  <2>5. QED
    BY <2>1, <2>3, <2>4
<1>6. Enter(t) => at'[t] = "scan"
  BY DEF Enter, Begins, Fresh, Clear, TypeOK
<1>7. QED
  BY <1>4, <1>5, <1>6, StepCases DEF Gone, Renewed

\* An index that was current in a call was so at a moment.
LEMMA CurrentIsSound ==
    ASSUME TypeOK, NEW t \in Threads, NEW index, Coherent(index), Current(t, index)
    PROVE  Sound(index)
<1>1. /\ Len(history) \in Nat /\ DOMAIN history = 1..Len(history)
      /\ since[t] \in 1..Len(history)
  BY LenProperties DEF TypeOK
<1>2. PICK i \in since[t]..Len(history) : Fits(index, i)
  BY DEF Current
<1>3. i \in DOMAIN history
  BY <1>1, <1>2
<1>4. QED
  BY <1>2, <1>3 DEF Sound

\* What is stored or about to be stored is sound.
LEMMA SourcesAreSound ==
    ASSUME TypeOK, CandidatesAreCurrent, StoredAreSound, NEW t \in Threads, at[t] # "idle"
    PROVE  /\ Cached(ProcessOf[t], key[t]) => Sound(EntryOf(ProcessOf[t], key[t]))
           /\ disk[key[t]] # None => Sound(disk[key[t]])
           /\ at[t] \in {"write", "publish"} => Sound(Candidate(t))
           /\ \A start \in Baselines(t) : start # None => Sound(start)
<1>1. ProcessOf[t] \in Processes /\ key[t] \in Keys
  BY IndexTypes
<1>2. Cached(ProcessOf[t], key[t]) => Sound(EntryOf(ProcessOf[t], key[t]))
  BY <1>1 DEF StoredAreSound, Cached, EntryOf
<1>3. disk[key[t]] # None => Sound(disk[key[t]])
  BY <1>1 DEF StoredAreSound
<1>4. at[t] \in {"write", "publish"} => Sound(Candidate(t))
  BY CurrentIsSound DEF CandidatesAreCurrent
<1>5. QED
  BY <1>2, <1>3, <1>4 DEF Baselines

\* Nothing is stored that is not sound, and what is sound stays it.
LEMMA StoredKept ==
    ASSUME TypeOK, CandidatesAreCurrent, StoredAreSound, [Next]_vars
    PROVE  StoredAreSound'
<1> DEFINE Holds(index) ==
              /\ Coherent(index)
              /\ \E i \in DOMAIN history' :
                   \A f \in Files : index.manifest[f] # 0 => history'[i][f] = index.content[f]
<1>1. \A index : Sound(index) => Holds(index)
  BY HistoryGrows DEF Sound, Fits
<1>2. ASSUME NEW p \in Processes, NEW e \in ToSet(memory'[p])
      PROVE  Holds(e.index)
  <2>1. CASE memory'[p] = memory[p]
    BY <1>1, <2>1 DEF StoredAreSound, Entries
  <2>2. CASE memory'[p] # memory[p]
    <3>1. PICK t \in Threads, index \in Indexes :
             /\ ProcessOf[t] = p /\ at[t] # "idle" /\ key[t] \in Keys
             /\ memory'[p] = Published(p, key[t], index)
             /\ \/ Cached(p, key[t]) /\ index = EntryOf(p, key[t])
                \/ ~Cached(p, key[t]) /\ disk[key[t]] # None /\ index = disk[key[t]]
                \/ at[t] = "publish" /\ index = Candidate(t)
      BY <2>2, MemorySteps
    <3>2. Sound(index)
      BY <3>1, SourcesAreSound
    <3>3. e = [key |-> key[t], index |-> index] \/ e \in Entries(p)
      BY <1>2, <3>1, PublishedEntries
    <3>4. QED
      BY <1>1, <3>2, <3>3 DEF StoredAreSound
  <2>3. QED
    BY <2>1, <2>2
<1>3. ASSUME NEW k \in Keys, disk'[k] # None
      PROVE  Holds(disk'[k])
  <2>1. CASE disk'[k] = disk[k]
    BY <1>1, <1>3, <2>1 DEF StoredAreSound
  <2>2. CASE disk'[k] # disk[k]
    <3>1. PICK t \in Threads : WriteDisk(t)
      <4>1. disk' # disk
        BY <2>2
      <4>2. ASSUME NEW u \in Threads, Retry(u), UNCHANGED <<fileVars, memory>>
            PROVE  FALSE
        BY <4>1, <4>2 DEF fileVars
      <4>3. QED
        BY <4>1, <4>2 DEF Next, Get, EditTree, Enter, Begins, Scan, ScanRaises, MemoryHit,
             DiskHit, BeginBuild, ReadFile, Built, BuildRaises, BuildRetries, Verify, Verified,
             Refuted, PublishBuild, vars, fileVars
    <3>2. disk'[k] = Candidate(t) /\ at[t] = "write"
      BY <2>2, <3>1 DEF WriteDisk, TypeOK
    <3>3. QED
      BY <1>1, <3>2, SourcesAreSound
  <2>3. QED
    BY <2>1, <2>2
<1>4. ASSUME NEW t \in Threads, baseline'[t] # None
      PROVE  Holds(baseline'[t])
  <2>1. CASE baseline'[t] = baseline[t]
    BY <1>1, <1>4, <2>1 DEF StoredAreSound
  <2>2. CASE BeginBuild(t)
    <3>1. baseline'[t] \in Baselines(t) /\ at[t] # "idle"
      BY <2>2 DEF BeginBuild, Scanned, TypeOK
    <3>2. QED
      BY <1>1, <1>4, <3>1, SourcesAreSound
  <2>3. Enter(t) => baseline'[t] = None
    BY DEF Enter, Begins, Fresh, Clear, TypeOK
  <2>4. Works(t) => BeginBuild(t) \/ baseline'[t] = baseline[t]
    BY DEF Works, Scan, ReadFile, Built, Verify, Verified, WriteDisk, scanVars
  <2>5. QED
    BY <1>4, <2>1, <2>2, <2>3, <2>4, StepCases DEF Stays, Gone, Renewed, Blank
<1>5. QED
  BY <1>2, <1>3, <1>4 DEF StoredAreSound, Sound, Entries, Fits, Coherent

\* No other thread replaces the entry of a key that a thread looks up.
LEMMA EntriesKept ==
    ASSUME TypeOK, KeysAreLocked, StoredAreSound, EntriesAreOlder, [Next]_vars
    PROVE  EntriesAreOlder'
<1>1. /\ Len(history) \in Nat /\ DOMAIN history = 1..Len(history)
      /\ \A i \in 1..Len(history) : history'[i] = history[i]
  BY HistoryGrows
<1> SUFFICES ASSUME NEW t \in Threads, at'[t] # "idle",
                    NEW e \in ToSet(memory'[ProcessOf[t]]), e.key = key'[t]
             PROVE  \E i \in 1..since'[t] : \A f \in Files :
                      e.index.manifest[f] # 0 => history'[i][f] = e.index.content[f]
  BY DEF EntriesAreOlder, Entries, Fits
<1> DEFINE p == ProcessOf[t]
<1>2. p \in Processes /\ since[t] \in 1..Len(history)
  BY ThreadsAssumption DEF TypeOK
<1>3. CASE Enter(t)
  <2>1. memory' = memory /\ history' = history /\ since'[t] = Len(history)
    BY <1>3 DEF Enter, Begins, fileVars, TypeOK
  <2>2. Sound(e.index)
    BY <1>2, <2>1 DEF StoredAreSound, Entries
  <2>3. QED
    BY <1>1, <2>1, <2>2 DEF Sound, Fits
<1>4. ASSUME at[t] # "idle", key'[t] = key[t], since'[t] = since[t], e \in Entries(p)
      PROVE  \E i \in 1..since'[t] : \A f \in Files :
               e.index.manifest[f] # 0 => history'[i][f] = e.index.content[f]
  <2>1. PICK i \in 1..since[t] : Fits(e.index, i)
    BY <1>4 DEF EntriesAreOlder
  <2>2. i \in 1..Len(history)
    BY <1>1, <1>2
  <2>3. QED
    BY <1>1, <1>4, <2>1, <2>2 DEF Fits
<1>5. CASE Renewed(t) \/ Works(t)
  <2>1. memory' = memory /\ key'[t] = key[t] /\ since'[t] = since[t] /\ at[t] # "idle"
    BY <1>5 DEF Renewed, Works, Scan, BeginBuild, Scanned, ReadFile, Built, Verify, Verified,
                WriteDisk
  <2>2. QED
    BY <1>4, <2>1 DEF Entries
<1>6. CASE Stays(t) /\ memory'[p] = memory[p]
  BY <1>4, <1>6 DEF Stays, Entries
<1>7. CASE Stays(t) /\ memory'[p] # memory[p]
  <2>1. PICK u \in Threads, index \in Indexes :
           /\ ProcessOf[u] = p /\ at[u] # "idle" /\ key[u] \in Keys
           /\ memory'[p] = Published(p, key[u], index) /\ Gone(u)
    BY <1>2, <1>7, MemorySteps
  <2>2. u # t
    BY <2>1 DEF Gone
  <2>3. key[u] # key[t]
    BY <2>1, <2>2 DEF KeysAreLocked
  <2>4. e = [key |-> key[u], index |-> index] \/ e \in Entries(p)
    BY <1>2, <2>1, PublishedEntries
  <2>5. QED
    BY <1>4, <1>7, <2>3, <2>4 DEF Stays
<1>8. QED
  BY <1>3, <1>5, <1>6, <1>7, StepCases DEF Gone

\* At the start nothing is stored, and no thread is in get.
LEMMA InitInv == Init => RInv
<1> SUFFICES ASSUME Init PROVE RInv
  OBVIOUS
<1>1. TypeOK
  BY InitTypes
<1>2. PICK first \in [Files -> {0, 1}] : history = <<first>>
  BY DEF Init
<1>3. DOMAIN history = {1} /\ Len(history) = 1 /\ history[1] = first
  BY <1>2
<1>4. VersionsAreNew
  BY <1>2, <1>3 DEF VersionsAreNew
<1>5. KeysAreLocked
  BY ThreadsAssumption DEF Init, KeysAreLocked
<1>6. \A t \in Threads : at[t] = "idle" /\ baseline[t] = None
  BY DEF Init
<1>7. \A p \in Processes : Entries(p) = {}
  BY DEF Init, Entries, ToSet
<1>8. \A k \in Keys : disk[k] = None
  BY DEF Init
<1>9. QED
  BY <1>1, <1>4, <1>5, <1>6, <1>7, <1>8 DEF RInv, ScansAreSeen, ScansMeet, TextsAreRead,
       CandidatesAreCurrent, StoredAreSound, EntriesAreOlder

LEMMA Inductive == ASSUME ~Unreadable, RInv, [Next]_vars PROVE RInv'
<1>1. TypeOK'
  BY TypesKept DEF RInv
<1>2. KeysAreLocked' /\ VersionsAreNew'
  BY LocksKept, VersionsKept DEF RInv
<1>3. ScansAreSeen' /\ ScansMeet' /\ TextsAreRead'
  BY ScansKept, MeetingKept, TextsKept DEF RInv
<1>4. CandidatesAreCurrent' /\ StoredAreSound' /\ EntriesAreOlder'
  BY CandidatesKept, StoredKept, EntriesKept DEF RInv
<1>5. QED
  BY <1>1, <1>2, <1>3, <1>4 DEF RInv

LEMMA Invariance == ASSUME ~Unreadable PROVE Spec => []RInv
<1>1. RInv /\ [Next]_vars => RInv'
  BY Inductive
<1>2. QED
  BY <1>1, InitInv, PTL DEF Spec

----
\* An index that was so once, with the manifest that the thread has just scanned,
\* is so now: the versions that it lists are still those of the tree.
LEMMA HitIsCurrent ==
    ASSUME TypeOK, VersionsAreNew, ScansAreSeen, NEW t \in Threads, Scanned(t),
           NEW index \in Indexes, Sound(index), index.manifest = manifest[t]
    PROVE  Current(t, index)
<1> DEFINE N == Len(history)
           first == since[t]
<1>1. N \in Nat /\ first \in 1..N /\ DOMAIN history = 1..N
  BY LenProperties DEF TypeOK
<1>2. \A f \in Files : Seen(f, manifest[t][f], first, N)
  BY DEF Scanned, ScansAreSeen, Files
<1>3. PICK m \in 1..N : Fits(index, m)
  BY <1>1 DEF Sound
<1>4. Coherent(index)
  BY DEF Sound
<1> HIDE DEF N, first
<1>5. \A f \in Files : index.manifest[f] = 0 => WasMissing(t, f)
  BY <1>2 DEF Seen, WasMissing, N, first
<1>6. CASE first <= m
  BY <1>1, <1>3, <1>5, <1>6 DEF Current, N, first
<1>7. CASE m < first
  <2>1. ASSUME NEW f \in Files, index.manifest[f] # 0
        PROVE  history[first][f] = index.content[f]
    <3>1. PICK k \in first..N : history[k][f] = index.manifest[f]
      BY <1>2 DEF Seen
    <3>2. history[m][f] = index.manifest[f] /\ index.content[f] = index.manifest[f]
      BY <1>3, <1>4, <2>1 DEF Fits, Coherent
    <3>3. m <= first /\ first <= k /\ k \in 1..N /\ first \in 1..N
      BY <1>1, <1>3, <1>7, <3>1
    <3>4. QED
      BY <2>1, <3>1, <3>2, <3>3, SameBetween DEF N
  <2>2. first \in first..N
    BY <1>1
  <2>3. QED
    BY <1>5, <2>1, <2>2 DEF Current, Fits, N, first
<1>8. QED
  BY <1>1, <1>3, <1>6, <1>7

\* An index answers a call: it is current then.
LEMMA AnswersAreCurrent ==
    ASSUME RInv, [Next]_vars, NEW t \in Threads, answer'[t] \notin {None, answer[t]}
    PROVE  Current(t, answer'[t])
<1> USE DEF RInv
<1>1. ASSUME NEW u \in Threads, NEW result, Leave(u, result)
      PROVE  answer' = [answer EXCEPT ![u] = result]
  BY <1>1 DEF Leave, Clear
<1>2. ASSUME NEW u \in Threads, Raise(u) \/ Retry(u) \/ Enter(u)
      PROVE  answer'[t] \in {None, answer[t]}
  BY <1>1, <1>2 DEF Raise, Retry, Enter, Begins, TypeOK
<1>3. MemoryHit(t) \/ DiskHit(t) \/ PublishBuild(t)
  <2>1. ASSUME NEW u \in Threads, u # t, MemoryHit(u) \/ DiskHit(u) \/ PublishBuild(u)
        PROVE  answer'[t] = answer[t]
    BY <1>1, <2>1 DEF MemoryHit, DiskHit, PublishBuild, TypeOK
  <2>2. ASSUME NEW u \in Threads,
               ScanRaises(u) \/ BuildRaises(u) \/ BuildRetries(u) \/ Refuted(u) \/ Enter(u)
        PROVE  FALSE
    BY <1>2, <2>2 DEF ScanRaises, BuildRaises, BuildRetries, Refuted
  <2>3. QED
    BY <2>1, <2>2 DEF Next, Get, EditTree, Scan, BeginBuild, ReadFile, Built, Verify,
         Verified, WriteDisk, vars
<1>4. at[t] # "idle"
  BY <1>3 DEF MemoryHit, DiskHit, PublishBuild, Scanned
<1>5. CASE MemoryHit(t)
  <2> DEFINE index == EntryOf(ProcessOf[t], key[t])
  <2>1. /\ Scanned(t) /\ Cached(ProcessOf[t], key[t]) /\ index.manifest = manifest[t]
        /\ answer'[t] = index
    BY <1>1, <1>5 DEF MemoryHit, TypeOK
  <2>2. index \in Indexes /\ Sound(index)
    BY <1>4, <2>1, IndexTypes, SourcesAreSound
  <2> HIDE DEF index
  <2>3. QED
    BY <2>1, <2>2, HitIsCurrent
<1>6. CASE DiskHit(t)
  <2> DEFINE index == disk[key[t]]
  <2>1. Scanned(t) /\ index # None /\ index.manifest = manifest[t] /\ answer'[t] = index
    BY <1>1, <1>6 DEF DiskHit, Readable, TypeOK
  <2>2. index \in Indexes /\ Sound(index)
    BY <1>4, <2>1, IndexTypes, SourcesAreSound
  <2> HIDE DEF index
  <2>3. QED
    BY <2>1, <2>2, HitIsCurrent
<1>7. CASE PublishBuild(t)
  <2>1. at[t] = "publish" /\ answer'[t] = Candidate(t)
    BY <1>1, <1>7 DEF PublishBuild, TypeOK
  <2>2. QED
    BY <2>1 DEF CandidatesAreCurrent
<1>8. QED
  BY <1>3, <1>5, <1>6, <1>7

\* What takes the place of an entry was current later than the entry.
LEMMA PublicationAdvances ==
    ASSUME RInv, [Next]_vars, NEW p \in Processes,
           NEW old \in Entries(p), NEW new \in ToSet(memory'[p]), old.key = new.key
    PROVE  \E i, j \in DOMAIN history : i <= j /\ Fits(old.index, i) /\ Fits(new.index, j)
<1> USE DEF RInv
<1>1. Len(history) \in Nat /\ DOMAIN history = 1..Len(history)
  BY LenProperties DEF TypeOK
<1>2. \E i \in DOMAIN history : Fits(old.index, i)
  BY DEF StoredAreSound, Sound
<1>3. ASSUME NEW e \in Entries(p), e.key = old.key
      PROVE  e = old
  <2>1. PICK i \in DOMAIN memory[p] : old = memory[p][i]
    BY DEF Entries, ToSet
  <2>2. PICK j \in DOMAIN memory[p] : e = memory[p][j]
    BY <1>3 DEF Entries, ToSet
  <2>3. QED
    BY <1>3, <2>1, <2>2 DEF TypeOK
<1>4. ASSUME new = old
      PROVE  \E i, j \in DOMAIN history : i <= j /\ Fits(old.index, i) /\ Fits(new.index, j)
  BY <1>1, <1>2, <1>4
<1>5. CASE new \in Entries(p)
  BY <1>3, <1>4, <1>5
<1>6. CASE new \notin Entries(p)
  <2>1. PICK t \in Threads, index \in Indexes :
           /\ ProcessOf[t] = p /\ at[t] # "idle" /\ key[t] \in Keys
           /\ memory'[p] = Published(p, key[t], index)
           /\ \/ Cached(p, key[t]) /\ index = EntryOf(p, key[t])
              \/ ~Cached(p, key[t]) /\ disk[key[t]] # None /\ index = disk[key[t]]
              \/ at[t] = "publish" /\ index = Candidate(t)
    BY <1>6, MemorySteps DEF Entries
  <2>2. new = [key |-> key[t], index |-> index]
    BY <1>6, <2>1, PublishedEntries
  <2>3. old.key = key[t] /\ new.index = index
    BY <2>2
  <2>4. Cached(p, key[t])
    BY <2>3 DEF Cached
  <2>5. CASE index = EntryOf(p, key[t])
    <3>1. PICK e \in Entries(p) : e.key = key[t] /\ index = e.index
      BY <2>4, <2>5 DEF Cached, EntryOf
    <3>2. new.index = old.index
      BY <1>3, <2>3, <3>1
    <3>3. QED
      BY <1>1, <1>2, <3>2
  <2>6. CASE at[t] = "publish" /\ index = Candidate(t)
    <3>1. PICK i \in 1..since[t] : Fits(old.index, i)
      BY <2>1, <2>3 DEF EntriesAreOlder
    <3>2. PICK j \in since[t]..Len(history) : Fits(index, j)
      BY <2>6 DEF CandidatesAreCurrent, Current
    <3>3. since[t] \in 1..Len(history)
      BY DEF TypeOK
    <3>4. i \in DOMAIN history /\ j \in DOMAIN history /\ i <= j
      BY <1>1, <3>1, <3>2, <3>3
    <3>5. QED
      BY <2>3, <3>1, <3>2, <3>4
  <2>7. QED
    BY <2>1, <2>4, <2>5, <2>6
<1>7. QED
  BY <1>5, <1>6

\* SnapshotsAreCoherent of any number of threads, processes, keys, files and
\* edits: what memory and disk hold for a file is what the manifest vouches for.
\* An existing file that cannot be opened would spoil it.
THEOREM SnapshotsAreAlwaysCoherent ==
    ASSUME ~Unreadable PROVE Spec => []SnapshotsAreCoherent
<1>1. RInv => SnapshotsAreCoherent
  BY DEF RInv, StoredAreSound, Sound, SnapshotsAreCoherent, Stored
<1>2. QED
  BY <1>1, Invariance, PTL

\* IndexIsCurrent: whatever get returns, the files it lists had these texts all
\* at one moment of the call.
THEOREM ReturnedIndexIsCurrent == ASSUME ~Unreadable PROVE Spec => IndexIsCurrent
<1>1. RInv /\ [Next]_vars =>
        [\A t \in Threads :
            answer'[t] \notin {None, answer[t]} => Current(t, answer'[t])]_vars
  BY AnswersAreCurrent
<1>2. QED
  BY <1>1, Invariance, PTL DEF Spec, IndexIsCurrent

\* MemoryAdvances: in the memory of a process no index is replaced by one that
\* is older than it.
THEOREM MemoryAlwaysAdvances == ASSUME ~Unreadable PROVE Spec => MemoryAdvances
<1>1. RInv /\ [Next]_vars =>
        [\A p \in Processes : \A old \in Entries(p), new \in ToSet(memory'[p]) :
            old.key = new.key =>
                \E i, j \in DOMAIN history :
                    i <= j /\ Fits(old.index, i) /\ Fits(new.index, j)]_vars
  BY PublicationAdvances
<1>2. QED
  BY <1>1, Invariance, PTL DEF Spec, MemoryAdvances
====
