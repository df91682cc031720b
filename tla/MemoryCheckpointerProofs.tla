---------------------- MODULE MemoryCheckpointerProofs ----------------------
(***************************************************************************)
(* For every set of threads, nodes and states: the store's two indexes     *)
(* agree after any sequence of saves and deletions.                        *)
(***************************************************************************)
EXTENDS MemoryCheckpointer, TLAPS, SequenceTheorems

\* Taking the k-th element out of a sequence shifts the ones behind it.
LEMMA RemoveAtShifts ==
  ASSUME NEW S, NEW s \in Seq(S), NEW k \in 1 .. Len(s)
  PROVE  /\ RemoveAt(s, k) \in Seq(S)
         /\ Len(RemoveAt(s, k)) = Len(s) - 1
         /\ \A i \in 1 .. k - 1 : RemoveAt(s, k)[i] = s[i]
         /\ \A i \in k .. Len(s) - 1 : RemoveAt(s, k)[i] = s[i + 1]
<1> DEFINE a == SubSeq(s, 1, k - 1)
           b == SubSeq(s, k + 1, Len(s))
<1>0. Len(s) \in Nat /\ k \in Int /\ \A i \in 1 .. Len(s) : s[i] \in S
  BY LenProperties, ElementOfSeq
<1>1. /\ a \in Seq(S) /\ Len(a) = k - 1
      /\ \A i \in 1 .. k - 1 : a[i] = s[i]
  <2>1. \A i \in 1 .. k - 1 : s[i] \in S
    BY <1>0
  <2>2. k - 1 \in Int /\ 1 \in Int
    BY <1>0
  <2>3. /\ a \in Seq(S)
        /\ Len(a) = IF 1 <= k - 1 THEN (k - 1) - 1 + 1 ELSE 0
        /\ \A i \in 1 .. (k - 1) - 1 + 1 : a[i] = s[1 + i - 1]
    BY <2>1, <2>2, SubSeqProperties
  <2> QED
    BY <2>3, <1>0
<1>2. /\ b \in Seq(S) /\ Len(b) = Len(s) - k
      /\ \A i \in 1 .. Len(s) - k : b[i] = s[k + i]
  <2>1. \A i \in k + 1 .. Len(s) : s[i] \in S
    BY <1>0
  <2>2. k + 1 \in Int /\ Len(s) \in Int
    BY <1>0
  <2>3. /\ b \in Seq(S)
        /\ Len(b) = IF k + 1 <= Len(s) THEN Len(s) - (k + 1) + 1 ELSE 0
        /\ \A i \in 1 .. Len(s) - (k + 1) + 1 : b[i] = s[k + 1 + i - 1]
    BY <2>1, <2>2, SubSeqProperties
  <2> QED
    BY <2>3, <1>0
<1>3. RemoveAt(s, k) = a \o b
  BY DEF RemoveAt
<1>4. /\ a \o b \in Seq(S)
      /\ Len(a \o b) = Len(a) + Len(b)
      /\ \A i \in 1 .. Len(a) + Len(b) :
           (a \o b)[i] = IF i <= Len(a) THEN a[i] ELSE b[i - Len(a)]
  BY <1>1, <1>2, ConcatProperties
<1> HIDE DEF a, b
<1>5. Len(a) + Len(b) = Len(s) - 1
  BY <1>0, <1>1, <1>2
<1>6. ASSUME NEW i \in 1 .. k - 1
      PROVE  (a \o b)[i] = s[i]
  BY <1>0, <1>1, <1>4, <1>5
<1>7. ASSUME NEW i \in k .. Len(s) - 1
      PROVE  (a \o b)[i] = s[i + 1]
  <2>1. i - (k - 1) \in 1 .. Len(s) - k /\ ~(i <= k - 1) /\ i \in 1 .. Len(s) - 1
    BY <1>0
  <2>2. (a \o b)[i] = b[i - (k - 1)]
    BY <2>1, <1>1, <1>4, <1>5
  <2>3. b[i - (k - 1)] = s[k + (i - (k - 1))]
    BY <2>1, <1>2
  <2>4. k + (i - (k - 1)) = i + 1
    BY <1>0
  <2> QED
    BY <2>2, <2>3, <2>4
<1> QED
  BY <1>3, <1>4, <1>5, <1>6, <1>7

\* What `retain` leaves of an ordered list: the same ids without the one that
\* goes, in the same order.
LEMMA RetainDropsOne ==
  ASSUME NEW ids \in Seq(Nat), NEW gone \in Nat,
         \A i, j \in 1 .. Len(ids) : i < j => ids[i] < ids[j]
  PROVE  /\ Retain(ids, gone) \in Seq(Nat)
         /\ ToSet(Retain(ids, gone)) = ToSet(ids) \ {gone}
         /\ \A i, j \in 1 .. Len(Retain(ids, gone)) :
              i < j => Retain(ids, gone)[i] < Retain(ids, gone)[j]
<1>0. /\ Len(ids) \in Nat /\ DOMAIN ids = 1 .. Len(ids)
      /\ \A i \in 1 .. Len(ids) : ids[i] \in Nat
  BY LenProperties, ElementOfSeq
<1>1. CASE gone \notin ToSet(ids)
  BY <1>1 DEF Retain
<1>2. CASE gone \in ToSet(ids)
  <2> DEFINE k == CHOOSE k \in 1 .. Len(ids) : ids[k] = gone
             out == RemoveAt(ids, k)
  <2>1. k \in 1 .. Len(ids) /\ ids[k] = gone
    BY <1>2, <1>0 DEF ToSet
  <2>2. Retain(ids, gone) = out
    BY <1>2 DEF Retain
  <2> HIDE DEF k
  <2>3. /\ out \in Seq(Nat) /\ Len(out) = Len(ids) - 1
        /\ \A i \in 1 .. k - 1 : out[i] = ids[i]
        /\ \A i \in k .. Len(ids) - 1 : out[i] = ids[i + 1]
    BY <2>1, RemoveAtShifts
  <2> HIDE DEF out
  <2>4. DOMAIN out = 1 .. Len(ids) - 1
    BY <2>3, LenProperties
  <2>5. ASSUME NEW i \in 1 .. Len(out), NEW j \in 1 .. Len(out), i < j
        PROVE  out[i] < out[j]
    <3>1. CASE j < k
      <4>1. i \in 1 .. k - 1 /\ j \in 1 .. k - 1
        BY <3>1, <2>1, <2>3, <2>5, <1>0
      <4>2. i \in 1 .. Len(ids) /\ j \in 1 .. Len(ids)
        BY <4>1, <2>1, <1>0
      <4> QED
        BY <4>1, <4>2, <2>3, <2>5
    <3>2. CASE i < k /\ k <= j
      <4>0. i \in 1 .. k - 1 /\ j \in k .. Len(ids) - 1
        BY <3>2, <2>1, <2>3, <1>0
      <4>1. out[i] = ids[i] /\ out[j] = ids[j + 1]
        BY <4>0, <2>3
      <4>2. i \in 1 .. Len(ids) /\ j + 1 \in 1 .. Len(ids) /\ i < j + 1
        BY <2>3, <2>5, <1>0
      <4> QED
        BY <4>1, <4>2
    <3>3. CASE k <= i
      <4>0. i \in k .. Len(ids) - 1 /\ j \in k .. Len(ids) - 1
        BY <3>3, <2>1, <2>3, <2>5, <1>0
      <4>1. out[i] = ids[i + 1] /\ out[j] = ids[j + 1]
        BY <4>0, <2>3
      <4>2. i + 1 \in 1 .. Len(ids) /\ j + 1 \in 1 .. Len(ids) /\ i + 1 < j + 1
        BY <2>3, <2>5, <1>0
      <4> QED
        BY <4>1, <4>2
    <3> QED
      BY <3>1, <3>2, <3>3, <2>1, <1>0
  <2>6. ToSet(out) = ToSet(ids) \ {gone}
    <3>1. ASSUME NEW i \in 1 .. Len(ids) - 1
          PROVE  out[i] \in ToSet(ids) /\ out[i] # gone
      <4>1. CASE i < k
        <5>1. i \in 1 .. k - 1 /\ i \in 1 .. Len(ids)
          BY <4>1, <2>1, <1>0
        <5>2. out[i] = ids[i]
          BY <5>1, <2>3
        <5>3. ids[i] < ids[k] /\ ids[i] \in Nat /\ ids[k] \in Nat
          BY <4>1, <5>1, <2>1, <1>0
        <5>4. ids[i] # gone
          BY <5>3, <2>1
        <5> QED
          BY <5>1, <5>2, <5>4, <1>0 DEF ToSet
      <4>2. CASE k <= i
        <5>1. out[i] = ids[i + 1] /\ i + 1 \in 1 .. Len(ids) /\ k < i + 1
          BY <4>2, <2>1, <2>3, <1>0
        <5>2. ids[k] < ids[i + 1] /\ ids[k] \in Nat /\ ids[i + 1] \in Nat
          BY <5>1, <2>1, <1>0
        <5>3. ids[i + 1] # gone
          BY <5>2, <2>1
        <5> QED
          BY <5>1, <5>3, <1>0 DEF ToSet
      <4> QED
        BY <4>1, <4>2, <2>1, <1>0
    <3>2. ASSUME NEW j \in 1 .. Len(ids), ids[j] # gone
          PROVE  ids[j] \in ToSet(out)
      <4>1. CASE j < k
        <5>1. j \in 1 .. Len(ids) - 1
          BY <4>1, <2>1, <1>0
        <5>2. j \in 1 .. k - 1
          BY <4>1, <2>1, <1>0
        <5>3. out[j] = ids[j]
          BY <5>2, <2>3
        <5> QED
          BY <5>1, <5>3, <2>4 DEF ToSet
      <4>2. CASE j > k
        <5>1. j - 1 \in 1 .. Len(ids) - 1
          BY <4>2, <2>1, <1>0
        <5>2. j - 1 \in k .. Len(ids) - 1 /\ (j - 1) + 1 = j
          BY <4>2, <2>1, <1>0
        <5>3. out[j - 1] = ids[j]
          BY <5>1, <5>2, <2>3
        <5> QED
          BY <5>1, <5>3, <2>4 DEF ToSet
      <4> QED
        BY <3>2, <4>1, <4>2, <2>1, <1>0
    <3> QED
      BY <3>1, <3>2, <2>4, <1>0 DEF ToSet
  <2> QED
    BY <2>2, <2>3, <2>5, <2>6
<1> QED
  BY <1>1, <1>2

-----------------------------------------------------------------------------
\* The lists hold what they held and, if it was saved to thread t, the new id,
\* which is larger than all of them.

LEMMA SaveKeeps ==
  ASSUME StoreTypeOK, StoreInv, NEW cp \in Checkpoint, Save(cp)
  PROVE  StoreTypeOK' /\ StoreInv'
<1> DEFINE t == cp.thread
           n == Len(threads[t])
<1>0. /\ lastId \in Nat /\ lastId' = lastId + 1 /\ lastId' \in Nat
      /\ t \in Threads /\ n \in Nat
      /\ \A u \in Threads : /\ threads[u] \in Seq(1 .. lastId)
                            /\ DOMAIN threads[u] = 1 .. Len(threads[u])
                            /\ \A i \in 1 .. Len(threads[u]) : threads[u][i] \in 1 .. lastId
  BY LenProperties, ElementOfSeq DEF StoreTypeOK, Checkpoint, Save
<1>1. /\ Stored' = Stored \cup {lastId'}
      /\ lastId' \notin Stored
      /\ checkpoints'[lastId'] = cp
      /\ \A id \in Stored : checkpoints'[id] = checkpoints[id]
      /\ checkpoints' \in [Stored' -> Checkpoint]
  BY <1>0 DEF Save, Stored, StoreTypeOK
<1>2. /\ threads' \in [Threads -> Seq(1 .. lastId')]
      /\ Len(threads'[t]) = n + 1
      /\ threads'[t][n + 1] = lastId'
      /\ \A i \in 1 .. n : threads'[t][i] = threads[t][i]
      /\ \A u \in Threads \ {t} : threads'[u] = threads[u]
  <2>1. \A u \in Threads : threads[u] \in Seq(1 .. lastId')
    BY <1>0, SeqMonotonic, 1 .. lastId \subseteq 1 .. lastId'
  <2>2. threads'[t] = Append(threads[t], lastId')
    BY <1>0 DEF Save, StoreTypeOK
  <2>3. lastId' \in 1 .. lastId'
    BY <1>0
  <2>4. /\ threads'[t] \in Seq(1 .. lastId')
        /\ Len(threads'[t]) = n + 1
        /\ threads'[t][n + 1] = lastId'
        /\ \A i \in 1 .. n : threads'[t][i] = threads[t][i]
    BY <1>0, <2>1, <2>2, <2>3, AppendProperties
  <2>5. \A u \in Threads \ {t} : threads'[u] = threads[u]
    BY <1>0 DEF Save, StoreTypeOK
  <2> QED
    BY <2>1, <2>4, <2>5 DEF Save, StoreTypeOK
<1>old. ASSUME NEW u \in Threads, NEW i \in 1 .. Len(threads[u])
        PROVE  i \in 1 .. Len(threads'[u]) /\ threads'[u][i] = threads[u][i]
  <2>1. CASE u = t
    <3>1. i \in 1 .. n /\ i \in 1 .. n + 1
      BY <2>1, <1>0
    <3> QED
      BY <2>1, <3>1, <1>2
  <2>2. CASE u # t
    BY <2>2, <1>2
  <2> QED
    BY <2>1, <2>2
<1>new. ASSUME NEW u \in Threads, NEW i \in 1 .. Len(threads'[u]), ~(u = t /\ i = n + 1)
        PROVE  i \in 1 .. Len(threads[u])
  <2>1. CASE u = t
    <3>1. i \in 1 .. n + 1 /\ i # n + 1
      BY <2>1, <1>new, <1>2
    <3>2. n \in Nat
      BY <1>0
    <3> HIDE DEF n
    <3>3. i \in 1 .. n
      BY <3>1, <3>2
    <3> QED
      BY <2>1, <3>3 DEF n
  <2>2. CASE u # t
    BY <2>2, <1>2
  <2> QED
    BY <2>1, <2>2
<1>3. StoreTypeOK'
  <2>1. Stored' \subseteq 1 .. lastId'
    BY <1>0, <1>1 DEF StoreTypeOK
  <2> QED
    BY <1>0, <1>1, <1>2, <2>1 DEF StoreTypeOK
<1>4. ListsAreSound'
  <2> SUFFICES ASSUME NEW u \in Threads, NEW i \in 1 .. Len(threads'[u])
               PROVE  threads'[u][i] \in Stored' /\ checkpoints'[threads'[u][i]].thread = u
    BY DEF ListsAreSound, Stored
  <2>1. CASE u = t /\ i = n + 1
    BY <2>1, <1>1, <1>2
  <2>2. CASE ~(u = t /\ i = n + 1)
    <3>1. i \in 1 .. Len(threads[u]) /\ threads'[u][i] = threads[u][i]
      BY <2>2, <1>old, <1>new
    <3>2. threads[u][i] \in Stored /\ checkpoints[threads[u][i]].thread = u
      BY <3>1 DEF StoreInv, ListsAreSound
    <3> QED
      BY <3>1, <3>2, <1>1
  <2> QED
    BY <2>1, <2>2
<1>5. ListsAreComplete'
  <2> SUFFICES ASSUME NEW id \in Stored'
               PROVE  id \in ToSet(threads'[checkpoints'[id].thread])
    BY DEF ListsAreComplete, Stored
  <2>0. \A u \in Threads : DOMAIN threads'[u] = 1 .. Len(threads'[u])
    BY <1>2, LenProperties
  <2>1. CASE id = lastId'
    <3>1. n + 1 \in DOMAIN threads'[t]
      BY <2>0, <1>0, <1>2
    <3> QED
      BY <2>1, <3>1, <1>1, <1>2 DEF ToSet
  <2>2. CASE id \in Stored
    <3> DEFINE u == checkpoints[id].thread
    <3>1. u \in Threads /\ checkpoints'[id].thread = u
      BY <2>2, <1>1 DEF StoreTypeOK, Checkpoint
    <3>2. PICK i \in 1 .. Len(threads[u]) : threads[u][i] = id
      BY <2>2, <3>1, <1>0 DEF StoreInv, ListsAreComplete, ToSet
    <3>3. i \in 1 .. Len(threads'[u]) /\ threads'[u][i] = id
      BY <3>1, <3>2, <1>old
    <3> QED
      BY <2>0, <3>1, <3>3 DEF ToSet
  <2> QED
    BY <2>1, <2>2, <1>1
<1>6. ListsAreOrdered'
  <2> SUFFICES ASSUME NEW u \in Threads, NEW i \in 1 .. Len(threads'[u]),
                      NEW j \in 1 .. Len(threads'[u]), i < j
               PROVE  threads'[u][i] < threads'[u][j]
    BY DEF ListsAreOrdered
  <2>1. CASE u = t /\ j = n + 1
    <3>1. i \in 1 .. n /\ threads'[u][i] = threads[t][i]
      BY <2>1, <1>0, <1>2
    <3> QED
      BY <2>1, <3>1, <1>0, <1>2
  <2>2. CASE ~(u = t /\ j = n + 1)
    <3>1. /\ i \in 1 .. Len(threads[u]) /\ threads'[u][i] = threads[u][i]
          /\ j \in 1 .. Len(threads[u]) /\ threads'[u][j] = threads[u][j]
      <4>1. ~(u = t /\ i = n + 1)
        <5>1. CASE u = t
          <6>1. j \in 1 .. n + 1 /\ i < j
            BY <5>1, <1>2
          <6> QED
            BY <6>1, <1>0
        <5> QED
          BY <5>1
      <4> QED
        BY <2>2, <4>1, <1>old, <1>new
    <3> QED
      BY <3>1 DEF StoreInv, ListsAreOrdered
  <2> QED
    BY <2>1, <2>2
<1> QED
  BY <1>3, <1>4, <1>5, <1>6 DEF StoreInv

LEMMA DeleteKeeps ==
  ASSUME StoreTypeOK, StoreInv, NEW id \in Stored, Delete(id)
  PROVE  StoreTypeOK' /\ StoreInv'
<1> DEFINE t == checkpoints[id].thread
<1>0. /\ lastId \in Nat /\ lastId' = lastId
      /\ id \in 1 .. lastId /\ t \in Threads
      /\ \A u \in Threads : /\ threads[u] \in Seq(1 .. lastId) /\ threads[u] \in Seq(Nat)
                            /\ DOMAIN threads[u] = 1 .. Len(threads[u])
  <2>1. \A u \in Threads : threads[u] \in Seq(1 .. lastId)
    BY DEF StoreTypeOK
  <2>2. lastId \in Nat /\ 1 .. lastId \subseteq Nat
    BY DEF StoreTypeOK
  <2>3. \A u \in Threads : threads[u] \in Seq(Nat)
    BY <2>1, <2>2, SeqMonotonic
  <2> QED
    BY <2>1, <2>2, <2>3, LenProperties DEF StoreTypeOK, Checkpoint, Delete
<1>1. /\ Stored' = Stored \ {id}
      /\ \A x \in Stored' : checkpoints'[x] = checkpoints[x]
      /\ checkpoints' \in [Stored' -> Checkpoint]
  BY DEF Delete, Forget, Stored, StoreTypeOK
<1>2. /\ threads' = [threads EXCEPT ![t] = Retain(threads[t], id)]
      /\ \A u \in Threads \ {t} : threads'[u] = threads[u]
      /\ threads'[t] = Retain(threads[t], id)
  BY <1>0 DEF Delete, StoreTypeOK
<1>3. /\ threads'[t] \in Seq(Nat)
      /\ ToSet(threads'[t]) = ToSet(threads[t]) \ {id}
      /\ \A i, j \in 1 .. Len(threads'[t]) : i < j => threads'[t][i] < threads'[t][j]
  <2>1. \A i, j \in 1 .. Len(threads[t]) : i < j => threads[t][i] < threads[t][j]
    BY <1>0 DEF StoreInv, ListsAreOrdered
  <2>2. threads[t] \in Seq(Nat) /\ id \in Nat
    BY <1>0
  <2> HIDE DEF t
  <2> QED
    BY <1>2, <2>1, <2>2, RetainDropsOne
<1>4. /\ \A u \in Threads : threads'[u] \in Seq(Nat) /\ DOMAIN threads'[u] = 1 .. Len(threads'[u])
      /\ \A u \in Threads \ {t} : ToSet(threads'[u]) = ToSet(threads[u])
  BY <1>0, <1>2, <1>3, LenProperties
<1>5. \A u \in Threads : ToSet(threads'[u]) = ToSet(threads[u]) \ {id}
  <2>1. ASSUME NEW u \in Threads \ {t}
        PROVE  id \notin ToSet(threads[u])
    <3>1. \A i \in 1 .. Len(threads[u]) : checkpoints[threads[u][i]].thread = u
      BY DEF StoreInv, ListsAreSound
    <3> QED
      BY <3>1, <1>0 DEF ToSet
  <2> QED
    BY <2>1, <1>3, <1>4
<1>6. StoreTypeOK'
  <2>1. \A u \in Threads : threads'[u] \in Seq(1 .. lastId')
    <3> SUFFICES ASSUME NEW u \in Threads
                 PROVE  threads'[u] \in Seq(1 .. lastId')
      OBVIOUS
    <3>1. \A i \in 1 .. Len(threads'[u]) : threads'[u][i] \in 1 .. lastId'
      <4> SUFFICES ASSUME NEW i \in 1 .. Len(threads'[u])
                   PROVE  threads'[u][i] \in 1 .. lastId
        BY <1>0
      <4>1. threads'[u][i] \in ToSet(threads[u])
        BY <1>4, <1>5 DEF ToSet
      <4>2. PICK j \in 1 .. Len(threads[u]) : threads'[u][i] = threads[u][j]
        BY <4>1, <1>0 DEF ToSet
      <4> QED
        BY <4>2, <1>0, ElementOfSeq
    <3>2. /\ Len(threads'[u]) \in Nat
          /\ threads'[u] = [i \in 1 .. Len(threads'[u]) |-> threads'[u][i]]
      BY <1>4, LenProperties
    <3>3. threads'[u] \in [1 .. Len(threads'[u]) -> 1 .. lastId']
      BY <3>1, <3>2
    <3> QED
      BY <3>2, <3>3, SeqDef
  <2>2. threads' \in [Threads -> Seq(1 .. lastId')]
    BY <2>1, <1>2 DEF StoreTypeOK
  <2> QED
    BY <2>2, <1>0, <1>1 DEF StoreTypeOK
<1>7. ListsAreSound'
  <2> SUFFICES ASSUME NEW u \in Threads, NEW i \in 1 .. Len(threads'[u])
               PROVE  threads'[u][i] \in Stored' /\ checkpoints'[threads'[u][i]].thread = u
    BY DEF ListsAreSound, Stored
  <2>1. threads'[u][i] \in ToSet(threads[u]) \ {id}
    BY <1>4, <1>5 DEF ToSet
  <2>2. PICK j \in 1 .. Len(threads[u]) : threads'[u][i] = threads[u][j]
    BY <2>1, <1>0 DEF ToSet
  <2> QED
    BY <2>1, <2>2, <1>1 DEF StoreInv, ListsAreSound
<1>8. ListsAreComplete'
  <2> SUFFICES ASSUME NEW x \in Stored'
               PROVE  x \in ToSet(threads'[checkpoints'[x].thread])
    BY DEF ListsAreComplete, Stored
  <2>1. x \in Stored /\ x # id /\ checkpoints'[x] = checkpoints[x]
        /\ checkpoints[x].thread \in Threads
    BY <1>1 DEF StoreTypeOK, Checkpoint
  <2> QED
    BY <2>1, <1>5 DEF StoreInv, ListsAreComplete
<1>9. ListsAreOrdered'
  BY <1>2, <1>3 DEF StoreInv, ListsAreOrdered
<1> QED
  BY <1>6, <1>7, <1>8, <1>9 DEF StoreInv

LEMMA DeleteThreadKeeps ==
  ASSUME StoreTypeOK, StoreInv, NEW t \in Threads, DeleteThread(t)
  PROVE  StoreTypeOK' /\ StoreInv'
<1>0. \A u \in Threads : DOMAIN threads[u] = 1 .. Len(threads[u])
  BY LenProperties DEF StoreTypeOK
<1>1. /\ Stored' = Stored \ ToSet(threads[t])
      /\ \A x \in Stored' : checkpoints'[x] = checkpoints[x]
      /\ checkpoints' \in [Stored' -> Checkpoint]
      /\ lastId' = lastId
  BY DEF DeleteThread, Forget, Stored, StoreTypeOK
<1>2. /\ threads' \in [Threads -> Seq(1 .. lastId')]
      /\ threads'[t] = <<>>
      /\ \A u \in Threads \ {t} : threads'[u] = threads[u]
  BY <1>1, EmptySeq DEF DeleteThread, StoreTypeOK
<1>3. StoreTypeOK'
  BY <1>1, <1>2 DEF StoreTypeOK
<1>4. ListsAreSound'
  <2> SUFFICES ASSUME NEW u \in Threads, NEW i \in 1 .. Len(threads'[u])
               PROVE  threads'[u][i] \in Stored' /\ checkpoints'[threads'[u][i]].thread = u
    BY DEF ListsAreSound, Stored
  <2>1. u # t
    BY <1>2, EmptySeq
  <2>2. threads'[u] = threads[u] /\ threads[u][i] \in Stored
        /\ checkpoints[threads[u][i]].thread = u
    BY <2>1, <1>2 DEF StoreInv, ListsAreSound
  <2>3. threads[u][i] \notin ToSet(threads[t])
    BY <2>1, <2>2, <1>0 DEF StoreInv, ListsAreSound, ToSet
  <2> QED
    BY <2>2, <2>3, <1>1
<1>5. ListsAreComplete'
  <2> SUFFICES ASSUME NEW x \in Stored'
               PROVE  x \in ToSet(threads'[checkpoints'[x].thread])
    BY DEF ListsAreComplete, Stored
  <2>1. /\ x \in Stored /\ x \notin ToSet(threads[t])
        /\ checkpoints'[x] = checkpoints[x] /\ checkpoints[x].thread \in Threads
    BY <1>1 DEF StoreTypeOK, Checkpoint
  <2>2. x \in ToSet(threads[checkpoints[x].thread])
    BY <2>1 DEF StoreInv, ListsAreComplete
  <2> QED
    BY <2>1, <2>2, <1>2
<1>6. ListsAreOrdered'
  <2> SUFFICES ASSUME NEW u \in Threads, NEW i \in 1 .. Len(threads'[u]),
                      NEW j \in 1 .. Len(threads'[u]), i < j
               PROVE  threads'[u][i] < threads'[u][j]
    BY DEF ListsAreOrdered
  <2>1. u # t
    BY <1>2, EmptySeq
  <2> QED
    BY <2>1, <1>2 DEF StoreInv, ListsAreOrdered
<1> QED
  BY <1>3, <1>4, <1>5, <1>6 DEF StoreInv

LEMMA StoreStarts ==
  ASSUME StoreInit
  PROVE  StoreTypeOK /\ StoreInv
<1>1. Stored = {}
  BY DEF StoreInit, Stored
<1>2. \A t \in Threads : threads[t] = <<>> /\ Len(threads[t]) = 0
  BY EmptySeq DEF StoreInit
<1>3. StoreTypeOK
  BY <1>1, EmptySeq DEF StoreInit, StoreTypeOK
<1>4. ListsAreSound /\ ListsAreOrdered
  BY <1>2 DEF ListsAreSound, ListsAreOrdered
<1>5. ListsAreComplete
  BY <1>1 DEF ListsAreComplete
<1> QED
  BY <1>3, <1>4, <1>5 DEF StoreInv

\* However saves and deletions follow each other, the map and the lists agree:
\* lists name exactly the stored checkpoints of their thread, oldest first.
THEOREM StoreIsConsistent == StoreSpec => [](StoreTypeOK /\ StoreInv)
<1>1. StoreInit => StoreTypeOK /\ StoreInv
  BY StoreStarts
<1>2. StoreTypeOK /\ StoreInv /\ [StoreNext]_storeVars => (StoreTypeOK /\ StoreInv)'
  <2> SUFFICES ASSUME StoreTypeOK, StoreInv, [StoreNext]_storeVars
               PROVE  (StoreTypeOK /\ StoreInv)'
    OBVIOUS
  <2>1. ASSUME NEW cp \in Checkpoint, Save(cp)
        PROVE  (StoreTypeOK /\ StoreInv)'
    BY <2>1, SaveKeeps
  <2>2. ASSUME NEW id \in Stored, Delete(id)
        PROVE  (StoreTypeOK /\ StoreInv)'
    BY <2>2, DeleteKeeps
  <2>3. ASSUME NEW t \in Threads, DeleteThread(t)
        PROVE  (StoreTypeOK /\ StoreInv)'
    BY <2>3, DeleteThreadKeeps
  <2>4. CASE UNCHANGED storeVars
    BY <2>4 DEF storeVars, StoreTypeOK, StoreInv, ListsAreSound, ListsAreComplete,
                ListsAreOrdered, Stored
  <2> QED
    BY <2>1, <2>2, <2>3, <2>4 DEF StoreNext
<1> QED
  BY <1>1, <1>2, PTL DEF StoreSpec

-----------------------------------------------------------------------------
\* The store implements a log per thread.

\* What a list of ids shows of a map, and that it shows checkpoints.
Along(ids, cps) == [i \in 1 .. Len(ids) |-> cps[ids[i]]]

Shows(ids, cps, S) == \A i \in 1 .. Len(ids) : cps[ids[i]] \in S

Agree(ids, cps, later) == \A i \in 1 .. Len(ids) : later[ids[i]] = cps[ids[i]]

LEMMA AlongIs ==
  ASSUME NEW S, NEW ids \in Seq(Nat), NEW cps, Shows(ids, cps, S)
  PROVE  /\ Along(ids, cps) \in Seq(S)
         /\ Len(Along(ids, cps)) = Len(ids)
         /\ \A i \in 1 .. Len(ids) : Along(ids, cps)[i] = cps[ids[i]]
<1>1. Len(ids) \in Nat
  BY LenProperties
<1>2. Along(ids, cps) \in [1 .. Len(ids) -> S]
  BY DEF Along, Shows
<1>3. Along(ids, cps) \in Seq(S)
  BY <1>1, <1>2, SeqDef
<1>4. Len(Along(ids, cps)) = Len(ids)
  BY <1>1, <1>2, <1>3, LenProperties
<1> QED
  BY <1>3, <1>4 DEF Along

\* An id behind a list shows one more checkpoint.
LEMMA AlongAppend ==
  ASSUME NEW S, NEW cp \in S, NEW ids \in Seq(Nat), NEW id \in Nat, NEW cps, NEW later,
         Shows(ids, cps, S), Agree(ids, cps, later), later[id] = cp
  PROVE  Along(Append(ids, id), later) = Append(Along(ids, cps), cp)
<1> DEFINE longer == Append(ids, id)
           old == Along(ids, cps)
           all == Along(longer, later)
           more == Append(old, cp)
<1>1. /\ Len(ids) \in Nat /\ longer \in Seq(Nat) /\ Len(longer) = Len(ids) + 1
      /\ \A i \in 1 .. Len(ids) : longer[i] = ids[i]
      /\ longer[Len(ids) + 1] = id
  BY AppendProperties, LenProperties
<1>2. /\ old \in Seq(S) /\ Len(old) = Len(ids)
      /\ \A i \in 1 .. Len(ids) : old[i] = cps[ids[i]]
  BY AlongIs, ZenonT(30)
<1>5. /\ more \in Seq(S) /\ Len(more) = Len(ids) + 1
      /\ \A i \in 1 .. Len(ids) : more[i] = old[i]
      /\ more[Len(ids) + 1] = cp
  BY <1>2, AppendProperties
<1> HIDE DEF longer, old, more
<1>3. ASSUME NEW i \in 1 .. Len(ids) + 1
      PROVE  later[longer[i]] \in S /\ later[longer[i]] = more[i]
  <2>1. CASE i = Len(ids) + 1
    BY <1>1, <1>5, <2>1
  <2>2. CASE i # Len(ids) + 1
    <3>1. i \in 1 .. Len(ids)
      BY <1>1, <2>2
    <3> QED
      BY <3>1, <1>1, <1>2, <1>5 DEF Shows, Agree
  <2> QED
    BY <2>1, <2>2
<1>4. Shows(longer, later, S)
  BY <1>1, <1>3 DEF Shows
<1>6. /\ all \in Seq(S) /\ Len(all) = Len(ids) + 1
      /\ \A i \in 1 .. Len(ids) + 1 : all[i] = later[longer[i]]
  BY <1>1, <1>4, AlongIs
<1> HIDE DEF all
<1>8. \A i \in 1 .. Len(ids) + 1 : all[i] = more[i]
  BY <1>3, <1>6
<1>7. all = more
  BY <1>5, <1>6, <1>8, SeqEqual
<1> QED
  BY <1>7 DEF longer, old, all, more

\* An id taken out of a list takes its checkpoint out of what it shows.
LEMMA AlongRemove ==
  ASSUME NEW S, NEW ids \in Seq(Nat), NEW k \in 1 .. Len(ids), NEW cps, NEW later,
         Shows(ids, cps, S),
         \A i \in 1 .. Len(ids) : i # k => later[ids[i]] = cps[ids[i]]
  PROVE  Along(RemoveAt(ids, k), later) = RemoveAt(Along(ids, cps), k)
<1> DEFINE shorter == RemoveAt(ids, k)
           old == Along(ids, cps)
           less == RemoveAt(old, k)
           all == Along(shorter, later)
<1>0. Len(ids) \in Nat /\ k \in Nat /\ Len(ids) - 1 \in Nat
  BY LenProperties
<1>1. /\ shorter \in Seq(Nat) /\ Len(shorter) = Len(ids) - 1
      /\ \A i \in 1 .. k - 1 : shorter[i] = ids[i]
      /\ \A i \in k .. Len(ids) - 1 : shorter[i] = ids[i + 1]
  BY RemoveAtShifts
<1>2. /\ old \in Seq(S) /\ Len(old) = Len(ids)
      /\ \A i \in 1 .. Len(ids) : old[i] = cps[ids[i]]
  BY AlongIs
<1> HIDE DEF shorter, old
<1>3. /\ less \in Seq(S) /\ Len(less) = Len(ids) - 1
      /\ \A i \in 1 .. k - 1 : less[i] = old[i]
      /\ \A i \in k .. Len(ids) - 1 : less[i] = old[i + 1]
  BY <1>2, RemoveAtShifts
<1> HIDE DEF less
<1>4. ASSUME NEW i \in 1 .. Len(ids) - 1
      PROVE  later[shorter[i]] = less[i] /\ less[i] \in S
  <2>1. CASE i < k
    <3>1. i \in 1 .. k - 1 /\ i \in 1 .. Len(ids) /\ i # k
      BY <2>1, <1>0
    <3>2. shorter[i] = ids[i] /\ less[i] = cps[ids[i]]
      BY <3>1, <1>1, <1>2, <1>3
    <3> QED
      BY <3>1, <3>2 DEF Shows
  <2>2. CASE k <= i
    <3> DEFINE j == i + 1
    <3>0. \A n, m \in Nat : \A x \in 1 .. n - 1 :
            m <= x => x \in m .. n - 1 /\ x + 1 \in 1 .. n /\ x + 1 # m
      OBVIOUS
    <3>1. i \in k .. Len(ids) - 1 /\ j \in 1 .. Len(ids) /\ j # k
      BY <2>2, <3>0, <1>0
    <3>2. shorter[i] = ids[j] /\ less[i] = cps[ids[j]]
      BY <3>1, <1>1, <1>2, <1>3
    <3> HIDE DEF j
    <3> QED
      BY <3>1, <3>2 DEF Shows
  <2> QED
    BY <2>1, <2>2, <1>0
<1>5. Shows(shorter, later, S)
  BY <1>1, <1>4 DEF Shows
<1>6. /\ all \in Seq(S) /\ Len(all) = Len(shorter)
      /\ \A i \in 1 .. Len(shorter) : all[i] = later[shorter[i]]
  BY <1>1, <1>5, AlongIs, Z3T(30)
<1> HIDE DEF all
<1>8. \A i \in 1 .. Len(ids) - 1 : all[i] = less[i]
  BY <1>1, <1>4, <1>6
<1>7. all = less
  BY <1>1, <1>3, <1>6, <1>8, SeqEqual
<1> QED
  BY <1>7 DEF shorter, old, less, all

\* What every list shows, before and after a step.
LEMMA ListsShow ==
  ASSUME StoreTypeOK, StoreInv
  PROVE  /\ Logs = [t \in Threads |-> Along(threads[t], checkpoints)]
         /\ DOMAIN Logs = Threads
         /\ \A t \in Threads :
              /\ threads[t] \in Seq(Nat) /\ Len(threads[t]) \in Nat
              /\ Shows(threads[t], checkpoints, Checkpoint)
              /\ \A i \in 1 .. Len(threads[t]) :
                   /\ threads[t][i] \in Stored /\ threads[t][i] \in 1 .. lastId
                   /\ checkpoints[threads[t][i]] \in Checkpoint
<1>1. Logs = [t \in Threads |-> Along(threads[t], checkpoints)]
  BY DEF Logs, Along
<1>2. ASSUME NEW t \in Threads
      PROVE  threads[t] \in Seq(Nat) /\ Len(threads[t]) \in Nat
  <2>1. threads[t] \in Seq(1 .. lastId) /\ 1 .. lastId \subseteq Nat
    BY DEF StoreTypeOK
  <2> QED
    BY <2>1, SeqMonotonic, LenProperties
<1> QED
  BY <1>1, <1>2 DEF StoreTypeOK, StoreInv, ListsAreSound, Shows

LEMMA SaveAppends ==
  ASSUME StoreTypeOK, StoreInv, NEW cp \in Checkpoint, Save(cp)
  PROVE  Log!Save(cp.thread)
<1> DEFINE t == cp.thread
           n == Len(Logs[t]) + 1
<1>1. /\ t \in Threads /\ lastId \in Nat /\ lastId' = lastId + 1
      /\ checkpoints'[lastId'] = cp
      /\ \A id \in Stored : checkpoints'[id] = checkpoints[id]
      /\ threads' = [threads EXCEPT ![t] = Append(threads[t], lastId')]
      /\ DOMAIN threads = Threads
  BY DEF Save, Checkpoint, StoreTypeOK, Stored
<1>2. Logs' = [u \in Threads |-> Along(threads'[u], checkpoints')]
  BY DEF Logs, Along
<1>3. \A u \in Threads \ {t} : Along(threads'[u], checkpoints') = Logs[u]
  <2> SUFFICES ASSUME NEW u \in Threads \ {t}
               PROVE  Along(threads'[u], checkpoints') = Along(threads[u], checkpoints)
    BY ListsShow
  <2>1. threads'[u] = threads[u]
    BY <1>1
  <2>2. \A i \in 1 .. Len(threads[u]) : checkpoints'[threads[u][i]] = checkpoints[threads[u][i]]
    BY <1>1, ListsShow
  <2> QED
    BY <2>1, <2>2 DEF Along
<1>4. Along(threads'[t], checkpoints') = Append(Logs[t], cp)
  <2>1. Shows(threads[t], checkpoints, Checkpoint) /\ Agree(threads[t], checkpoints, checkpoints')
    BY <1>1, ListsShow DEF Agree
  <2>2. threads[t] \in Seq(Nat) /\ lastId' \in Nat /\ Logs[t] = Along(threads[t], checkpoints)
    BY <1>1, ListsShow
  <2>3. threads'[t] = Append(threads[t], lastId')
    BY <1>1
  <2>4. checkpoints'[lastId'] = cp
    BY <1>1
  <2> HIDE DEF t
  <2>5. Along(Append(threads[t], lastId'), checkpoints') = Append(Along(threads[t], checkpoints), cp)
    <3>1. \A ids \in Seq(Nat), id \in Nat : \A cps, later :
            Shows(ids, cps, Checkpoint) /\ Agree(ids, cps, later) /\ later[id] = cp
              => Along(Append(ids, id), later) = Append(Along(ids, cps), cp)
      BY AlongAppend
    <3> QED
      BY <3>1, <2>1, <2>2, <2>4, Zenon
  <2> QED
    BY <2>2, <2>3, <2>5
<1>5. /\ Logs[t] \in Seq(Checkpoint)
      /\ n \in DOMAIN Append(Logs[t], cp) /\ Append(Logs[t], cp)[n] = cp
  <2>1. Logs[t] \in Seq(Checkpoint)
    BY <1>1, ListsShow, AlongIs
  <2>2. Append(Logs[t], cp) \in Seq(Checkpoint)
    BY <2>1, AppendProperties
  <2> QED
    BY <2>1, <2>2, AppendProperties, LenProperties
<1> HIDE DEF t, n
<1>6. Logs'[t] = Append(Logs[t], cp)
  BY <1>1, <1>2, <1>4
<1>7. Logs' = [Logs EXCEPT ![t] = Append(Logs[t], cp)]
  <2>1. [Logs EXCEPT ![t] = Append(Logs[t], cp)]
          = [u \in Threads |-> IF u = t THEN Append(Logs[t], cp) ELSE Logs[u]]
    BY ListsShow
  <2>2. Logs' = [u \in Threads |-> IF u = t THEN Append(Logs[t], cp) ELSE Logs[u]]
    BY <1>2, <1>3, <1>4
  <2> QED
    BY <2>1, <2>2
<1>8. Log!Save(t)
  BY <1>5, <1>6, <1>7 DEF Log!Save, n
<1> QED
  BY <1>8 DEF t

LEMMA DeleteTakesOut ==
  ASSUME StoreTypeOK, StoreInv, NEW id \in Stored, Delete(id)
  PROVE  Log!Delete(checkpoints[id].thread)
<1> DEFINE t == checkpoints[id].thread
<1>1. /\ t \in Threads /\ id \in Nat /\ DOMAIN threads = Threads
      /\ \A x \in Stored \ {id} : checkpoints'[x] = checkpoints[x]
      /\ threads' = [threads EXCEPT ![t] = Retain(threads[t], id)]
  BY DEF Delete, Forget, Checkpoint, StoreTypeOK, Stored
<1>2. Logs' = [u \in Threads |-> Along(threads'[u], checkpoints')]
  BY DEF Logs, Along
<1>3. \A u \in Threads \ {t} : Along(threads'[u], checkpoints') = Logs[u]
  <2> SUFFICES ASSUME NEW u \in Threads \ {t}
               PROVE  Along(threads'[u], checkpoints') = Along(threads[u], checkpoints)
    BY ListsShow
  <2>1. threads'[u] = threads[u]
    BY <1>1
  <2>2. \A i \in 1 .. Len(threads[u]) : threads[u][i] \in Stored /\ threads[u][i] # id
    BY <1>1 DEF StoreInv, ListsAreSound
  <2> QED
    BY <1>1, <2>1, <2>2 DEF Along
<1>4. PICK k \in 1 .. Len(threads[t]) : threads[t][k] = id /\ Retain(threads[t], id) = RemoveAt(threads[t], k)
  <2>1. DOMAIN threads[t] = 1 .. Len(threads[t])
    BY <1>1, ListsShow, LenProperties
  <2>2. id \in ToSet(threads[t])
    BY DEF StoreInv, ListsAreComplete
  <2>3. \E k \in 1 .. Len(threads[t]) : threads[t][k] = id
    BY <2>1, <2>2 DEF ToSet
  <2> DEFINE first == CHOOSE k \in 1 .. Len(threads[t]) : threads[t][k] = id
  <2>4. first \in 1 .. Len(threads[t]) /\ threads[t][first] = id
    BY <2>3
  <2>5. Retain(threads[t], id) = RemoveAt(threads[t], first)
    BY <2>2 DEF Retain
  <2> QED
    BY <2>4, <2>5
<1>5. /\ threads[t] \in Seq(Nat) /\ k \in Nat
      /\ Logs[t] = Along(threads[t], checkpoints)
      /\ Len(Logs[t]) = Len(threads[t])
  <2>1. threads[t] \in Seq(Nat) /\ Logs[t] = Along(threads[t], checkpoints)
    BY <1>1, ListsShow
  <2>3. Shows(threads[t], checkpoints, Checkpoint)
    BY <1>1, ListsShow
  <2>2. Len(Along(threads[t], checkpoints)) = Len(threads[t])
    BY <2>1, <2>3, AlongIs, ZenonT(30)
  <2> QED
    BY <2>1, <2>2, LenProperties
<1>6. Along(threads'[t], checkpoints') = RemoveAt(Logs[t], k)
  <2>1. ASSUME NEW i \in 1 .. Len(threads[t])
        PROVE  i # k => checkpoints'[threads[t][i]] = checkpoints[threads[t][i]]
    <3>1. threads[t][i] \in Stored
      BY <1>1, ListsShow
    <3>2. ASSUME i # k PROVE threads[t][i] # id
      <4>0. i \in Nat /\ k \in Nat /\ threads[t][i] \in Nat /\ threads[t][k] \in Nat
        BY <1>1, <1>5, ListsShow
      <4>1. i < k \/ k < i
        BY <3>2, <4>0
      <4>2. threads[t][i] < threads[t][k] \/ threads[t][k] < threads[t][i]
        BY <1>1, <4>1 DEF StoreInv, ListsAreOrdered
      <4> QED
        BY <4>0, <4>2, <1>4
    <3> QED
      BY <1>1, <3>1, <3>2
  <2>2. threads'[t] = RemoveAt(threads[t], k)
    BY <1>1, <1>4
  <2>3. Shows(threads[t], checkpoints, Checkpoint)
    BY <1>1, ListsShow
  <2> HIDE DEF t
  <2> QED
    BY <1>5, <2>1, <2>2, <2>3, AlongRemove
<1> HIDE DEF t
<1>7. Logs' = [Logs EXCEPT ![t] = RemoveAt(Logs[t], k)]
  <2>1. [Logs EXCEPT ![t] = RemoveAt(Logs[t], k)]
          = [u \in Threads |-> IF u = t THEN RemoveAt(Logs[t], k) ELSE Logs[u]]
    BY ListsShow
  <2>2. Logs' = [u \in Threads |-> IF u = t THEN RemoveAt(Logs[t], k) ELSE Logs[u]]
    BY <1>2, <1>3, <1>6
  <2> QED
    BY <2>1, <2>2
<1>8. Log!RemoveAt(Logs[t], k) = RemoveAt(Logs[t], k)
  BY DEF Log!RemoveAt, RemoveAt
<1>9. Log!Delete(t)
  BY <1>5, <1>7, <1>8 DEF Log!Delete
<1> QED
  BY <1>9 DEF t

LEMMA DeleteThreadEmpties ==
  ASSUME StoreTypeOK, StoreInv, NEW t \in Threads, DeleteThread(t)
  PROVE  Log!DeleteThread(t)
<1>1. /\ DOMAIN threads = Threads /\ threads' = [threads EXCEPT ![t] = <<>>]
      /\ \A x \in Stored \ ToSet(threads[t]) : checkpoints'[x] = checkpoints[x]
  BY DEF DeleteThread, Forget, StoreTypeOK, Stored
<1>2. Logs' = [u \in Threads |-> Along(threads'[u], checkpoints')]
  BY DEF Logs, Along
<1>3. \A u \in Threads \ {t} : Along(threads'[u], checkpoints') = Logs[u]
  <2> SUFFICES ASSUME NEW u \in Threads \ {t}
               PROVE  Along(threads'[u], checkpoints') = Along(threads[u], checkpoints)
    BY ListsShow
  <2>1. threads'[u] = threads[u]
    BY <1>1
  <2>2. DOMAIN threads[t] = 1 .. Len(threads[t])
    BY ListsShow, LenProperties
  <2>3. \A i \in 1 .. Len(threads[u]) : threads[u][i] \in Stored \ ToSet(threads[t])
    BY <2>2 DEF StoreInv, ListsAreSound, ToSet
  <2> QED
    BY <1>1, <2>1, <2>3 DEF Along
<1>4. Along(threads'[t], checkpoints') = <<>>
  <2>1. threads'[t] = <<>> /\ Len(<<>>) = 0 /\ <<>> \in Seq(Nat)
    BY <1>1, EmptySeq
  <2>3. Shows(<<>>, checkpoints', Checkpoint)
    BY <2>1 DEF Shows
  <2>2. Along(<<>>, checkpoints') \in Seq(Checkpoint) /\ Len(Along(<<>>, checkpoints')) = 0
    BY <2>1, <2>3, AlongIs, ZenonT(30)
  <2> QED
    BY <2>1, <2>2, EmptySeq
<1>5. [Logs EXCEPT ![t] = <<>>] = [u \in Threads |-> IF u = t THEN <<>> ELSE Logs[u]]
  BY ListsShow
<1>6. Logs' = [u \in Threads |-> IF u = t THEN <<>> ELSE Logs[u]]
  BY <1>2, <1>3, <1>4
<1> QED
  BY <1>5, <1>6 DEF Log!DeleteThread

\* Nothing in the store, nothing in the logs.
LEMMA LogsStart == StoreInit => Log!Init
<1> SUFFICES ASSUME StoreInit PROVE \A t \in Threads : Along(threads[t], checkpoints) = <<>>
  BY DEF Log!Init, Logs, Along
<1> TAKE t \in Threads
<1>1. threads[t] = <<>> /\ <<>> \in Seq(Nat) /\ Len(<<>>) = 0
  BY EmptySeq DEF StoreInit
<1>3. Shows(<<>>, checkpoints, Checkpoint)
  BY <1>1 DEF Shows
<1>2. Along(<<>>, checkpoints) \in Seq(Checkpoint) /\ Len(Along(<<>>, checkpoints)) = 0
  BY <1>1, <1>3, AlongIs, ZenonT(30)
<1> QED
  BY <1>1, <1>2, EmptySeq

\* So every step of the store is one of the log, or none.
LEMMA StepIsLogged ==
  ASSUME StoreTypeOK, StoreInv, [StoreNext]_storeVars
  PROVE  [Log!Next]_Logs
<1>1. ASSUME NEW cp \in Checkpoint, Save(cp)
      PROVE  Log!Next
  BY <1>1, SaveAppends DEF Log!Next, Checkpoint
<1>2. ASSUME NEW id \in Stored, Delete(id)
      PROVE  Log!Next
  <2>1. checkpoints[id].thread \in Threads
    BY DEF StoreTypeOK, Checkpoint
  <2> QED
    BY <1>2, <2>1, DeleteTakesOut DEF Log!Next
<1>3. ASSUME NEW t \in Threads, DeleteThread(t)
      PROVE  Log!Next
  BY <1>3, DeleteThreadEmpties DEF Log!Next
<1>4. CASE UNCHANGED storeVars
  BY <1>4 DEF storeVars, Logs
<1> QED
  BY <1>1, <1>2, <1>3, <1>4 DEF StoreNext

\* The map and the lists together are a log of checkpoints per thread, as the
\* Checkpointer trait promises: a save appends, a deletion takes out what it names
\* and leaves the order of the others.
THEOREM StoreKeepsTheLog == StoreSpec => ImplementsLog
<1>1. StoreTypeOK /\ StoreInv /\ [StoreNext]_storeVars => [Log!Next]_Logs
  BY StepIsLogged
<1> QED
  BY <1>1, StoreIsConsistent, LogsStart, PTL DEF StoreSpec, ImplementsLog, Log!Spec
=============================================================================
