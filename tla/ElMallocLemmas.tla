--------------------------- MODULE ElMallocLemmas ---------------------------
(***************************************************************************)
(* What the proofs of the allocator rest on.  A sound heap is a chain: the *)
(* map from a block to where it ends, by which the code walks upwards.     *)
(* Splitting, merging and growth keep chains, footers and areas of memory; *)
(* and this is what the operations make of the record of a heap.           *)
(***************************************************************************)
EXTENDS ElMalloc, Numbers

LEMMA Overhead ==
  /\ HeadLen \in Nat /\ FootLen \in Nat /\ HeadLen > 0 /\ FootLen > 0
  /\ EL_BLOCK_OVERHEAD \in Nat /\ EL_BLOCK_OVERHEAD > 0
  /\ EL_BLOCK_OVERHEAD = HeadLen + FootLen
BY TagsAssumption DEF EL_BLOCK_OVERHEAD

-----------------------------------------------------------------------------
(* Lists.                                                                  *)

Without(s, i) == SubSeq(s, 1, i - 1) \o SubSeq(s, i + 1, Len(s))

LEMMA RemovedAt ==
  ASSUME NEW S, NEW s \in Seq(S), NEW i \in DOMAIN s
  PROVE  /\ Without(s, i) \in Seq(S)
         /\ Len(Without(s, i)) = Len(s) - 1
         /\ \A j \in 1 .. Len(s) - 1 : Without(s, i)[j] = IF j < i THEN s[j] ELSE s[j + 1]
<1> DEFINE u == SubSeq(s, 1, i-1)
           v == SubSeq(s, i+1, Len(s))
<1>1. i \in 1 .. Len(s) /\ Len(s) \in Nat /\ \A k \in 1 .. Len(s) : s[k] \in S
  OBVIOUS
<1>2. u \in Seq(S) /\ Len(u) = i - 1 /\ \A k \in 1 .. i - 1 : u[k] = s[k]
  BY <1>1
<1>3. v \in Seq(S) /\ Len(v) = Len(s) - i /\ \A k \in 1 .. Len(s) - i : v[k] = s[i + k]
  BY <1>1
<1>4. Without(s, i) = u \o v
  BY DEF Without
<1> HIDE DEF u, v
<1> QED BY <1>1, <1>2, <1>3, <1>4

\* Unlinking a block of a list takes that block out and no other.
LEMMA UnlinkedList ==
  ASSUME NEW S, NEW s \in Seq(S), IsInjective(s), NEW b \in Range(s)
  PROVE  /\ Unlinked(s, b) \in Seq(S)
         /\ IsInjective(Unlinked(s, b))
         /\ Range(Unlinked(s, b)) = Range(s) \ {b}
<1> DEFINE i == CHOOSE j \in DOMAIN s : s[j] = b
           r == Without(s, i)
<1>1. i \in DOMAIN s /\ s[i] = b
  BY DEF Range
<1>2. Unlinked(s, b) = r
  BY DEF Unlinked, Without
<1> HIDE DEF i
<1>3. r \in Seq(S) /\ Len(r) = Len(s) - 1
      /\ \A j \in 1 .. Len(s) - 1 : r[j] = IF j < i THEN s[j] ELSE s[j + 1]
  BY <1>1, RemovedAt
<1> SUFFICES r \in Seq(S) /\ IsInjective(r) /\ Range(r) = Range(s) \ {b}
  BY <1>2
<1> HIDE DEF r
<1>4. DOMAIN s = 1 .. Len(s) /\ Len(s) \in Nat /\ DOMAIN r = 1 .. Len(s) - 1 /\ i \in 1 .. Len(s)
  BY <1>1, <1>3
<1>5. IsInjective(r)
  <2> SUFFICES ASSUME NEW j \in 1 .. Len(s) - 1, NEW k \in 1 .. Len(s) - 1, r[j] = r[k]
               PROVE  j = k
    BY <1>4 DEF IsInjective
  <2> DEFINE at(x) == IF x < i THEN x ELSE x + 1
  <2>1. at(j) \in DOMAIN s /\ at(k) \in DOMAIN s /\ s[at(j)] = s[at(k)]
    BY <1>3, <1>4
  <2>2. at(j) = at(k)
    <3> HIDE DEF at
    <3> QED BY <2>1 DEF IsInjective
  <2> QED BY <1>4, <2>2
<1>6. \A x \in Range(r) : x \in Range(s) \ {b}
  <2> SUFFICES ASSUME NEW j \in 1 .. Len(s) - 1 PROVE r[j] \in Range(s) /\ r[j] # b
    BY <1>4 DEF Range
  <2> DEFINE k == IF j < i THEN j ELSE j + 1
  <2>1. k \in DOMAIN s /\ k # i /\ r[j] = s[k]
    BY <1>3, <1>4
  <2> QED BY <1>1, <2>1 DEF Range, IsInjective
<1>7. \A x \in Range(s) \ {b} : x \in Range(r)
  <2> SUFFICES ASSUME NEW k \in DOMAIN s, s[k] # b PROVE s[k] \in Range(r)
    BY DEF Range
  <2> DEFINE j == IF k < i THEN k ELSE k - 1
  <2>1. k # i
    BY <1>1
  <2>2. j \in 1 .. Len(s) - 1 /\ (IF j < i THEN j ELSE j + 1) = k
    BY <1>4, <2>1
  <2>3. r[j] = s[k]
    BY <1>3, <2>2
  <2> QED BY <1>4, <2>2, <2>3 DEF Range
<1> QED BY <1>3, <1>5, <1>6, <1>7

\* A block that is not on a list goes to its front.
LEMMA FrontedList ==
  ASSUME NEW S, NEW s \in Seq(S), IsInjective(s), NEW b \in S, b \notin Range(s)
  PROVE  /\ <<b>> \o s \in Seq(S)
         /\ IsInjective(<<b>> \o s)
         /\ Range(<<b>> \o s) = Range(s) \cup {b}
<1> DEFINE r == <<b>> \o s
<1>1. /\ r \in Seq(S) /\ Len(r) = Len(s) + 1 /\ r[1] = b
      /\ \A j \in 2 .. Len(s) + 1 : r[j] = s[j - 1]
  OBVIOUS
<1> SUFFICES r \in Seq(S) /\ IsInjective(r) /\ Range(r) = Range(s) \cup {b}
  OBVIOUS
<1> HIDE DEF r
<1>2. DOMAIN s = 1 .. Len(s) /\ Len(s) \in Nat /\ DOMAIN r = 1 .. Len(s) + 1
  BY <1>1
<1>3. \A j \in 2 .. Len(s) + 1 : r[j] \in Range(s)
  BY <1>1, <1>2 DEF Range
<1>4. IsInjective(r)
  <2> SUFFICES ASSUME NEW j \in DOMAIN r, NEW k \in DOMAIN r, r[j] = r[k] PROVE j = k
    BY DEF IsInjective
  <2>1. CASE j = 1 \/ k = 1
    BY <1>1, <1>2, <1>3, <2>1
  <2>2. CASE j # 1 /\ k # 1
    <3>1. j - 1 \in DOMAIN s /\ k - 1 \in DOMAIN s /\ s[j - 1] = s[k - 1]
      BY <1>1, <1>2, <2>2
    <3>2. j - 1 = k - 1
      BY <3>1 DEF IsInjective
    <3> QED BY <1>2, <3>2
  <2> QED BY <2>1, <2>2
<1>5. \A x \in Range(s) : x \in Range(r)
  <2> SUFFICES ASSUME NEW k \in DOMAIN s PROVE s[k] \in Range(r)
    BY DEF Range
  <2>1. k + 1 \in DOMAIN r /\ r[k + 1] = s[k]
    BY <1>1, <1>2
  <2> QED BY <2>1 DEF Range
<1>6. \A x \in Range(r) : x = b \/ x \in Range(s)
  BY <1>1, <1>2, <1>3 DEF Range
<1>7. b \in Range(r)
  BY <1>1, <1>2 DEF Range
<1> QED BY <1>1, <1>4, <1>5, <1>6, <1>7

\* The search of el_find_first_avail ends at a block of the list that is large enough, if
\* there is one.
LEMMA FirstAvail ==
  ASSUME NEW h, h.avail \in Seq(Nat), NEW n \in Nat
  PROVE  LET b == FindFirstAvail(h, n)
         IN \/ b = NULL /\ \A x \in Range(h.avail) : ~ (h.head[x].size >= n)
            \/ b \in Range(h.avail) /\ h.head[b].size >= n
<1> DEFINE fits == {i \in DOMAIN h.avail : h.head[h.avail[i]].size >= n}
<1>1. FindFirstAvail(h, n) = IF fits = {} THEN NULL ELSE h.avail[Min(fits)]
  BY DEF FindFirstAvail
<1>2. CASE fits = {}
  BY <1>1, <1>2, Zenon DEF Range
<1>3. CASE fits # {}
  <2>1. fits \in SUBSET Nat
    OBVIOUS
  <2>2. Min(fits) \in fits
    <3> HIDE DEF fits
    <3> QED BY <1>3, <2>1, NatMin
  <2> QED BY <1>1, <1>3, <2>2, Zenon DEF Range
<1> QED BY <1>2, <1>3

-----------------------------------------------------------------------------
(* Chains.  N gives, for each block of D, the address after it.            *)

Chained(D, N, lo, hi) ==
  /\ lo \in Nat /\ hi \in Nat /\ D \in SUBSET Nat /\ N \in [D -> Nat] /\ lo \in D
  /\ \A b \in D : lo <= b /\ b + EL_BLOCK_OVERHEAD <= N[b] /\ N[b] <= hi
  /\ \A b \in D : N[b] = hi \/ N[b] \in D
  /\ \A b \in D : b = lo \/ \E c \in D : N[c] = b
  /\ \A b, c \in D : b < c => N[b] <= c

LEMMA ChainFacts ==
  ASSUME NEW D, NEW N, NEW lo, NEW hi, Chained(D, N, lo, hi)
  PROVE  /\ hi \notin D /\ lo < hi
         /\ \A b \in D : b \in Nat /\ N[b] \in Nat /\ b < N[b] /\ lo <= b /\ N[b] <= hi
         /\ \A b, c \in D : N[b] = N[c] => b = c
         /\ \A b, c \in D : b <= c /\ c < N[b] => b = c
<1>1. \A b \in D : b \in Nat /\ N[b] \in Nat /\ b < N[b] /\ lo <= b /\ N[b] <= hi
  BY Overhead DEF Chained
<1>2. hi \notin D /\ lo < hi
  BY <1>1 DEF Chained
<1>3. \A b, c \in D : b < c => N[b] <= c
  BY DEF Chained
<1>4. \A b, c \in D : N[b] = N[c] => b = c
  <2> SUFFICES ASSUME NEW b \in D, NEW c \in D, N[b] = N[c], b # c PROVE FALSE
    OBVIOUS
  <2>1. b < c \/ c < b
    BY <1>1
  <2> QED BY <1>1, <1>3, <2>1
<1>5. \A b, c \in D : b <= c /\ c < N[b] => b = c
  BY <1>1, <1>3
<1> QED BY <1>1, <1>2, <1>4, <1>5

\* Cutting the block b in two at m.
CutAt(D, N, M, b, m) ==
  /\ M \in [D \cup {m} -> Nat] /\ M[b] = m /\ M[m] = N[b]
  /\ \A c \in D \ {b} : M[c] = N[c]

LEMMA ChainSplit ==
  ASSUME NEW D, NEW N, NEW lo, NEW hi, Chained(D, N, lo, hi),
         NEW b \in D, NEW m \in Nat, b + EL_BLOCK_OVERHEAD <= m, m + EL_BLOCK_OVERHEAD <= N[b],
         NEW M, CutAt(D, N, M, b, m)
  PROVE  m \notin D /\ Chained(D \cup {m}, M, lo, hi)
<1> USE DEF CutAt
<1> DEFINE E == D \cup {m}
<1>0. EL_BLOCK_OVERHEAD \in Nat /\ EL_BLOCK_OVERHEAD > 0
  BY Overhead
<1>1. lo \in Nat /\ hi \in Nat /\ D \in SUBSET Nat /\ N \in [D -> Nat] /\ lo \in D
  BY DEF Chained
<1>2. /\ \A c \in D : lo <= c /\ c + EL_BLOCK_OVERHEAD <= N[c] /\ N[c] <= hi
      /\ \A c \in D : N[c] = hi \/ N[c] \in D
      /\ \A c \in D : c = lo \/ \E d \in D : N[d] = c
      /\ \A c, d \in D : c < d => N[c] <= d
  BY DEF Chained
<1>3. b \in Nat /\ N[b] \in Nat /\ b < m /\ m < N[b]
  BY <1>0, <1>1
<1>4. m \notin D
  BY <1>0, <1>1, <1>2, <1>3, ChainFacts
<1>5. \A c \in E : lo <= c /\ c + EL_BLOCK_OVERHEAD <= M[c] /\ M[c] <= hi
  BY <1>0, <1>1, <1>2, <1>3
<1>6. \A c \in E : M[c] = hi \/ M[c] \in E
  BY <1>2
<1>7. \A c \in E : c = lo \/ \E d \in E : M[d] = c
  <2> SUFFICES ASSUME NEW c \in D, c # lo PROVE \E d \in E : M[d] = c
    OBVIOUS
  <2>1. PICK d \in D : N[d] = c
    BY <1>2
  <2>2. CASE d = b
    BY <2>1, <2>2
  <2>3. CASE d # b
    BY <2>1, <2>3
  <2> QED BY <2>2, <2>3
<1>8. \A c, d \in E : c < d => M[c] <= d
  <2> SUFFICES ASSUME NEW c \in E, NEW d \in E, c < d PROVE M[c] <= d
    OBVIOUS
  <2>1. CASE c = m
    <3>1. d \in D /\ b < d
      BY <1>1, <1>3, <2>1
    <3> QED BY <1>2, <2>1, <3>1
  <2>2. CASE c = b
    <3>1. d = m \/ (d \in D /\ N[b] <= d)
      BY <1>2, <2>2
    <3> QED BY <1>1, <1>3, <2>2, <3>1
  <2>3. CASE c \in D \ {b}
    <3>1. M[c] = N[c]
      BY <2>3
    <3>2. CASE d \in D
      BY <1>2, <2>3, <3>1, <3>2
    <3>3. CASE d = m
      <4>1. c < b
        <5>1. c \in Nat /\ (c < b \/ b < c)
          BY <1>1, <1>3, <2>3
        <5>2. b < c => N[b] <= c
          BY <1>2, <2>3
        <5> QED BY <1>3, <3>3, <5>1, <5>2
      <4>2. N[c] <= b /\ N[c] \in Nat
        BY <1>1, <1>2, <2>3, <4>1
      <4> QED BY <1>3, <3>1, <3>3, <4>2
    <3> QED BY <3>2, <3>3
  <2> QED BY <2>1, <2>2, <2>3
<1> QED BY <1>1, <1>4, <1>5, <1>6, <1>7, <1>8 DEF Chained

\* The block b swallows the block above it.
LEMMA ChainMerge ==
  ASSUME NEW D, NEW N, NEW lo, NEW hi, Chained(D, N, lo, hi),
         NEW b \in D, N[b] \in D,
         NEW M, M \in [D \ {N[b]} -> Nat], M[b] = N[N[b]],
         \A c \in D \ {b, N[b]} : M[c] = N[c]
  PROVE  Chained(D \ {N[b]}, M, lo, hi)
<1> DEFINE u == N[b]
           E == D \ {u}
<1>0. EL_BLOCK_OVERHEAD \in Nat /\ EL_BLOCK_OVERHEAD > 0
  BY Overhead
<1>1. lo \in Nat /\ hi \in Nat /\ D \in SUBSET Nat /\ N \in [D -> Nat] /\ lo \in D
  BY DEF Chained
<1>2. /\ \A c \in D : lo <= c /\ c + EL_BLOCK_OVERHEAD <= N[c] /\ N[c] <= hi
      /\ \A c \in D : N[c] = hi \/ N[c] \in D
      /\ \A c \in D : c = lo \/ \E d \in D : N[d] = c
      /\ \A c, d \in D : c < d => N[c] <= d
  BY DEF Chained
<1>3. b \in Nat /\ u \in Nat /\ N[u] \in Nat /\ b < u /\ u < N[u] /\ u # b
  BY <1>0, <1>1, <1>2
<1>4. lo \in E /\ b \in E
  BY <1>1, <1>2, <1>3
<1>9. \A c, d \in D : N[c] = N[d] => c = d
  BY ChainFacts
<1> HIDE DEF u
<1>10. N[b] = u /\ u \in D
  BY DEF u
<1>11. M \in [E -> Nat] /\ M[b] = N[u] /\ \A c \in E \ {b} : M[c] = N[c]
  BY DEF u
<1>5. \A c \in E : lo <= c /\ c + EL_BLOCK_OVERHEAD <= M[c] /\ M[c] <= hi
  BY <1>0, <1>1, <1>2, <1>3, <1>10, <1>11
<1>6. \A c \in E : M[c] = hi \/ M[c] \in E
  <2> SUFFICES ASSUME NEW c \in E PROVE M[c] = hi \/ M[c] \in E
    OBVIOUS
  <2>1. CASE c = b
    BY <1>2, <1>3, <1>10, <1>11, <2>1
  <2>2. CASE c # b
    BY <1>2, <1>9, <1>10, <1>11, <2>2
  <2> QED BY <2>1, <2>2
<1>7. \A c \in E : c = lo \/ \E d \in E : M[d] = c
  <2> SUFFICES ASSUME NEW c \in E, c # lo PROVE \E d \in E : M[d] = c
    OBVIOUS
  <2>1. PICK d \in D : N[d] = c
    BY <1>2
  <2>2. CASE d = u
    BY <1>4, <1>11, <2>1, <2>2
  <2>3. CASE d # u
    BY <1>10, <1>11, <2>1, <2>3
  <2> QED BY <2>2, <2>3
<1>8. \A c, d \in E : c < d => M[c] <= d
  <2> SUFFICES ASSUME NEW c \in E, NEW d \in E, c < d PROVE M[c] <= d
    OBVIOUS
  <2>1. CASE c = b
    <3>1. u <= d /\ d # u
      BY <1>2, <1>10, <2>1
    <3>2. u < d
      BY <1>1, <1>3, <3>1
    <3>3. N[u] <= d
      BY <1>2, <1>10, <3>2
    <3> QED BY <1>11, <2>1, <3>3
  <2>2. CASE c # b
    BY <1>2, <1>11, <2>2
  <2> QED BY <2>1, <2>2
<1> QED BY <1>1, <1>4, <1>5, <1>6, <1>7, <1>8, <1>11, Zenon DEF Chained, u

\* A slab next to the end is one more block.
LEMMA ChainAppend ==
  ASSUME NEW D, NEW N, NEW lo, NEW hi, Chained(D, N, lo, hi),
         NEW end \in Nat, hi + EL_BLOCK_OVERHEAD <= end,
         NEW M, M \in [D \cup {hi} -> Nat], M[hi] = end, \A c \in D : M[c] = N[c]
  PROVE  Chained(D \cup {hi}, M, lo, end)
<1>0. EL_BLOCK_OVERHEAD \in Nat /\ EL_BLOCK_OVERHEAD > 0
  BY Overhead
<1>1. lo \in Nat /\ hi \in Nat /\ D \in SUBSET Nat /\ N \in [D -> Nat] /\ lo \in D
  BY DEF Chained
<1>2. /\ \A c \in D : lo <= c /\ c + EL_BLOCK_OVERHEAD <= N[c] /\ N[c] <= hi
      /\ \A c \in D : N[c] = hi \/ N[c] \in D
      /\ \A c \in D : c = lo \/ \E d \in D : N[d] = c
      /\ \A c, d \in D : c < d => N[c] <= d
  BY DEF Chained
<1>3. \A c \in D : c \in Nat /\ N[c] \in Nat /\ c < N[c] /\ c < hi
  BY <1>0, <1>1, <1>2
<1>4. \A c \in D \cup {hi} : lo <= c /\ c + EL_BLOCK_OVERHEAD <= M[c] /\ M[c] <= end
  BY <1>0, <1>1, <1>2, <1>3
<1>5. \A c \in D \cup {hi} : M[c] = end \/ M[c] \in D \cup {hi}
  BY <1>2
<1>8. \E d \in D : N[d] = hi
  <2> SUFFICES ASSUME \A d \in D : N[d] # hi PROVE FALSE
    OBVIOUS
  <2> DEFINE Far == {hi - d : d \in D}
  <2>1. Far \in SUBSET Nat /\ Far # {}
    BY <1>1, <1>3
  <2>2. Min(Far) \in Far /\ \A y \in Far : Min(Far) <= y
    <3> HIDE DEF Far
    <3> QED BY <2>1, NatMin
  <2>3. PICK d \in D : \A c \in D : hi - d <= hi - c
    BY <2>2, Zenon
  <2>4. N[d] \in D
    BY <1>2
  <2> QED BY <1>1, <1>3, <2>3, <2>4
<1>6. \A c \in D \cup {hi} : c = lo \/ \E d \in D \cup {hi} : M[d] = c
  <2>1. \A c \in D : c = lo \/ \E d \in D : M[d] = c
    BY <1>2
  <2>2. \E d \in D : M[d] = hi
    BY <1>8
  <2> QED BY <2>1, <2>2
<1>7. \A c, d \in D \cup {hi} : c < d => M[c] <= d
  <2> SUFFICES ASSUME NEW c \in D \cup {hi}, NEW d \in D \cup {hi}, c < d PROVE M[c] <= d
    OBVIOUS
  <2>1. c \in D
    BY <1>1, <1>3
  <2>2. CASE d \in D
    BY <1>2, <2>1, <2>2
  <2>3. CASE d = hi
    BY <1>2, <2>1, <2>3
  <2> QED BY <2>2, <2>3
<1> QED BY <1>1, <1>4, <1>5, <1>6, <1>7 DEF Chained

-----------------------------------------------------------------------------
(* Footers.                                                                *)

Footed(N, foot) ==
  /\ DOMAIN foot = {N[b] - FootLen : b \in DOMAIN N}
  /\ \A b \in DOMAIN N : foot[N[b] - FootLen] = N[b] - b - EL_BLOCK_OVERHEAD

LEMMA FootSplit ==
  ASSUME NEW D, NEW N, NEW lo, NEW hi, Chained(D, N, lo, hi), NEW foot, Footed(N, foot),
         NEW b \in D, NEW m \in Nat, b < m, m < N[b],
         NEW M, CutAt(D, N, M, b, m), NEW foot2,
         foot2 = Written(Written(foot, m - FootLen, m - b - EL_BLOCK_OVERHEAD),
                         N[b] - FootLen, N[b] - m - EL_BLOCK_OVERHEAD)
  PROVE  Footed(M, foot2)
<1> USE DEF CutAt
<1> DEFINE F == Written(foot, m - FootLen, m - b - EL_BLOCK_OVERHEAD)
           G == Written(F, N[b] - FootLen, N[b] - m - EL_BLOCK_OVERHEAD)
<1>0. FootLen \in Nat
  BY Overhead
<1>1. DOMAIN N = D /\ DOMAIN M = D \cup {m}
  BY DEF Chained
<1>11. \A c, d \in D : c < d => N[c] <= d
  BY DEF Chained
<1>2. /\ \A c \in D : c \in Nat /\ N[c] \in Nat
      /\ \A c, d \in D : N[c] = N[d] => c = d
      /\ \A c, d \in D : c < d => N[c] <= d
      /\ \A c \in D : c < N[c]
  BY <1>11, ChainFacts
<1>3. \A c \in D : N[c] # m
  <2> SUFFICES ASSUME NEW c \in D, N[c] = m PROVE FALSE
    OBVIOUS
  <2>1. c # b /\ (c < b \/ b < c)
    BY <1>2
  <2> QED BY <1>2, <2>1
<1>4. \A x \in D : foot[N[x] - FootLen] = N[x] - x - EL_BLOCK_OVERHEAD
  BY <1>1 DEF Footed
<1>5. DOMAIN foot = {N[c] - FootLen : c \in D}
  BY <1>1 DEF Footed
<1>6. DOMAIN G = {N[c] - FootLen : c \in D} \cup {m - FootLen}
  BY <1>5 DEF Written
<1>7. DOMAIN G = {M[c] - FootLen : c \in D \cup {m}}
  BY <1>6
<1>8. G[M[m] - FootLen] = M[m] - m - EL_BLOCK_OVERHEAD
  BY DEF Written
<1>9. G[M[b] - FootLen] = M[b] - b - EL_BLOCK_OVERHEAD
  <2>1. m - FootLen # N[b] - FootLen
    BY <1>0, <1>2
  <2> QED BY <2>1 DEF Written
<1>10. \A c \in D \ {b} : G[M[c] - FootLen] = M[c] - c - EL_BLOCK_OVERHEAD
  <2> SUFFICES ASSUME NEW c \in D \ {b}
               PROVE  G[N[c] - FootLen] = N[c] - c - EL_BLOCK_OVERHEAD
    OBVIOUS
  <2>1. N[c] # N[b] /\ N[c] # m
    BY <1>2, <1>3
  <2>2. N[c] - FootLen # N[b] - FootLen /\ N[c] - FootLen # m - FootLen
    BY <1>0, <1>2, <2>1
  <2>3. N[c] - FootLen \in DOMAIN foot
    BY <1>5
  <2> QED BY <1>4, <2>2, <2>3 DEF Written
<1> SUFFICES Footed(M, G)
  OBVIOUS
<1> HIDE DEF G
<1> QED BY <1>1, <1>7, <1>8, <1>9, <1>10 DEF Footed

LEMMA FootMerge ==
  ASSUME NEW D, NEW N, NEW lo, NEW hi, Chained(D, N, lo, hi), NEW foot, Footed(N, foot),
         NEW b \in D, N[b] \in D,
         NEW M, M \in [D \ {N[b]} -> Nat], M[b] = N[N[b]],
         \A c \in D \ {b, N[b]} : M[c] = N[c]
  PROVE  Footed(M, Written(Restrict(foot, DOMAIN foot \ {N[b] - FootLen}),
                           N[N[b]] - FootLen, N[N[b]] - b - EL_BLOCK_OVERHEAD))
<1> DEFINE u == N[b]
           F == Restrict(foot, DOMAIN foot \ {u - FootLen})
           G == Written(F, N[u] - FootLen, N[u] - b - EL_BLOCK_OVERHEAD)
<1>0. FootLen \in Nat
  BY Overhead
<1>1. DOMAIN N = D /\ DOMAIN M = D \ {u}
  BY DEF Chained
<1>2. /\ \A c \in D : c \in Nat /\ N[c] \in Nat
      /\ \A c, d \in D : N[c] = N[d] => c = d
      /\ \A c \in D : c < N[c]
  BY ChainFacts
<1>4. \A x \in D : foot[N[x] - FootLen] = N[x] - x - EL_BLOCK_OVERHEAD
  BY <1>1 DEF Footed
<1>5. DOMAIN foot = {N[c] - FootLen : c \in D}
  BY <1>1 DEF Footed
<1>3. u \in D /\ b # u /\ N[b] = u /\ N[u] # u
  BY <1>2
<1>11. M[b] = N[u] /\ \A c \in D \ {b, u} : M[c] = N[c]
  OBVIOUS
<1> HIDE DEF u
<1>6. DOMAIN G = (DOMAIN foot \ {u - FootLen}) \cup {N[u] - FootLen}
  BY DEF Written, Restrict
<1>12. \A c \in D \ {b} : N[c] - FootLen # u - FootLen
  BY <1>0, <1>2, <1>3
<1>7. DOMAIN G = {M[c] - FootLen : c \in D \ {u}}
  <2> HIDE DEF G
  <2>1. \A x \in DOMAIN G : x \in {M[c] - FootLen : c \in D \ {u}}
    <3> SUFFICES ASSUME NEW x \in DOMAIN G PROVE \E c \in D \ {u} : x = M[c] - FootLen
      OBVIOUS
    <3>1. CASE x = N[u] - FootLen
      BY <1>3, <1>11, <3>1
    <3>2. CASE x # N[u] - FootLen
      <4>1. PICK c \in D : x = N[c] - FootLen /\ x # u - FootLen
        BY <1>5, <1>6, <3>2
      <4>2. c # b /\ c # u
        BY <1>3, <3>2, <4>1
      <4> QED BY <1>11, <4>1, <4>2
    <3> QED BY <3>1, <3>2
  <2>2. \A c \in D \ {u} : M[c] - FootLen \in DOMAIN G
    BY <1>5, <1>6, <1>11, <1>12
  <2> QED BY <2>1, <2>2
<1>8. G[M[b] - FootLen] = M[b] - b - EL_BLOCK_OVERHEAD
  BY <1>11 DEF Written
<1>10. \A c \in D \ {b, u} : G[M[c] - FootLen] = M[c] - c - EL_BLOCK_OVERHEAD
  <2> SUFFICES ASSUME NEW c \in D \ {b, u}
               PROVE  G[N[c] - FootLen] = N[c] - c - EL_BLOCK_OVERHEAD
    BY <1>11
  <2>1. N[c] # N[u]
    BY <1>2, <1>3
  <2>2. N[c] - FootLen # N[u] - FootLen /\ N[c] - FootLen # u - FootLen
    BY <1>0, <1>2, <1>3, <1>12, <2>1
  <2>3. N[c] - FootLen \in DOMAIN foot
    BY <1>5
  <2> QED BY <1>4, <2>2, <2>3 DEF Written, Restrict
<1> SUFFICES Footed(M, G)
  BY DEF u
<1> HIDE DEF G
<1> QED BY <1>1, <1>3, <1>7, <1>8, <1>10 DEF Footed

LEMMA FootAppend ==
  ASSUME NEW D, NEW N, NEW lo, NEW hi, Chained(D, N, lo, hi), NEW foot, Footed(N, foot),
         NEW end \in Nat, hi < end,
         NEW M, M \in [D \cup {hi} -> Nat], M[hi] = end, \A c \in D : M[c] = N[c]
  PROVE  Footed(M, Written(foot, end - FootLen, end - hi - EL_BLOCK_OVERHEAD))
<1> DEFINE G == Written(foot, end - FootLen, end - hi - EL_BLOCK_OVERHEAD)
<1>0. FootLen \in Nat /\ hi \in Nat
  BY Overhead DEF Chained
<1>1. DOMAIN N = D /\ DOMAIN M = D \cup {hi}
  BY DEF Chained
<1>2. \A c \in D : c \in Nat /\ N[c] \in Nat /\ N[c] <= hi
  BY ChainFacts
<1>4. \A x \in D : foot[N[x] - FootLen] = N[x] - x - EL_BLOCK_OVERHEAD
  BY <1>1 DEF Footed
<1>5. DOMAIN foot = {N[c] - FootLen : c \in D}
  BY <1>1 DEF Footed
<1>6. DOMAIN G = {M[c] - FootLen : c \in D \cup {hi}}
  BY <1>5 DEF Written
<1>7. G[M[hi] - FootLen] = M[hi] - hi - EL_BLOCK_OVERHEAD
  BY DEF Written
<1>8. \A c \in D : G[M[c] - FootLen] = M[c] - c - EL_BLOCK_OVERHEAD
  <2> SUFFICES ASSUME NEW c \in D PROVE G[N[c] - FootLen] = N[c] - c - EL_BLOCK_OVERHEAD
    OBVIOUS
  <2>1. N[c] - FootLen # end - FootLen
    BY <1>0, <1>2
  <2>2. N[c] - FootLen \in DOMAIN foot
    BY <1>5
  <2> QED BY <1>4, <2>1, <2>2 DEF Written
<1> SUFFICES Footed(M, G)
  OBVIOUS
<1> HIDE DEF G
<1> QED BY <1>1, <1>6, <1>7, <1>8 DEF Footed

-----------------------------------------------------------------------------
(* Areas of memory, and how many units they have.                          *)

Area(N, S) == UNION {b .. N[b] - 1 : b \in S}

LEMMA AreaSame ==
  ASSUME NEW N, NEW M, NEW S, \A b \in S : M[b] = N[b]
  PROVE  Area(M, S) = Area(N, S)
BY DEF Area

\* A block adds its length to the area of the others.
LEMMA AreaCount ==
  ASSUME NEW D, NEW N, NEW lo, NEW hi, Chained(D, N, lo, hi),
         NEW S \in SUBSET D, NEW b \in S, NEW T, T = S \ {b}
  PROVE  /\ Cardinality(Area(N, T)) \in Nat
         /\ Cardinality(Area(N, S)) = Cardinality(Area(N, T)) + (N[b] - b)
<1> DEFINE A == Area(N, T)
           I == b .. N[b] - 1
<1>0. lo \in Nat /\ hi \in Nat
  BY DEF Chained
<1>9. \A c, d \in D : c < d => N[c] <= d
  BY DEF Chained
<1>1. /\ \A c \in D : c \in Nat /\ N[c] \in Nat /\ c < N[c] /\ lo <= c /\ N[c] <= hi
      /\ \A c, d \in D : c < d => N[c] <= d
  BY <1>9, ChainFacts
<1>2. Area(N, S) = A \cup I
  BY DEF Area
<1>3. A \cap I = {}
  <2> SUFFICES ASSUME NEW c \in S \ {b}, NEW x \in c .. N[c] - 1, x \in b .. N[b] - 1
               PROVE  FALSE
    BY DEF Area
  <2>1. c \in D /\ b \in D /\ c # b
    OBVIOUS
  <2>2. c < b \/ b < c
    BY <1>1, <2>1
  <2>3. N[c] <= b \/ N[b] <= c
    BY <1>1, <2>1, <2>2
  <2> QED BY <1>1, <2>1, <2>3
<1>4. IsFiniteSet(A)
  <2>1. A \subseteq lo .. hi
    <3> SUFFICES ASSUME NEW c \in S \ {b}, NEW x \in c .. N[c] - 1 PROVE x \in lo .. hi
      BY DEF Area
    <3> QED BY <1>0, <1>1
  <2>2. IsFiniteSet(lo .. hi)
    BY <1>0, FS_Interval
  <2> HIDE DEF A
  <2> QED BY <2>1, <2>2, FS_Subset, Zenon
<1>5. IsFiniteSet(I) /\ Cardinality(I) = N[b] - b
  <2>1. b \in D /\ b \in Int /\ N[b] - 1 \in Int /\ b <= N[b] - 1
    BY <1>1
  <2>2. IsFiniteSet(I) /\ Cardinality(I) = N[b] - 1 - b + 1
    BY <2>1, FS_Interval
  <2> QED BY <1>1, <2>1, <2>2
<1> HIDE DEF A, I
<1>6. Cardinality(A) \in Nat /\ Cardinality(I) \in Nat
  BY <1>4, <1>5, FS_CardinalityType
<1>7. Cardinality(A \cup I) = Cardinality(A) + Cardinality(I) - Cardinality(A \cap I)
  BY <1>4, <1>5, FS_Union
<1>8. Cardinality(A \cap I) = 0
  BY <1>3, FS_EmptySet
<1> QED BY <1>2, <1>5, <1>6, <1>7, <1>8 DEF A

-----------------------------------------------------------------------------
(* Heaps.                                                                  *)

HeapOf(start, end, head, foot, avail, used, availBytes, usedBytes) ==
  [start |-> start, end |-> end, head |-> head, foot |-> foot, avail |-> avail, used |-> used,
   bytes |-> [avail |-> availBytes, used |-> usedBytes]]

HeapRecord(h) ==
  h = HeapOf(h.start, h.end, h.head, h.foot, h.avail, h.used, h.bytes.avail, h.bytes.used)

\* Where the block b ends, for every block.
Ends(h) == [b \in Blocks(h) |-> b + BlockLen(h, b)]

HeadsTyped(h) ==
  \A b \in Blocks(h) : b \in Nat /\ h.head[b] \in [size : Nat, state : {"available", "used"}]

ListsExact(h) ==
  /\ h.avail \in Seq(Nat) /\ IsInjective(h.avail) /\ Range(h.avail) = InState(h, "available")
  /\ h.used = InState(h, "used")

BytesExact(h) ==
  /\ h.bytes.avail = Cardinality(Area(Ends(h), InState(h, "available")))
  /\ h.bytes.used = Cardinality(Area(Ends(h), InState(h, "used")))

Sound(h) ==
  /\ HeapRecord(h) /\ h.start # NULL /\ HeadsTyped(h)
  /\ Chained(Blocks(h), Ends(h), h.start, h.end)
  /\ Footed(Ends(h), h.foot)
  /\ ListsExact(h) /\ BytesExact(h)

\* No available block outside E has an available neighbour above it.
NoPairBut(h, E) ==
  \A b \in InState(h, "available") \ E : Ends(h)[b] \notin InState(h, "available")

\* The record h and what its fields hold.
Holds(h, start, end, head, foot, avail, used, availBytes, usedBytes) ==
  /\ HeapRecord(h)
  /\ h.start = start /\ h.end = end /\ h.head = head /\ h.foot = foot /\ h.avail = avail
  /\ h.used = used /\ h.bytes.avail = availBytes /\ h.bytes.used = usedBytes

LEMMA Fields ==
  ASSUME NEW h, NEW start, NEW end, NEW head, NEW foot, NEW avail, NEW used, NEW ab, NEW ub,
         h = HeapOf(start, end, head, foot, avail, used, ab, ub)
  PROVE  Holds(h, start, end, head, foot, avail, used, ab, ub)
BY DEF HeapOf, HeapRecord, Holds

LEMMA AddedAvail ==
  ASSUME NEW h, HeapRecord(h), NEW b, NEW g, g = AddBlockFront(h, "avail", b)
  PROVE  Holds(g, h.start, h.end, h.head, h.foot, <<b>> \o h.avail, h.used,
               h.bytes.avail + BlockLen(h, b), h.bytes.used)
<1>1. PICK x : x = <<b>> \o h.avail
  BY Zenon
<1>2. PICK n : n = h.bytes.avail + BlockLen(h, b)
  OBVIOUS
<1>3. g = [h EXCEPT !.avail = x, !.bytes.avail = n]
  BY <1>1, <1>2 DEF AddBlockFront
<1> PICK st, en, he, fo, av, us, ab, ub : h = HeapOf(st, en, he, fo, av, us, ab, ub)
  BY DEF HeapRecord
<1>4. [HeapOf(st, en, he, fo, av, us, ab, ub) EXCEPT !.avail = x] = HeapOf(st, en, he, fo, x, us, ab, ub)
  BY DEF HeapOf
<1>5. [HeapOf(st, en, he, fo, x, us, ab, ub) EXCEPT !.bytes.avail = n] = HeapOf(st, en, he, fo, x, us, n, ub)
  BY DEF HeapOf
<1>6. g = HeapOf(st, en, he, fo, x, us, n, ub)
  BY <1>3, <1>4, <1>5, Zenon
<1>7. Holds(g, st, en, he, fo, x, us, n, ub) /\ Holds(h, st, en, he, fo, av, us, ab, ub)
  BY <1>6, Fields
<1> QED BY <1>1, <1>2, <1>7 DEF Holds

LEMMA AddedUsed ==
  ASSUME NEW h, HeapRecord(h), NEW b, NEW g, g = AddBlockFront(h, "used", b)
  PROVE  Holds(g, h.start, h.end, h.head, h.foot, h.avail, h.used \cup {b},
               h.bytes.avail, h.bytes.used + BlockLen(h, b))
<1>1. PICK x : x = h.used \cup {b}
  BY Zenon
<1>2. PICK n : n = h.bytes.used + BlockLen(h, b)
  OBVIOUS
<1>3. g = [h EXCEPT !.used = x, !.bytes.used = n]
  BY <1>1, <1>2 DEF AddBlockFront
<1> PICK st, en, he, fo, av, us, ab, ub : h = HeapOf(st, en, he, fo, av, us, ab, ub)
  BY DEF HeapRecord
<1>4. [HeapOf(st, en, he, fo, av, us, ab, ub) EXCEPT !.used = x] = HeapOf(st, en, he, fo, av, x, ab, ub)
  BY DEF HeapOf
<1>5. [HeapOf(st, en, he, fo, av, x, ab, ub) EXCEPT !.bytes.used = n] = HeapOf(st, en, he, fo, av, x, ab, n)
  BY DEF HeapOf
<1>6. g = HeapOf(st, en, he, fo, av, x, ab, n)
  BY <1>3, <1>4, <1>5, Zenon
<1>7. Holds(g, st, en, he, fo, av, x, ab, n) /\ Holds(h, st, en, he, fo, av, us, ab, ub)
  BY <1>6, Fields
<1> QED BY <1>1, <1>2, <1>7 DEF Holds

LEMMA RemovedAvail ==
  ASSUME NEW h, HeapRecord(h), NEW b, NEW g, g = RemoveBlock(h, "avail", b)
  PROVE  Holds(g, h.start, h.end, h.head, h.foot, Unlinked(h.avail, b), h.used,
               h.bytes.avail - BlockLen(h, b), h.bytes.used)
<1>1. PICK x : x = Unlinked(h.avail, b)
  OBVIOUS
<1>2. PICK n : n = h.bytes.avail - BlockLen(h, b)
  OBVIOUS
<1>3. g = [h EXCEPT !.avail = x, !.bytes.avail = n]
  BY <1>1, <1>2 DEF RemoveBlock
<1> PICK st, en, he, fo, av, us, ab, ub : h = HeapOf(st, en, he, fo, av, us, ab, ub)
  BY DEF HeapRecord
<1>4. [HeapOf(st, en, he, fo, av, us, ab, ub) EXCEPT !.avail = x] = HeapOf(st, en, he, fo, x, us, ab, ub)
  BY DEF HeapOf
<1>5. [HeapOf(st, en, he, fo, x, us, ab, ub) EXCEPT !.bytes.avail = n] = HeapOf(st, en, he, fo, x, us, n, ub)
  BY DEF HeapOf
<1>6. g = HeapOf(st, en, he, fo, x, us, n, ub)
  BY <1>3, <1>4, <1>5, Zenon
<1>7. Holds(g, st, en, he, fo, x, us, n, ub) /\ Holds(h, st, en, he, fo, av, us, ab, ub)
  BY <1>6, Fields
<1> QED BY <1>1, <1>2, <1>7 DEF Holds

LEMMA RemovedUsed ==
  ASSUME NEW h, HeapRecord(h), NEW b, NEW g, g = RemoveBlock(h, "used", b)
  PROVE  Holds(g, h.start, h.end, h.head, h.foot, h.avail, h.used \ {b},
               h.bytes.avail, h.bytes.used - BlockLen(h, b))
<1>1. PICK x : x = h.used \ {b}
  BY Zenon
<1>2. PICK n : n = h.bytes.used - BlockLen(h, b)
  OBVIOUS
<1>3. g = [h EXCEPT !.used = x, !.bytes.used = n]
  BY <1>1, <1>2 DEF RemoveBlock
<1> PICK st, en, he, fo, av, us, ab, ub : h = HeapOf(st, en, he, fo, av, us, ab, ub)
  BY DEF HeapRecord
<1>4. [HeapOf(st, en, he, fo, av, us, ab, ub) EXCEPT !.used = x] = HeapOf(st, en, he, fo, av, x, ab, ub)
  BY DEF HeapOf
<1>5. [HeapOf(st, en, he, fo, av, x, ab, ub) EXCEPT !.bytes.used = n] = HeapOf(st, en, he, fo, av, x, ab, n)
  BY DEF HeapOf
<1>6. g = HeapOf(st, en, he, fo, av, x, ab, n)
  BY <1>3, <1>4, <1>5, Zenon
<1>7. Holds(g, st, en, he, fo, av, x, ab, n) /\ Holds(h, st, en, he, fo, av, us, ab, ub)
  BY <1>6, Fields
<1> QED BY <1>1, <1>2, <1>7 DEF Holds

LEMMA HeadSet ==
  ASSUME NEW h, HeapRecord(h), NEW b, NEW n, NEW state, NEW g, g = SetHead(h, b, n, state)
  PROVE  Holds(g, h.start, h.end, Written(h.head, b, [size |-> n, state |-> state]), h.foot,
               h.avail, h.used, h.bytes.avail, h.bytes.used)
<1>1. PICK x : x = Written(h.head, b, [size |-> n, state |-> state])
  OBVIOUS
<1>2. g = [h EXCEPT !.head = x]
  BY <1>1 DEF SetHead
<1> PICK st, en, he, fo, av, us, ab, ub : h = HeapOf(st, en, he, fo, av, us, ab, ub)
  BY DEF HeapRecord
<1>3. g = HeapOf(st, en, x, fo, av, us, ab, ub)
  BY <1>2 DEF HeapOf
<1>4. Holds(g, st, en, x, fo, av, us, ab, ub) /\ Holds(h, st, en, he, fo, av, us, ab, ub)
  BY <1>3, Fields
<1> QED BY <1>1, <1>4 DEF Holds

LEMMA FootSet ==
  ASSUME NEW h, HeapRecord(h), NEW f, NEW n, NEW g, g = SetFoot(h, f, n)
  PROVE  Holds(g, h.start, h.end, h.head, Written(h.foot, f, n),
               h.avail, h.used, h.bytes.avail, h.bytes.used)
<1>1. PICK x : x = Written(h.foot, f, n)
  OBVIOUS
<1>2. g = [h EXCEPT !.foot = x]
  BY <1>1 DEF SetFoot
<1> PICK st, en, he, fo, av, us, ab, ub : h = HeapOf(st, en, he, fo, av, us, ab, ub)
  BY DEF HeapRecord
<1>3. g = HeapOf(st, en, he, x, av, us, ab, ub)
  BY <1>2 DEF HeapOf
<1>4. Holds(g, st, en, he, x, av, us, ab, ub) /\ Holds(h, st, en, he, fo, av, us, ab, ub)
  BY <1>3, Fields
<1> QED BY <1>1, <1>4 DEF Holds

LEMMA StateSet ==
  ASSUME NEW h, HeapRecord(h), NEW b, NEW state, NEW g, g = SetState(h, b, state)
  PROVE  Holds(g, h.start, h.end, [h.head EXCEPT ![b].state = state], h.foot,
               h.avail, h.used, h.bytes.avail, h.bytes.used)
<1>1. PICK x : x = [h.head EXCEPT ![b].state = state]
  BY Zenon
<1>2. g = [h EXCEPT !.head = x]
  BY <1>1 DEF SetState
<1> PICK st, en, he, fo, av, us, ab, ub : h = HeapOf(st, en, he, fo, av, us, ab, ub)
  BY DEF HeapRecord
<1>3. g = HeapOf(st, en, x, fo, av, us, ab, ub)
  BY <1>2 DEF HeapOf
<1>4. Holds(g, st, en, x, fo, av, us, ab, ub) /\ Holds(h, st, en, he, fo, av, us, ab, ub)
  BY <1>3, Fields
<1> QED BY <1>1, <1>4 DEF Holds

LEMMA EndSet ==
  ASSUME NEW h, HeapRecord(h), NEW e, NEW g, g = [h EXCEPT !.end = e]
  PROVE  Holds(g, h.start, e, h.head, h.foot,
               h.avail, h.used, h.bytes.avail, h.bytes.used)
<1>1. PICK x : x = e
  OBVIOUS
<1>2. g = [h EXCEPT !.end = x]
  BY <1>1
<1> PICK st, en, he, fo, av, us, ab, ub : h = HeapOf(st, en, he, fo, av, us, ab, ub)
  BY DEF HeapRecord
<1>3. g = HeapOf(st, x, he, fo, av, us, ab, ub)
  BY <1>2 DEF HeapOf
<1>4. Holds(g, st, x, he, fo, av, us, ab, ub) /\ Holds(h, st, en, he, fo, av, us, ab, ub)
  BY <1>3, Fields
<1> QED BY <1>1, <1>4 DEF Holds

LEMMA TagsCut ==
  ASSUME NEW h, HeapRecord(h), NEW b, NEW f, NEW g, g = DropTags(h, b, f)
  PROVE  Holds(g, h.start, h.end, Restrict(h.head, DOMAIN h.head \ {b}),
               Restrict(h.foot, DOMAIN h.foot \ {f}),
               h.avail, h.used, h.bytes.avail, h.bytes.used)
<1>5. PICK head : head = Restrict(h.head, DOMAIN h.head \ {b})
  OBVIOUS
<1>6. PICK foot : foot = Restrict(h.foot, DOMAIN h.foot \ {f})
  OBVIOUS
<1>7. g = [h EXCEPT !.head = head, !.foot = foot]
  BY <1>5, <1>6 DEF DropTags
<1> PICK st, en, he, fo, av, us, ab, ub : h = HeapOf(st, en, he, fo, av, us, ab, ub)
  BY DEF HeapRecord
<1>1. [HeapOf(st, en, he, fo, av, us, ab, ub) EXCEPT !.head = head] =
        HeapOf(st, en, head, fo, av, us, ab, ub)
  BY DEF HeapOf
<1>2. [HeapOf(st, en, head, fo, av, us, ab, ub) EXCEPT !.foot = foot] =
        HeapOf(st, en, head, foot, av, us, ab, ub)
  BY DEF HeapOf
<1>3. g = HeapOf(st, en, head, foot, av, us, ab, ub)
  BY <1>1, <1>2, <1>7, Zenon
<1>4. /\ Holds(g, st, en, head, foot, av, us, ab, ub)
      /\ Holds(h, st, en, he, fo, av, us, ab, ub)
  BY <1>3, Fields
<1> QED BY <1>4, <1>5, <1>6 DEF Holds

\* What is above and below a block of a sound heap.
LEMMA Neighbours ==
  ASSUME NEW h, Sound(h), NEW b \in Blocks(h)
  PROVE  /\ BlockAbove(h, b) = IF Ends(h)[b] = h.end THEN NULL ELSE Ends(h)[b]
         /\ Ends(h)[b] = h.end \/ Ends(h)[b] \in Blocks(h)
         /\ Footer(h, b) = Ends(h)[b] - FootLen
         /\ IF b = h.start THEN BlockBelow(h, b) = NULL
            ELSE BlockBelow(h, b) \in Blocks(h) /\ Ends(h)[BlockBelow(h, b)] = b
<1> DEFINE D == Blocks(h)
           N == Ends(h)
<1>0. HeadLen \in Nat /\ FootLen \in Nat /\ EL_BLOCK_OVERHEAD = HeadLen + FootLen
  BY Overhead
<1>1. Chained(D, N, h.start, h.end) /\ Footed(N, h.foot)
  BY DEF Sound
<1>2. /\ h.start \in Nat /\ h.end \in Nat /\ D \in SUBSET Nat /\ N \in [D -> Nat]
      /\ \A c \in D : h.start <= c /\ N[c] <= h.end
      /\ \A c \in D : N[c] = h.end \/ N[c] \in D
      /\ \A c \in D : c = h.start \/ \E d \in D : N[d] = c
  BY <1>1 DEF Chained
<1>3. h.head[b].size \in Nat /\ b \in Nat
  BY DEF Sound, HeadsTyped
<1>4. N[b] = b + (h.head[b].size + EL_BLOCK_OVERHEAD)
  BY DEF Ends, BlockLen
<1>5. BlockAbove(h, b) = IF N[b] >= h.end THEN NULL ELSE N[b]
  BY <1>0, <1>3, <1>4 DEF BlockAbove
<1>6. Footer(h, b) = N[b] - FootLen
  BY <1>0, <1>3, <1>4 DEF Footer
<1>7. IF b = h.start THEN BlockBelow(h, b) = NULL
      ELSE BlockBelow(h, b) \in D /\ N[BlockBelow(h, b)] = b
  <2>1. CASE b = h.start
    BY <1>2, <2>1 DEF BlockBelow
  <2>2. CASE b # h.start
    <3>1. PICK d \in D : N[d] = b
      BY <1>2, <2>2
    <3>2. h.foot[N[d] - FootLen] = N[d] - d - EL_BLOCK_OVERHEAD
      BY <1>1, <1>2 DEF Footed
    <3>3. ~ (b <= h.start)
      BY <1>2, <1>3, <2>2
    <3>4. BlockBelow(h, b) = b - FootLen - HeadLen - (b - d - EL_BLOCK_OVERHEAD)
      BY <3>1, <3>2, <3>3 DEF BlockBelow
    <3>5. d \in Nat
      BY <1>2
    <3>6. BlockBelow(h, b) = d
      BY <1>0, <1>3, <3>4, <3>5
    <3> QED BY <2>2, <3>1, <3>6
  <2> QED BY <2>1, <2>2
<1> HIDE DEF N, D
<1>8. BlockAbove(h, b) = IF N[b] = h.end THEN NULL ELSE N[b]
  BY <1>2, <1>5 DEF D
<1> QED BY <1>2, <1>6, <1>7, <1>8 DEF N, D

LEMMA CoveredIsArea ==
  ASSUME NEW h, HeadsTyped(h), NEW S \in SUBSET Blocks(h)
  PROVE  Covered(h, S) = Area(Ends(h), S)
<1>1. \A b \in S : Span(h, b) = b .. Ends(h)[b] - 1
  <2> SUFFICES ASSUME NEW b \in S PROVE Span(h, b) = b .. Ends(h)[b] - 1
    OBVIOUS
  <2>1. b \in Blocks(h) /\ b \in Nat /\ h.head[b].size \in Nat
    BY DEF HeadsTyped
  <2>2. b + h.head[b].size + EL_BLOCK_OVERHEAD - 1 = Ends(h)[b] - 1
    BY <2>1, Overhead DEF Ends, BlockLen
  <2> QED BY <2>2 DEF Span
<1> QED BY <1>1, Zenon DEF Covered, Area

\* A sound heap is tiled, in the words of ElMalloc.
LEMMA SoundIsTiled ==
  ASSUME NEW h, Sound(h)
  PROVE  Tiled(h)
<1> DEFINE D == Blocks(h)
           N == Ends(h)
<1>1. Chained(D, N, h.start, h.end) /\ Footed(N, h.foot) /\ HeadsTyped(h)
  BY DEF Sound
<1>2. DOMAIN N = D /\ h.start \in D
  BY <1>1 DEF Chained, Ends
<1>3. \A b \in D : /\ N[b] = h.end \/ N[b] \in D
                   /\ BlockAbove(h, b) = IF N[b] = h.end THEN NULL ELSE N[b]
                   /\ Footer(h, b) = N[b] - FootLen
  BY Neighbours
<1>4. \A b \in D : b \in Nat /\ N[b] \in Nat /\ N[b] <= h.end
  BY <1>1, ChainFacts
<1>5. \A b \in D : Footer(h, b) \in DOMAIN h.foot /\ h.foot[Footer(h, b)] = h.head[b].size
  <2> SUFFICES ASSUME NEW b \in D
               PROVE  Footer(h, b) \in DOMAIN h.foot /\ h.foot[Footer(h, b)] = h.head[b].size
    OBVIOUS
  <2>1. Footer(h, b) \in DOMAIN h.foot /\ h.foot[Footer(h, b)] = N[b] - b - EL_BLOCK_OVERHEAD
    BY <1>1, <1>2, <1>3 DEF Footed
  <2>2. h.head[b].size \in Nat /\ N[b] = b + (h.head[b].size + EL_BLOCK_OVERHEAD)
    BY <1>1 DEF HeadsTyped, Ends, BlockLen
  <2> HIDE DEF N
  <2>3. N[b] - b - EL_BLOCK_OVERHEAD = h.head[b].size
    BY <1>4, <2>2, Overhead
  <2> QED BY <2>1, <2>3
<1>6. \A b \in D : BlockAbove(h, b) \in D \cup {NULL}
  BY <1>3
<1>7. \A b \in D : Footer(h, b) + FootLen <= h.end
  <2> SUFFICES ASSUME NEW b \in D PROVE Footer(h, b) + FootLen <= h.end
    OBVIOUS
  <2>1. Footer(h, b) + FootLen = N[b]
    <3> HIDE DEF N
    <3> QED BY <1>3, <1>4, Overhead
  <2> QED BY <1>4, <2>1
<1>8. \A b \in D : \A c \in D \ {b} : Span(h, b) \cap Span(h, c) = {}
  <2> SUFFICES ASSUME NEW b \in D, NEW c \in D, b # c PROVE Span(h, b) \cap Span(h, c) = {}
    OBVIOUS
  <2>1. \A d \in D : Span(h, d) = d .. N[d] - 1
    <3> SUFFICES ASSUME NEW d \in D PROVE Span(h, d) = d .. N[d] - 1
      OBVIOUS
    <3>1. d + h.head[d].size + EL_BLOCK_OVERHEAD - 1 = N[d] - 1
      BY <1>1, Overhead DEF HeadsTyped, Ends, BlockLen
    <3> QED BY <3>1 DEF Span
  <2>2. N[b] <= c \/ N[c] <= b
    <3>1. b < c \/ c < b
      BY <1>4
    <3> QED BY <1>1, <3>1 DEF Chained
  <2> HIDE DEF N
  <2> QED BY <1>4, <2>1, <2>2
<1>9. DOMAIN h.foot = {Footer(h, b) : b \in D}
  BY <1>1, <1>2, <1>3 DEF Footed
<1>10. /\ Range(h.avail) = InState(h, "available") /\ IsInjective(h.avail)
       /\ h.used = InState(h, "used")
  BY DEF Sound, ListsExact
<1>11. /\ h.bytes.avail = Cardinality(Covered(h, InState(h, "available")))
       /\ h.bytes.used = Cardinality(Covered(h, InState(h, "used")))
  <2>1. InState(h, "available") \in SUBSET Blocks(h) /\ InState(h, "used") \in SUBSET Blocks(h)
    BY DEF InState
  <2> QED BY <1>1, <2>1, CoveredIsArea DEF Sound, BytesExact
<1> HIDE DEF D, N
<1> QED BY <1>2, <1>5, <1>6, <1>7, <1>8, <1>9, <1>10, <1>11 DEF Tiled, D

LEMMA NoPairIsMerged ==
  ASSUME NEW h, Sound(h), NoPairBut(h, {})
  PROVE  Merged(h)
<1> SUFFICES ASSUME NEW b \in InState(h, "available")
             PROVE  BlockAbove(h, b) \notin InState(h, "available")
  BY DEF Merged
<1>1. b \in Blocks(h) /\ Ends(h)[b] \notin InState(h, "available")
  BY DEF NoPairBut, InState
<1>2. NULL \notin Blocks(h)
  BY ChainFacts DEF Sound, Chained, NULL
<1>3. NULL \notin InState(h, "available")
  BY <1>2 DEF InState
<1> QED BY <1>1, <1>3, Neighbours

-----------------------------------------------------------------------------
(* What the operations make of the record.                                 *)

\* Two blocks that are both available become one.
LEMMA MergeRecord ==
  ASSUME NEW h, HeapRecord(h), NEW lower, NEW up, up = BlockAbove(h, lower),
         Available(h, lower), Available(h, up),
         NEW size, size = h.head[lower].size + EL_BLOCK_OVERHEAD + h.head[up].size,
         NEW r, r = MergeBlockWithAbove(h, lower)
  PROVE  Holds(r, h.start, h.end,
               Written(Restrict(h.head, DOMAIN h.head \ {up}), lower,
                       [size |-> size, state |-> "available"]),
               Written(Restrict(h.foot, DOMAIN h.foot \ {Footer(h, lower)}), Footer(h, up), size),
               <<lower>> \o Unlinked(Unlinked(h.avail, lower), up), h.used,
               h.bytes.avail - BlockLen(h, lower) - BlockLen(h, up) + (size + EL_BLOCK_OVERHEAD),
               h.bytes.used)
<1> DEFINE a1 == RemoveBlock(h, "avail", lower)
           a2 == RemoveBlock(a1, "avail", up)
           he == Restrict(a2.head, DOMAIN a2.head \ {up})
           fo == Restrict(a2.foot, DOMAIN a2.foot \ {Footer(h, lower)})
           j == DropTags(a2, up, Footer(h, lower))
           g1 == SetHead(j, lower, size, "available")
           g2 == SetFoot(g1, Footer(h, up), size)
<1>1. r = AddBlockFront(g2, "avail", lower)
  BY DEF MergeBlockWithAbove
<1>2. Holds(a1, h.start, h.end, h.head, h.foot, Unlinked(h.avail, lower), h.used,
            h.bytes.avail - BlockLen(h, lower), h.bytes.used)
  BY RemovedAvail
<1> HIDE DEF a1
<1>3. BlockLen(a1, up) = BlockLen(h, up)
  BY <1>2 DEF BlockLen, Holds
<1>4. Holds(a2, a1.start, a1.end, a1.head, a1.foot, Unlinked(a1.avail, up), a1.used,
            a1.bytes.avail - BlockLen(a1, up), a1.bytes.used)
  BY <1>2, RemovedAvail DEF Holds
<1>5. Holds(a2, h.start, h.end, h.head, h.foot, Unlinked(Unlinked(h.avail, lower), up), h.used,
            h.bytes.avail - BlockLen(h, lower) - BlockLen(h, up), h.bytes.used)
  BY <1>2, <1>3, <1>4 DEF Holds
<1> HIDE DEF a2
<1>6. Holds(j, a2.start, a2.end, he, fo, a2.avail, a2.used, a2.bytes.avail, a2.bytes.used)
  <2>1. HeapRecord(a2)
    BY <1>5 DEF Holds
  <2> QED BY <2>1, TagsCut, Zenon
<1> HIDE DEF j, he, fo
<1>7. Holds(g1, j.start, j.end, Written(j.head, lower, [size |-> size, state |-> "available"]),
            j.foot, j.avail, j.used, j.bytes.avail, j.bytes.used)
  BY <1>6, HeadSet DEF Holds
<1> HIDE DEF g1
<1>8. Holds(g2, g1.start, g1.end, g1.head, Written(g1.foot, Footer(h, up), size),
            g1.avail, g1.used, g1.bytes.avail, g1.bytes.used)
  BY <1>7, FootSet DEF Holds
<1> HIDE DEF g2
<1>9. BlockLen(g2, lower) = size + EL_BLOCK_OVERHEAD
  BY <1>7, <1>8 DEF BlockLen, Written, Holds
<1>10. Holds(r, g2.start, g2.end, g2.head, g2.foot, <<lower>> \o g2.avail, g2.used,
             g2.bytes.avail + BlockLen(g2, lower), g2.bytes.used)
  BY <1>1, <1>8, AddedAvail DEF Holds
<1>11. /\ he = Restrict(h.head, DOMAIN h.head \ {up})
       /\ fo = Restrict(h.foot, DOMAIN h.foot \ {Footer(h, lower)})
  BY <1>5 DEF he, fo, Holds
<1> QED BY <1>5, <1>6, <1>7, <1>8, <1>9, <1>10, <1>11 DEF Holds

\* el_malloc when the block b that it finds is used whole.
LEMMA WholeRecord ==
  ASSUME NEW h, HeapRecord(h), NEW n, NEW b \in DOMAIN h.head, b = FindFirstAvail(h, n),
         b # NULL, ~ Splits(h, b, n),
         h.head[b] \in [size : Nat, state : {"available", "used"}]
  PROVE  /\ Holds(Malloc(h, n).heap, h.start, h.end, [h.head EXCEPT ![b].state = "used"], h.foot,
                  Unlinked(h.avail, b), h.used \cup {b},
                  h.bytes.avail - BlockLen(h, b), h.bytes.used + BlockLen(h, b))
         /\ Malloc(h, n).ptr = b + HeadLen
<1> DEFINE a == RemoveBlock(h, "avail", b)
           s == SetState(a, b, "used")
           r == AddBlockFront(s, "used", b)
<1>1. Holds(a, h.start, h.end, h.head, h.foot, Unlinked(h.avail, b), h.used,
            h.bytes.avail - BlockLen(h, b), h.bytes.used)
  BY RemovedAvail
<1>2. SplitBlock(a, b, n) = a
  <2> HIDE DEF a
  <2> QED BY <1>1 DEF SplitBlock, Splits, Holds
<1>3. Malloc(h, n).heap = r /\ Malloc(h, n).ptr = b + HeadLen
  BY <1>2 DEF Malloc
<1> HIDE DEF a
<1>4. Holds(s, a.start, a.end, [a.head EXCEPT ![b].state = "used"], a.foot, a.avail, a.used,
            a.bytes.avail, a.bytes.used)
  BY <1>1, StateSet DEF Holds
<1> HIDE DEF s
<1>5. BlockLen(s, b) = BlockLen(h, b)
  <2>1. s.head[b].size = h.head[b].size
    BY <1>1, <1>4 DEF Holds
  <2> QED BY <2>1 DEF BlockLen
<1>6. Holds(r, s.start, s.end, s.head, s.foot, s.avail, s.used \cup {b}, s.bytes.avail,
            s.bytes.used + BlockLen(s, b))
  BY <1>4, AddedUsed DEF Holds
<1> HIDE DEF r
<1>7. Holds(r, h.start, h.end, [h.head EXCEPT ![b].state = "used"], h.foot,
            Unlinked(h.avail, b), h.used \cup {b},
            h.bytes.avail - BlockLen(h, b), h.bytes.used + BlockLen(h, b))
  BY <1>1, <1>4, <1>5, <1>6 DEF Holds
<1> QED BY <1>3, <1>7

\* el_malloc when a block m is left above the one it cuts off.
LEMMA SplitRecord ==
  ASSUME NEW h, HeapRecord(h), NEW n \in Nat, NEW b \in DOMAIN h.head, b \in Nat,
         b = FindFirstAvail(h, n), b # NULL, Splits(h, b, n),
         NEW m, m = Left(b, n), NEW left, left = h.head[b].size - n - EL_BLOCK_OVERHEAD
  PROVE  /\ Holds(Malloc(h, n).heap, h.start, h.end,
                  Written(Written(h.head, b, [size |-> n, state |-> "used"]), m,
                          [size |-> left, state |-> "available"]),
                  Written(Written(h.foot, b + HeadLen + n, n), Footer(h, b), left),
                  <<m>> \o Unlinked(h.avail, b), h.used \cup {b},
                  h.bytes.avail - BlockLen(h, b) + (left + EL_BLOCK_OVERHEAD),
                  h.bytes.used + (n + EL_BLOCK_OVERHEAD))
         /\ Malloc(h, n).ptr = b + HeadLen
<1> DEFINE st == h.head[b].state
           a == RemoveBlock(h, "avail", b)
           g1 == SetHead(a, b, n, st)
           f == b + HeadLen + n
           g2 == SetFoot(g1, f, n)
           g3 == SetFoot(g2, Footer(h, b), left)
           g4 == SetHead(g3, m, left, "available")
           s == SetState(g4, b, "used")
           t == AddBlockFront(s, "used", b)
           r == AddBlockFront(t, "avail", m)
<1>1. Holds(a, h.start, h.end, h.head, h.foot, Unlinked(h.avail, b), h.used,
            h.bytes.avail - BlockLen(h, b), h.bytes.used)
  BY RemovedAvail
<1>2. SplitBlock(a, b, n) = g4
  <2> HIDE DEF a
  <2>1. Splits(a, b, n) /\ a.head[b] = h.head[b] /\ Footer(a, b) = Footer(h, b)
    BY <1>1 DEF Splits, Footer, Holds
  <2> QED BY <2>1 DEF SplitBlock
<1>3. Malloc(h, n).heap = r /\ Malloc(h, n).ptr = b + HeadLen
  <2> HIDE DEF g4
  <2> QED BY <1>2 DEF Malloc
<1> HIDE DEF a, f, st
<1>4. Holds(g1, a.start, a.end, Written(a.head, b, [size |-> n, state |-> st]), a.foot,
            a.avail, a.used, a.bytes.avail, a.bytes.used)
  BY <1>1, HeadSet DEF Holds
<1> HIDE DEF g1
<1>5. Holds(g2, g1.start, g1.end, g1.head, Written(g1.foot, f, n), g1.avail, g1.used,
            g1.bytes.avail, g1.bytes.used)
  BY <1>4, FootSet DEF Holds
<1> HIDE DEF g2
<1>6. Holds(g3, g2.start, g2.end, g2.head, Written(g2.foot, Footer(h, b), left), g2.avail,
            g2.used, g2.bytes.avail, g2.bytes.used)
  BY <1>5, FootSet DEF Holds
<1> HIDE DEF g3
<1>7. Holds(g4, g3.start, g3.end, Written(g3.head, m, [size |-> left, state |-> "available"]),
            g3.foot, g3.avail, g3.used, g3.bytes.avail, g3.bytes.used)
  BY <1>6, HeadSet DEF Holds
<1> HIDE DEF g4
<1>8. Holds(s, g4.start, g4.end, [g4.head EXCEPT ![b].state = "used"], g4.foot, g4.avail,
            g4.used, g4.bytes.avail, g4.bytes.used)
  BY <1>7, StateSet DEF Holds
<1> HIDE DEF s
<1>9. m # b
  BY Overhead DEF Left
<1>10. s.head = Written(Written(h.head, b, [size |-> n, state |-> "used"]), m,
                        [size |-> left, state |-> "available"])
  <2> DEFINE w == Written(Written(h.head, b, [size |-> n, state |-> st]), m,
                          [size |-> left, state |-> "available"])
             v == Written(Written(h.head, b, [size |-> n, state |-> "used"]), m,
                          [size |-> left, state |-> "available"])
  <2>1. s.head = [w EXCEPT ![b].state = "used"]
    BY <1>1, <1>4, <1>5, <1>6, <1>7, <1>8 DEF Holds
  <2>2. /\ w = [x \in DOMAIN h.head \cup {b, m} |-> w[x]]
        /\ v = [x \in DOMAIN h.head \cup {b, m} |-> v[x]]
    BY DEF Written
  <2>3. \A x \in DOMAIN h.head \cup {b, m} : x # b => w[x] = v[x]
    BY DEF Written
  <2>4. w[b] = [size |-> n, state |-> st] /\ v[b] = [size |-> n, state |-> "used"]
    BY <1>9 DEF Written
  <2> HIDE DEF w, v
  <2>5. [w EXCEPT ![b].state = "used"] =
          [x \in DOMAIN h.head \cup {b, m} |-> IF x = b THEN [size |-> n, state |-> "used"] ELSE w[x]]
    <3>1. DOMAIN w = DOMAIN h.head \cup {b, m}
      BY <2>2
    <3>2. [w[b] EXCEPT !.state = "used"] = [size |-> n, state |-> "used"]
      BY <2>4
    <3> QED BY <3>1, <3>2, Zenon
  <2>6. v = [x \in DOMAIN h.head \cup {b, m} |-> IF x = b THEN [size |-> n, state |-> "used"] ELSE w[x]]
    <3>1. \A x \in DOMAIN h.head \cup {b, m} :
            v[x] = IF x = b THEN [size |-> n, state |-> "used"] ELSE w[x]
      BY <2>3, <2>4
    <3>2. v = [x \in DOMAIN h.head \cup {b, m} |-> v[x]]
      BY <2>2
    <3> QED BY <3>1, <3>2
  <2>7. s.head = v
    BY <2>1, <2>5, <2>6
  <2> QED BY <2>7 DEF v
<1>11. s.head[b].size = n /\ s.head[m].size = left
  BY <1>9, <1>10 DEF Written
<1>12. BlockLen(s, b) = n + EL_BLOCK_OVERHEAD
  BY <1>11 DEF BlockLen
<1>13. Holds(t, s.start, s.end, s.head, s.foot, s.avail, s.used \cup {b}, s.bytes.avail,
             s.bytes.used + BlockLen(s, b))
  BY <1>8, AddedUsed DEF Holds
<1> HIDE DEF t
<1>14. BlockLen(t, m) = left + EL_BLOCK_OVERHEAD
  BY <1>11, <1>13 DEF BlockLen, Holds
<1>15. Holds(r, t.start, t.end, t.head, t.foot, <<m>> \o t.avail, t.used,
             t.bytes.avail + BlockLen(t, m), t.bytes.used)
  <2>1. HeapRecord(t)
    BY <1>13 DEF Holds
  <2>2. r = AddBlockFront(t, "avail", m)
    OBVIOUS
  <2> HIDE DEF r, t
  <2> QED BY <2>1, <2>2, AddedAvail, Zenon
<1> HIDE DEF r
<1>16. /\ s.foot = Written(Written(h.foot, f, n), Footer(h, b), left)
       /\ s.avail = Unlinked(h.avail, b) /\ s.used = h.used
       /\ s.bytes.avail = h.bytes.avail - BlockLen(h, b) /\ s.bytes.used = h.bytes.used
       /\ s.start = h.start /\ s.end = h.end
  BY <1>1, <1>4, <1>5, <1>6, <1>7, <1>8 DEF Holds
<1>17. /\ HeapRecord(r) /\ r.start = s.start /\ r.end = s.end /\ r.head = s.head
       /\ r.foot = s.foot /\ r.avail = <<m>> \o s.avail /\ r.used = s.used \cup {b}
       /\ r.bytes.avail = s.bytes.avail + (left + EL_BLOCK_OVERHEAD)
       /\ r.bytes.used = s.bytes.used + (n + EL_BLOCK_OVERHEAD)
  BY <1>12, <1>13, <1>14, <1>15 DEF Holds
<1>18. Holds(r, h.start, h.end, s.head,
             Written(Written(h.foot, f, n), Footer(h, b), left),
             <<m>> \o Unlinked(h.avail, b), h.used \cup {b},
             h.bytes.avail - BlockLen(h, b) + (left + EL_BLOCK_OVERHEAD),
             h.bytes.used + (n + EL_BLOCK_OVERHEAD))
  BY <1>16, <1>17 DEF Holds
<1> QED BY <1>3, <1>10, <1>18 DEF f

\* el_free, before it looks at the neighbours.
LEMMA FreedRecord ==
  ASSUME NEW h, HeapRecord(h), NEW b \in DOMAIN h.head,
         h.head[b] \in [size : Nat, state : {"available", "used"}],
         NEW r, r = AddBlockFront(SetState(RemoveBlock(h, "used", b), b, "available"), "avail", b)
  PROVE  Holds(r, h.start, h.end, [h.head EXCEPT ![b].state = "available"], h.foot,
               <<b>> \o h.avail, h.used \ {b},
               h.bytes.avail + BlockLen(h, b), h.bytes.used - BlockLen(h, b))
<1> DEFINE a == RemoveBlock(h, "used", b)
           s == SetState(a, b, "available")
<1>1. Holds(a, h.start, h.end, h.head, h.foot, h.avail, h.used \ {b},
            h.bytes.avail, h.bytes.used - BlockLen(h, b))
  BY RemovedUsed
<1>0. r = AddBlockFront(s, "avail", b)
  OBVIOUS
<1> HIDE DEF a
<1>2. Holds(s, a.start, a.end, [a.head EXCEPT ![b].state = "available"], a.foot, a.avail,
            a.used, a.bytes.avail, a.bytes.used)
  BY <1>1, StateSet DEF Holds
<1> HIDE DEF s
<1>3. BlockLen(s, b) = BlockLen(h, b)
  <2>1. s.head[b].size = h.head[b].size
    BY <1>1, <1>2 DEF Holds
  <2> QED BY <2>1 DEF BlockLen
<1>4. Holds(r, s.start, s.end, s.head, s.foot, <<b>> \o s.avail, s.used,
            s.bytes.avail + BlockLen(s, b), s.bytes.used)
  BY <1>0, <1>2, AddedAvail DEF Holds
<1> QED BY <1>1, <1>2, <1>3, <1>4 DEF Holds

\* el_append_pages_to_heap, before it looks at the block below.
LEMMA AppendRecord ==
  ASSUME NEW h, HeapRecord(h), NEW b, b = h.end, NEW size, NEW end, NEW f,
         NEW r, r = AddBlockFront([SetFoot(SetHead(h, b, size, "available"), f, size)
                                     EXCEPT !.end = end], "avail", b)
  PROVE  Holds(r, h.start, end, Written(h.head, b, [size |-> size, state |-> "available"]),
               Written(h.foot, f, size), <<b>> \o h.avail, h.used,
               h.bytes.avail + (size + EL_BLOCK_OVERHEAD), h.bytes.used)
<1> DEFINE g1 == SetHead(h, b, size, "available")
           g2 == SetFoot(g1, f, size)
           s == [g2 EXCEPT !.end = end]
<1>0. r = AddBlockFront(s, "avail", b)
  OBVIOUS
<1>1. Holds(g1, h.start, h.end, Written(h.head, b, [size |-> size, state |-> "available"]),
            h.foot, h.avail, h.used, h.bytes.avail, h.bytes.used)
  BY HeadSet
<1> HIDE DEF g1
<1>2. Holds(g2, g1.start, g1.end, g1.head, Written(g1.foot, f, size), g1.avail, g1.used,
            g1.bytes.avail, g1.bytes.used)
  BY <1>1, FootSet DEF Holds
<1> HIDE DEF g2
<1>3. Holds(s, g2.start, end, g2.head, g2.foot, g2.avail, g2.used, g2.bytes.avail, g2.bytes.used)
  BY <1>2, EndSet DEF Holds
<1> HIDE DEF s
<1>5. BlockLen(s, b) = size + EL_BLOCK_OVERHEAD
  BY <1>1, <1>2, <1>3 DEF BlockLen, Written, Holds
<1>6. Holds(r, s.start, s.end, s.head, s.foot, <<b>> \o s.avail, s.used,
            s.bytes.avail + BlockLen(s, b), s.bytes.used)
  <2>1. HeapRecord(s)
    BY <1>3 DEF Holds
  <2> QED BY <1>0, <2>1, AddedAvail
<1> QED BY <1>1, <1>2, <1>3, <1>5, <1>6, Zenon DEF Holds
=============================================================================
