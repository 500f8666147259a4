--------------------------- MODULE CatalogFetchProofs ---------------------------
(* What a catalog build loads is what ESPN publishes. The invariant is that an   *)
(* ETag on disk, or in the load that read it from there, belongs to the data     *)
(* next to it, so that a 304 can only speak of that data.                        *)
EXTENDS CatalogFetch, TLAPS

Tagged(copy) == copy.etag # Nothing => copy.etag = copy.data

FetchInv ==
  /\ FetchTypeOK
  /\ \A s \in URLs : cache[s] \in Copies(s) => Tagged(cache[s])
  /\ request # Nothing /\ request.copy # Nothing => Tagged(request.copy)

LEMMA AskedIsUrl ==
  ASSUME loaded \in Seq(UNION {Contents[s] : s \in URLs}), Len(loaded) < Len(Sources)
  PROVE  Asked \in URLs
  BY FetchAssumption DEF Asked, URLs

LEMMA InitEstablishes == FetchInit => FetchInv
<1> SUFFICES ASSUME FetchInit PROVE FetchInv
  OBVIOUS
<1>1. request = Nothing /\ loaded \in Seq(UNION {Contents[s] : s \in URLs}) /\ Len(loaded) = 0
  BY DEF FetchInit
<1>2. \A s \in URLs : cache[s] = Nothing /\ cache[s] \notin Copies(s)
  BY FetchAssumption DEF FetchInit
<1>3. \A k \in 1..Len(loaded) : loaded[k] \in Contents[Sources[k]]
  BY <1>1
<1>4. FetchTypeOK
  BY <1>1, <1>2, <1>3 DEF FetchInit, FetchTypeOK
<1> QED
  BY <1>1, <1>2, <1>4 DEF FetchInv

(* A copy of the cache is well typed and well tagged.                            *)
LEMMA CachedCopyIsTagged ==
  ASSUME FetchInv, NEW s \in URLs
  PROVE  /\ CachedCopy(s) \in Copies(s) \cup {Nothing}
         /\ CachedCopy(s) # Nothing => Tagged(CachedCopy(s))
  BY DEF CachedCopy, FetchInv

(* The data of a successful load is ESPN's, whether it was sent or validated.    *)
LEMMA LoadIsCurrent ==
  ASSUME FetchInv, Downloaded \/ NotModified
  PROVE  /\ Asked \in URLs
         /\ loaded' = Append(loaded, espn[Asked])
<1>1. /\ Len(loaded) < Len(Sources) /\ loaded \in Seq(UNION {Contents[s] : s \in URLs})
      /\ request \in [copy: Copies(Asked) \cup {Nothing}, left: 1..(Retries + 1)]
  BY DEF FetchInv, FetchTypeOK, Downloaded, NotModified
<1>2. Asked \in URLs
  BY <1>1, AskedIsUrl
<1>3. CASE Downloaded
  BY <1>2, <1>3 DEF Downloaded
<1>4. CASE NotModified
  <2>1. espn[Asked] \in Contents[Asked] /\ espn[Asked] # Nothing
    BY <1>2, FetchAssumption DEF FetchInv, FetchTypeOK, URLs
  <2>2. request # Nothing /\ request.copy # Nothing /\ request.copy.etag = espn[Asked]
    BY <1>4, <2>1 DEF NotModified, IfNoneMatch
  <2>3. request.copy.data = espn[Asked]
    BY <2>1, <2>2 DEF FetchInv, Tagged
  <2> QED
    BY <1>2, <1>4, <2>3 DEF NotModified
<1> QED
  BY <1>3, <1>4

LEMMA StepPreserves == FetchInv /\ [FetchNext]_fetchVars => FetchInv'
<1> SUFFICES ASSUME FetchInv, [FetchNext]_fetchVars PROVE FetchInv'
  OBVIOUS
<1> USE DEF FetchInv, FetchTypeOK
<1>1. ASSUME NEW s \in URLs, Publish(s) PROVE FetchInv'
  BY <1>1 DEF Publish, Asked, Tagged
<1>2. ASSUME NEW s \in URLs, CacheRots(s) PROVE FetchInv'
  <2>1. DOMAIN cache' = URLs /\ \A u \in URLs : cache'[u] = cache[u] \/ cache'[u] = Damaged
    BY <1>2 DEF CacheRots
  <2>2. \A u \in URLs : cache'[u] \in Copies(u) => Tagged(cache'[u])
    BY <2>1, FetchAssumption
  <2> QED
    BY <1>2, <2>1, <2>2 DEF CacheRots, Asked, Tagged
<1>3. CASE BuildStarts
  <2>1. request = Nothing /\ request' = Nothing /\ loaded' = <<>>
    BY <1>3 DEF BuildStarts
  <2> QED
    BY <1>3, <2>1 DEF BuildStarts, Tagged
<1>4. CASE Ask
  <2>1. Asked \in URLs /\ Asked' = Asked
    BY <1>4, AskedIsUrl DEF Ask, Asked
  <2>2. request' \in [copy: Copies(Asked) \cup {Nothing}, left: 1..(Retries + 1)]
    BY <1>4, <2>1, CachedCopyIsTagged, FetchAssumption DEF Ask
  <2>3. request'.copy # Nothing => Tagged(request'.copy)
    BY <1>4, <2>1, CachedCopyIsTagged DEF Ask
  <2> QED
    BY <1>4, <2>1, <2>2, <2>3 DEF Ask, Tagged
<1>5. CASE Downloaded \/ NotModified
  <2>1. Asked \in URLs /\ loaded' = Append(loaded, espn[Asked]) /\ request' = Nothing
    BY <1>5, LoadIsCurrent DEF Downloaded, NotModified
  <2>2. espn[Asked] \in Contents[Sources[Len(loaded) + 1]] /\ espn' = espn /\ building' = building
    BY <1>5, <2>1 DEF Asked, Downloaded, NotModified
  <2>3. /\ loaded' \in Seq(UNION {Contents[s] : s \in URLs})
        /\ \A k \in 1..Len(loaded') : loaded'[k] \in Contents[Sources[k]]
    BY <2>1, <2>2
  <2>4. ASSUME NEW u \in URLs
        PROVE  /\ cache'[u] \in Copies(u) \cup {Nothing, Damaged}
               /\ cache'[u] \in Copies(u) => Tagged(cache'[u])
    BY <1>5, <2>1 DEF Downloaded, NotModified, CopyOf, Copies, Tagged
  <2>5. DOMAIN cache' = URLs
    BY <1>5 DEF Downloaded, NotModified
  <2> QED
    BY <2>1, <2>2, <2>3, <2>4, <2>5
<1>6. CASE Retry
  <2>1. request \in [copy: Copies(Asked) \cup {Nothing}, left: 1..(Retries + 1)]
    BY <1>6 DEF Retry
  <2>2. request' \in [copy: Copies(Asked) \cup {Nothing}, left: 1..(Retries + 1)]
    BY <1>6, <2>1, FetchAssumption DEF Retry
  <2>3. request'.copy = request.copy /\ Asked' = Asked
    BY <1>6, <2>1 DEF Retry, Asked
  <2> QED
    BY <1>6, <2>2, <2>3 DEF Retry, Tagged
<1>7. CASE BuildFails
  <2>1. request' = Nothing /\ building' = FALSE /\ espn' = espn /\ cache' = cache
    BY <1>7 DEF BuildFails
  <2>2. loaded' \in Seq(UNION {Contents[s] : s \in URLs}) /\ Len(loaded') = 0
    BY <1>7 DEF BuildFails
  <2>3. \A k \in 1..Len(loaded') : loaded'[k] \in Contents[Sources[k]]
    BY <2>2
  <2>4. FetchTypeOK'
    BY <2>1, <2>2, <2>3
  <2> QED
    BY <2>1, <2>4
<1>8. CASE UNCHANGED fetchVars
  BY <1>8 DEF fetchVars, Asked, Tagged
<1> QED
  BY <1>1, <1>2, <1>3, <1>4, <1>5, <1>6, <1>7, <1>8 DEF FetchNext

(* The inductive invariant of a build and its cache.                             *)
THEOREM InvariantHolds == FetchSpec => []FetchInv
  BY InitEstablishes, StepPreserves, PTL DEF FetchSpec

(* Cache, build and load keep their types for every set of sources and contents. *)
THEOREM TypeCorrect == FetchSpec => []FetchTypeOK
  BY InvariantHolds, PTL DEF FetchInv

(* No load yields data that ESPN does not publish when it answers.               *)
THEOREM LoadsAreCurrent == FetchSpec => ResultIsCurrent
<1>1. FetchInv /\ [FetchNext]_fetchVars
      => [Len(loaded') > Len(loaded) => loaded'[Len(loaded')] = espn[Asked]]_fetchVars
  <2> SUFFICES ASSUME FetchInv, FetchNext, Len(loaded') > Len(loaded)
               PROVE  loaded'[Len(loaded')] = espn[Asked]
    OBVIOUS
  <2>1. loaded \in Seq(UNION {Contents[s] : s \in URLs})
    BY DEF FetchInv, FetchTypeOK
  <2>2. CASE Downloaded \/ NotModified
    <3>1. loaded' = Append(loaded, espn[Asked])
      BY <2>2, LoadIsCurrent
    <3>2. Len(Append(loaded, espn[Asked])) = Len(loaded) + 1
      BY <2>1
    <3> QED
      BY <2>1, <3>1, <3>2
  <2>3. CASE ~(Downloaded \/ NotModified)
    <3>1. loaded' = loaded \/ loaded' = <<>>
      BY <2>3 DEF FetchNext, Publish, CacheRots, BuildStarts, Ask, Retry, BuildFails
    <3> QED
      BY <2>1, <3>1
  <2> QED
    BY <2>2, <2>3
<1> QED
  BY <1>1, InvariantHolds, PTL DEF FetchSpec, ResultIsCurrent
================================================================================
