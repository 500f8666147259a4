------------------------------ MODULE CatalogFetch ------------------------------
(* The loads of scripts/build_catalog.py: one catalog build asks ESPN for each   *)
(* of its sources in order, with bounded retries and a cache that is validated   *)
(* by ETag and outlives the build. ESPN may publish a source anew, or return to  *)
(* an earlier version, between any two steps, and may leave the ETag out.        *)
EXTENDS Naturals, Sequences, FiniteSets

CONSTANTS Sources,  \* the URLs of a build, in the order it loads them
          Contents, \* Contents[s]: what ESPN may publish at s
          Retries,  \* --retries
          Nothing,  \* no cached copy, no ETag, no request
          Damaged   \* a cache file that does not parse

URLs == DOMAIN Contents

(* The ETag of a content stands for the content itself.                          *)
Copies(s) == [data: Contents[s], etag: Contents[s] \cup {Nothing}]

ASSUME FetchAssumption ==
  /\ Sources \in Seq(URLs)
  /\ \A s \in URLs : Nothing \notin Contents[s] \cup Copies(s) /\ Damaged \notin Copies(s)
  /\ Retries \in Nat

VARIABLES espn,     \* what ESPN publishes now
          cache,    \* the cache file of each source
          building, \* a build is running
          request,  \* the load in progress: the copy it validates and its attempts
          loaded    \* the data of the sources loaded so far

fetchVars == <<espn, cache, building, request, loaded>>

CachedCopy(s) == IF cache[s] \in Copies(s) THEN cache[s] ELSE Nothing

IfNoneMatch == IF request.copy = Nothing THEN Nothing ELSE request.copy.etag

Asked == Sources[Len(loaded) + 1]

FetchInit ==
  /\ espn \in [URLs -> UNION {Contents[s] : s \in URLs}]
  /\ \A s \in URLs : espn[s] \in Contents[s]
  /\ cache = [s \in URLs |-> Nothing]
  /\ building = FALSE
  /\ request = Nothing
  /\ loaded = <<>>

Publish(s) ==
  /\ \E c \in Contents[s] \ {espn[s]} : espn' = [espn EXCEPT ![s] = c]
  /\ UNCHANGED <<cache, building, request, loaded>>

CacheRots(s) ==
  /\ cache[s] \in Copies(s)
  /\ cache' = [cache EXCEPT ![s] = Damaged]
  /\ UNCHANGED <<espn, building, request, loaded>>

BuildStarts ==
  /\ ~building
  /\ building' = TRUE
  /\ loaded' = <<>>
  /\ UNCHANGED <<espn, cache, request>>

Ask ==
  /\ building /\ request = Nothing
  /\ Len(loaded) < Len(Sources)
  /\ request' = [copy |-> CachedCopy(Asked), left |-> Retries + 1]
  /\ UNCHANGED <<espn, cache, building, loaded>>

(* A bug that could be: keeping the old ETag when an answer brings none.         *)
CopyKeepingTag(data, tag) ==
  [data |-> data, etag |-> IF tag = Nothing THEN IfNoneMatch ELSE tag]

CopyOf(data, tag) == [data |-> data, etag |-> tag]

Downloaded ==
  /\ request # Nothing
  /\ \E tag \in {espn[Asked], Nothing} :
       cache' = [cache EXCEPT ![Asked] = CopyOf(espn[Asked], tag)]
  /\ loaded' = Append(loaded, espn[Asked])
  /\ request' = Nothing
  /\ UNCHANGED <<espn, building>>

NotModified ==
  /\ request # Nothing
  /\ IfNoneMatch = espn[Asked]
  /\ loaded' = Append(loaded, request.copy.data)
  /\ request' = Nothing
  /\ UNCHANGED <<espn, cache, building>>

Retry ==
  /\ request # Nothing
  /\ request.left > 1
  /\ request' = [request EXCEPT !.left = @ - 1]
  /\ UNCHANGED <<espn, cache, building, loaded>>

(* The attempts are used up, the answer is final, the cache or the output cannot *)
(* be written, or the process dies: nothing of the build is left but its cache.  *)
BuildFails ==
  /\ building
  /\ building' = FALSE
  /\ request' = Nothing
  /\ loaded' = <<>>
  /\ UNCHANGED <<espn, cache>>

FetchNext ==
  \/ \E s \in URLs : Publish(s) \/ CacheRots(s)
  \/ BuildStarts
  \/ Ask
  \/ Downloaded
  \/ NotModified
  \/ Retry
  \/ BuildFails

FetchSpec == FetchInit /\ [][FetchNext]_fetchVars

-------------------------------------------------------------------------------
(* The cache, the build and its load keep their types (build_catalog.py:96).     *)
FetchTypeOK ==
  /\ DOMAIN espn = URLs /\ \A s \in URLs : espn[s] \in Contents[s]
  /\ DOMAIN cache = URLs /\ \A s \in URLs : cache[s] \in Copies(s) \cup {Nothing, Damaged}
  /\ building \in BOOLEAN
  /\ loaded \in Seq(UNION {Contents[s] : s \in URLs})
  /\ \A k \in 1..Len(loaded) : loaded[k] \in Contents[Sources[k]]
  /\ request # Nothing =>
       /\ building /\ Len(loaded) < Len(Sources)
       /\ request \in [copy: Copies(Asked) \cup {Nothing}, left: 1..(Retries + 1)]

(* A load never yields data that ESPN does not publish at the moment it answers, *)
(* whatever the cache kept from which earlier build, also when ESPN returns to   *)
(* an earlier version or leaves the ETag out (build_catalog.py:135).             *)
ResultIsCurrent ==
  [][Len(loaded') > Len(loaded) => loaded'[Len(loaded')] = espn[Asked]]_fetchVars
================================================================================
