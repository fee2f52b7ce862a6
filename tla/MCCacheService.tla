--------------------------- MODULE MCCacheService ---------------------------
(* CacheService with two keys, of which initialize() loads the first: an   *)
(* OAuth secret of an MCP server is a key like the second.  A history      *)
(* variable tells the sets that come while something is awaited.           *)
EXTENDS CacheService, TLC

CONSTANTS provider, oauth

TwoKeys == {provider, oauth}
ConfigOnly == {provider}
AllFaults == {"fail", "restart", "reset"}

VARIABLE exposed    \* history: keys set while a write, reset or load is awaited

Awaiting == runs # <<>> \/ loads > 0

MCInit == Init /\ exposed = {}
MCNext ==
    /\ Next
    /\ exposed' = exposed \cup {k \in Keys : Awaiting /\ sets' > sets /\ cache'[k] = sets'}
MCSpec == MCInit /\ [][MCNext]_<<vars, exposed>>

\* Nothing left to do: no timer, no awaited call.
Quiet == ready /\ armed = 0 /\ ~Awaiting

\* A set call updates the cache and schedules its persistence: once all is
\* quiet, the store has the value, unless the cache was rebuilt since, or the
\* set came while a write was awaited, whose end takes every key off pending.
SetIsKept ==
    Quiet => \A k \in Keys \ exposed : wanted[k] # 0 => disk[k] = wanted[k]

\* initialize() loads the cache from the store: once all is quiet, what is read
\* through the cache is what the store holds, for a key initialize() loads.
ReadsBack == Quiet => \A k \in Loaded \ exposed : cache[k] = disk[k]
=============================================================================
