----------------------------- MODULE RateLimiter -----------------------------
(***************************************************************************)
(* SlidingWindowRateLimiter of src/server/security.ts.  A table maps a key *)
(* to the ages of its attempts, oldest first, in some unit of time in      *)
(* which the window is Window; an attempt is no longer distinguished once  *)
(* it is that old.  due says whether the last cleanup is a minute ago.    *)
(***************************************************************************)
EXTENDS Naturals, Sequences, SequencesExt, FiniteSets

CONSTANTS
  Window,   \* windowMs
  MaxKeys   \* maxKeys

ASSUME LimiterAssumption == Window \in Nat \ {0} /\ MaxKeys \in Nat \ {0}

NewLimiter == <<>>
\* The attempts inside the window, of the first n, and of all.
Active(ages) ==
  LET active[n \in 0..Len(ages)] ==
        IF n = 0 THEN <<>>
        ELSE IF ages[n] < Window THEN Append(active[n - 1], ages[n])
             ELSE active[n - 1]
  IN active[Len(ages)]
Only(f, keys) == [k \in keys |-> f[k]]

\* The last attempt is inside the window, so the key may be blocked.
Fresh(ages) == Last(ages) < Window

\* Mutant of Cleaned: a full table forgets what it holds to make room.
CleanedOut(l, due) == IF Cardinality(DOMAIN l) >= MaxKeys THEN NewLimiter ELSE l
\* consume() looks at all keys when it is time, and whenever the table is full.
Cleaned(l, due) == IF due \/ Cardinality(DOMAIN l) >= MaxKeys
                   THEN Only(l, {k \in DOMAIN l : Fresh(l[k])}) ELSE l

Full(l, k) == k \notin DOMAIN l /\ Cardinality(DOMAIN l) >= MaxKeys

Before(l, k) == IF k \in DOMAIN l THEN Active(l[k]) ELSE <<>>

\* consume(key), for at most max attempts in a window: its answer, the table.
Admits(l, k, max, due) == LET c == Cleaned(l, due)
                          IN ~Full(c, k) /\ Len(Before(c, k)) < max
Consumed(l, k, max, due) ==
  LET c == Cleaned(l, due) b == Before(c, k)
  IN IF Full(c, k) THEN c
     ELSE [j \in DOMAIN c \cup {k} |->
             IF j # k THEN c[j] ELSE IF Len(b) < max THEN Append(b, 0) ELSE b]

\* clear(key)
Cleared(l, k) == Only(l, DOMAIN l \ {k})

\* Time passes by one unit.
Older(ages) == [i \in DOMAIN ages |-> IF ages[i] < Window THEN ages[i] + 1
                                      ELSE Window]
Aged(l) == [k \in DOMAIN l |-> Older(l[k])]
=============================================================================
