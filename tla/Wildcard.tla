------------------------------ MODULE Wildcard ------------------------------
(***************************************************************************)
(* WildcardMatch (adaptiveservice.go 373-420), on which every lookup by    *)
(* name or provider ID rests: a greedy matcher that cuts the prefix and    *)
(* the suffix off the string and then takes each middle part at its first  *)
(* occurrence.  Strings are sequences of letters.                          *)
(***************************************************************************)
EXTENDS Integers, Sequences, FiniteSets, SequencesExt

CONSTANTS
    Letters,        \* letters of strings, without "*"
    MaxPattern,     \* length of patterns (bound)
    MaxStr          \* length of strings (bound)

ASSUME WildcardAssumption ==
    "*" \notin Letters /\ MaxPattern \in Nat /\ MaxStr \in Nat

(* strings.Split(pattern, "*"): the parts between the stars.               *)
StarsUpTo(p, i) == Cardinality({j \in 1..i : p[j] = "*"})
Stars(p) == StarsUpTo(p, Len(p))
StarAt(p, n) ==
    IF n = 0 THEN 0
    ELSE IF n > Stars(p) THEN Len(p) + 1
    ELSE CHOOSE i \in DOMAIN p : p[i] = "*" /\ StarsUpTo(p, i) = n
Split(p) == [n \in 1..Stars(p) + 1 |-> SubSeq(p, StarAt(p, n - 1) + 1, StarAt(p, n) - 1)]

(* t is in s behind its first k letters.                                   *)
OccursAt(s, k, t) == \A i \in 1..Len(t) : s[k + i] = t[i]

(* strings.Index(str, part), where str is what lies in s behind lo and up to hi:
   the first place, or none.                                                *)
None == -1
Places(s, lo, hi, t) == {k \in lo..hi - Len(t) : OccursAt(s, k, t)}
Index(s, lo, hi, t) ==
    IF Places(s, lo, hi, t) = {} THEN None
    ELSE CHOOSE k \in Places(s, lo, hi, t) : \A l \in Places(s, lo, hi, t) : k <= l

(* The parts between the first and the last one, taken one after the other:
   after n of them, what is left of str begins behind left[n].              *)
MatchMiddle(s, lo, hi, parts) ==
    LET left[n \in 0..Len(parts) - 2] ==
          IF n = 0 THEN lo
          ELSE LET k == IF left[n - 1] = None THEN None ELSE Index(s, left[n - 1], hi, parts[n + 1])
               IN  IF k = None THEN None ELSE k + Len(parts[n + 1])
    IN  left[Len(parts) - 2] # None

\* A mutation: the suffix is tested against the whole string, so that it may
\* overlap the prefix.
WildcardMatchOverlap(pattern, str) ==
    LET parts == Split(pattern)
        lo == Len(parts[1])
        hi == Len(str) - Len(parts[Len(parts)])
    IN  IF Len(parts) = 1 THEN pattern = str
        ELSE /\ lo <= Len(str) /\ OccursAt(str, 0, parts[1])
             /\ 0 <= hi /\ OccursAt(str, hi, parts[Len(parts)])
             /\ MatchMiddle(str, lo, hi, parts)

(* The first part is cut off str, which then begins behind lo, and the last part
   is, so that it ends at hi.  An empty part matches anywhere and cuts nothing
   off, so the tests of the code for empty parts, and for "*" and "", need no
   case of their own.                                                       *)
WildcardMatch(pattern, str) ==
    LET parts == Split(pattern)
        lo == Len(parts[1])
        hi == Len(str) - Len(parts[Len(parts)])
    IN  IF Len(parts) = 1 THEN pattern = str
        ELSE /\ lo <= Len(str) /\ OccursAt(str, 0, parts[1])
             /\ lo <= hi /\ OccursAt(str, hi, parts[Len(parts)])
             /\ MatchMiddle(str, lo, hi, parts)

-----------------------------------------------------------------------------
(* The reference: "*" stands for any string, every other letter for itself.
   R[i] holds the numbers j such that the first i of the pattern match the
   first j of the string.                                                   *)
Matches(p, s) ==
    LET R[i \in 0..Len(p)] ==
          IF i = 0 THEN {0}
          ELSE IF p[i] = "*" THEN {j \in 0..Len(s) : \E h \in R[i - 1] : h <= j}
          ELSE {j \in 1..Len(s) : s[j] = p[i] /\ j - 1 \in R[i - 1]}
    IN  Len(s) \in R[Len(p)]

Words(A, n) == UNION {[1..k -> A] : k \in 0..n}

(* For all patterns and strings up to the bounds, the greedy answer, which never
   goes back to a later occurrence of a part, is the reference's.           *)
MatcherExact ==
    \A pattern \in Words(Letters \cup {"*"}, MaxPattern), str \in Words(Letters, MaxStr) :
        WildcardMatch(pattern, str) <=> Matches(pattern, str)
=============================================================================
