---------------------------- MODULE TableProofs ----------------------------
(***************************************************************************)
(* Proofs about the tables that are entered in the settings: RequestPolicy,*)
(* for any rules and any number of them, and Notifications, for any tables *)
(* of routes, events and dispatchers.                                      *)
(***************************************************************************)
EXTENDS RequestPolicy, Notifications, ListProofs

-----------------------------------------------------------------------------
(* RequestPolicy *)

\* The modes and how strict they are.
LEMMA ModeFacts ==
  /\ PolicyMode = {"download", "request_release", "request_book", "blocked"}
  /\ RuleMode = {"download", "request_release", "blocked"}
  /\ Strictness["download"] = 0 /\ Strictness["request_release"] = 1
  /\ Strictness["request_book"] = 2 /\ Strictness["blocked"] = 3
BY DEF PolicyMode, RuleMode, Strictness

\* A rule's fields.
LEMMA RuleFields ==
  ASSUME NEW r \in PolicyRule
  PROVE  /\ r.source \in PolicySource \cup {AnyKey} /\ r.type \in ContentType \cup {AnyKey} /\ r.mode \in RuleMode
         /\ r.mode \in PolicyMode /\ Specific(r) \in 0..3
         /\ \A m \in RuleMode : [r EXCEPT !.mode = m] \in PolicyRule /\ SameKey([r EXCEPT !.mode = m], r)
                                /\ [r EXCEPT !.mode = m].mode = m
                                /\ Specific([r EXCEPT !.mode = m]) = Specific(r)
BY DEF PolicyRule, RuleMode, Specific, SameKey

\* Two rules that match and are as specific have the same key.
LEMMA SpecificIsKey ==
  ASSUME NEW rules \in Seq(PolicyRule), NEW s \in PolicySource, NEW t \in ContentType,
         NEW i \in Matches(rules, s, t), NEW more \in Seq(PolicyRule), NEW j \in Matches(more, s, t),
         Specific(rules[i]) = Specific(more[j])
  PROVE  SameKey(rules[i], more[j])
<1>1. rules[i] \in PolicyRule /\ more[j] \in PolicyRule
  BY DEF Matches
<1>2. s # AnyKey /\ t # AnyKey
  BY PolicyAssumption DEF PolicyAssumption
<1>3. /\ rules[i].source \in {s, AnyKey} /\ rules[i].type \in {t, AnyKey}
      /\ more[j].source \in {s, AnyKey} /\ more[j].type \in {t, AnyKey}
  BY DEF Matches
<1> QED BY <1>2, <1>3 DEF Specific, SameKey

\* The chosen rule matches, is the most specific, and is the first of those.
LEMMA ChosenIs ==
  ASSUME NEW rules \in Seq(PolicyRule), NEW s, NEW t, Matches(rules, s, t) # {}
  PROVE  /\ Chosen(rules, s, t) \in Matches(rules, s, t)
         /\ \A j \in Matches(rules, s, t) :
              \/ Specific(rules[Chosen(rules, s, t)]) > Specific(rules[j])
              \/ /\ Specific(rules[Chosen(rules, s, t)]) = Specific(rules[j])
                 /\ Chosen(rules, s, t) <= j
<1> DEFINE M == Matches(rules, s, t)
           V == {Specific(rules[i]) : i \in M}
           top(v) == {i \in M : Specific(rules[i]) = v}
<1>1. \A i \in M : i \in Nat /\ Specific(rules[i]) \in 0..3
  BY RuleFields DEF Matches
<1>2. V \subseteq 0..3 /\ V # {}
  BY <1>1
<1>3. PICK v \in V : \A w \in V : w <= v
  <2> HIDE DEF V
  <2> QED BY <1>2, GreatestOf
<1>4. top(v) # {} /\ top(v) \subseteq Nat
  BY <1>1, <1>3
<1>5. PICK i \in top(v) : \A j \in top(v) : i <= j
  <2> HIDE DEF top
  <2> QED BY <1>4, LeastOf
<1>6. i \in M /\ \A j \in M : \/ Specific(rules[i]) > Specific(rules[j])
                              \/ Specific(rules[i]) = Specific(rules[j]) /\ i <= j
  <2> SUFFICES ASSUME NEW j \in M, ~(Specific(rules[i]) > Specific(rules[j]))
               PROVE  Specific(rules[i]) = Specific(rules[j]) /\ i <= j
    BY <1>5
  <2>1. Specific(rules[j]) \in V /\ Specific(rules[i]) = v /\ v \in 0..3 /\ Specific(rules[j]) \in 0..3
    BY <1>1, <1>5
  <2>2. Specific(rules[j]) <= v
    BY <1>3, <2>1
  <2>3. Specific(rules[j]) = v
    BY <2>1, <2>2
  <2> QED BY <1>5, <2>1, <2>3
<1> HIDE DEF M, V, top
<1> QED BY <1>6 DEF Chosen, M

\* A key has a last rule.
LEMMA LastModeIs ==
  ASSUME NEW all \in Seq(PolicyRule), NEW i \in 1..Len(all)
  PROVE  \E j \in 1..Len(all) : /\ SameKey(all[j], all[i])
                                /\ \A k \in (j + 1)..Len(all) : ~SameKey(all[k], all[i])
                                /\ LastMode(all, i) = all[j].mode
<1> DEFINE B == {j \in 1..Len(all) : SameKey(all[j], all[i])}
           last(j) == /\ SameKey(all[j], all[i])
                      /\ \A k \in (j + 1)..Len(all) : ~SameKey(all[k], all[i])
<1>1. i \in B /\ B \subseteq 0..Len(all) /\ Len(all) \in Nat
  BY DEF SameKey
<1>2. PICK m \in B : \A k \in B : k <= m
  <2> HIDE DEF B
  <2> QED BY <1>1, GreatestOf
<1>3. m \in 1..Len(all) /\ last(m)
  <2>1. ASSUME NEW k \in (m + 1)..Len(all), SameKey(all[k], all[i]) PROVE FALSE
    <3>1. k \in B /\ m \in Nat
      BY <1>1, <2>1
    <3>2. k <= m
      BY <1>2, <3>1
    <3> QED BY <2>1, <3>1, <3>2
  <2> QED BY <1>2, <2>1
<1>4. LastMode(all, i) = all[CHOOSE j \in 1..Len(all) : last(j)].mode
  BY DEF LastMode
<1> HIDE DEF last
<1>5. (CHOOSE j \in 1..Len(all) : last(j)) \in 1..Len(all) /\ last(CHOOSE j \in 1..Len(all) : last(j))
  BY <1>3
<1> QED BY <1>4, <1>5 DEF last

\* Every place is that of some key.
LEMMA NthKeyIs ==
  ASSUME NEW all \in Seq(PolicyRule), NEW n \in 1..Cardinality(Firsts(all))
  PROVE  NthKey(all, n) \in Firsts(all) /\ Cardinality(Firsts(all) \cap (1..NthKey(all, n))) = n
<1>1. Firsts(all) \subseteq 1..Len(all) /\ Len(all) \in Nat
  BY DEF Firsts
<1>2. \E i \in Firsts(all) : Cardinality(Firsts(all) \cap (1..i)) = n
  BY <1>1, PlacesAreCounted
<1> QED BY <1>2 DEF NthKey

\* Two lists of rules, one after the other.
LEMMA Joined ==
  ASSUME NEW g \in Seq(PolicyRule), NEW u \in Seq(PolicyRule)
  PROVE  /\ g \o u \in Seq(PolicyRule) /\ Len(g \o u) = Len(g) + Len(u)
         /\ \A i \in 1..Len(g) : (g \o u)[i] = g[i]
         /\ \A i \in 1..Len(u) : (g \o u)[Len(g) + i] = u[i]
OBVIOUS

\* Merged rules are rules: their keys are those of the two lists, their modes the last ones.
LEMMA MergedRules ==
  ASSUME NEW g \in Seq(PolicyRule), NEW u \in Seq(PolicyRule)
  PROVE  /\ Overlay(g, u) \in Seq(PolicyRule)
         /\ Len(Overlay(g, u)) = Cardinality(Firsts(g \o u)) /\ Cardinality(Firsts(g \o u)) \in Nat
         /\ \A n \in 1..Len(Overlay(g, u)) :
              /\ NthKey(g \o u, n) \in Firsts(g \o u)
              /\ Overlay(g, u)[n] =
                   [(g \o u)[NthKey(g \o u, n)] EXCEPT !.mode = LastMode(g \o u, NthKey(g \o u, n))]
<1> DEFINE all == g \o u
           N == Cardinality(Firsts(all))
           rule(n) == [all[NthKey(all, n)] EXCEPT !.mode = LastMode(all, NthKey(all, n))]
<1>1. Overlay(g, u) = [n \in 1..N |-> rule(n)]
  BY DEF Overlay
<1>2. all \in Seq(PolicyRule)
  BY Joined
<1> HIDE DEF all
<1>3. Firsts(all) \in SUBSET (1..Len(all)) /\ Len(all) \in Nat
  BY <1>2 DEF Firsts
<1>4. N \in Nat
  <2>1. IsFiniteSet(1..Len(all))
    BY <1>3, FS_Interval
  <2> QED BY <1>3, <2>1, FS_Subset, FS_CardinalityType
<1>5. ASSUME NEW n \in 1..N PROVE NthKey(all, n) \in Firsts(all) /\ rule(n) \in PolicyRule
  <2>1. NthKey(all, n) \in Firsts(all) /\ NthKey(all, n) \in 1..Len(all)
    BY <1>2, <1>3, NthKeyIs
  <2>2. PICK j \in 1..Len(all) : LastMode(all, NthKey(all, n)) = all[j].mode
    BY <1>2, <2>1, LastModeIs
  <2>3. all[NthKey(all, n)] \in PolicyRule /\ all[j].mode \in RuleMode
    BY <1>2, <2>1, RuleFields
  <2> QED BY <2>1, <2>2, <2>3, RuleFields
<1> HIDE DEF rule, N
<1>6. Overlay(g, u) \in Seq(PolicyRule) /\ Len(Overlay(g, u)) = N
  BY <1>1, <1>4, <1>5
<1> QED BY <1>1, <1>4, <1>5, <1>6 DEF all, rule, N

\* Capping makes no mode more permissive than the default.
LEMMA Capped ==
  ASSUME NEW m \in PolicyMode, NEW limit \in PolicyMode
  PROVE  CapMode(m, limit) \in PolicyMode /\ Strictness[CapMode(m, limit)] >= Strictness[limit]
BY ModeFacts DEF CapMode

\* What no rule matches has the default, and the chosen rule is capped by it.
LEMMA LimitedIs ==
  ASSUME NEW rules \in Seq(PolicyRule), NEW s, NEW t, NEW limit \in PolicyMode
  PROVE  Limited(rules, s, t, limit) \in PolicyMode /\ Strictness[Limited(rules, s, t, limit)] >= Strictness[limit]
<1>1. CASE Matches(rules, s, t) = {}
  BY <1>1, ModeFacts DEF Limited
<1>2. CASE Matches(rules, s, t) # {}
  <2>1. Chosen(rules, s, t) \in Matches(rules, s, t)
    BY <1>2, ChosenIs
  <2>2. rules[Chosen(rules, s, t)].mode \in PolicyMode
    BY <2>1, RuleFields DEF Matches
  <2> QED BY <1>2, <2>2, Capped DEF Limited
<1> QED BY <1>1, <1>2

\* Every list of rules the modes are resolved from is one of rules.
LEMMA MergedIsRules ==
  ASSUME NEW g \in Seq(PolicyRule), NEW u \in Seq(PolicyRule),
         NEW has \in BOOLEAN
  PROVE  MergeRules(g, u, has) \in Seq(PolicyRule)
BY MergedRules DEF MergeRules

\* A mode is no more permissive than the default, and a release source has no book-level one.
LEMMA ResolvedRestricts ==
  ASSUME NEW g \in Seq(PolicyRule), NEW u \in Seq(PolicyRule), NEW has \in BOOLEAN,
         NEW limit \in PolicyMode, NEW s, NEW t
  PROVE  /\ Strictness[ResolveMode(g, u, has, limit, s, t)] >= Strictness[ReleaseResultMode(s, limit)]
         /\ ResolveMode(g, u, has, limit, s, t) = "request_book" => s \notin ReleaseSource
<1>1. /\ Limited(MergeRules(g, u, has), s, t, limit) \in PolicyMode
      /\ Strictness[Limited(MergeRules(g, u, has), s, t, limit)] >= Strictness[limit]
  BY MergedIsRules, LimitedIs
<1> QED BY <1>1, ModeFacts DEF ResolveMode, ReleaseResultMode

\* Rules that match alike are chosen alike.
LEMMA ChosenAlike ==
  ASSUME NEW a \in Seq(PolicyRule), NEW b \in Seq(PolicyRule), NEW s, NEW t,
         Matches(a, s, t) = Matches(b, s, t), \A i \in Matches(a, s, t) : a[i] = b[i]
  PROVE  Matches(a, s, t) # {} => Chosen(a, s, t) = Chosen(b, s, t)
<1> HAVE Matches(a, s, t) # {}
<1> DEFINE x == Chosen(a, s, t)
           y == Chosen(b, s, t)
<1>1. /\ x \in Matches(a, s, t) /\ y \in Matches(a, s, t)
      /\ \A j \in Matches(a, s, t) : \/ Specific(a[x]) > Specific(a[j])
                                     \/ Specific(a[x]) = Specific(a[j]) /\ x <= j
      /\ \A j \in Matches(a, s, t) : \/ Specific(b[y]) > Specific(b[j])
                                     \/ Specific(b[y]) = Specific(b[j]) /\ y <= j
  BY ChosenIs
<1> HIDE DEF x, y
<1>2. /\ x \in Nat /\ y \in Nat /\ a[x] = b[x] /\ a[y] = b[y]
      /\ Specific(a[x]) \in 0..3 /\ Specific(a[y]) \in 0..3
  BY <1>1, RuleFields DEF Matches
<1>3. x <= y /\ y <= x
  BY <1>1, <1>2
<1> QED BY <1>2, <1>3 DEF x, y

\* The mode of the rule that is the most specific of all matching ones.
LEMMA ChosenAlone ==
  ASSUME NEW rules \in Seq(PolicyRule), NEW s, NEW t, NEW i \in Matches(rules, s, t),
         \A j \in Matches(rules, s, t) \ {i} : Specific(rules[j]) < Specific(rules[i])
  PROVE  Chosen(rules, s, t) = i
<1>1. /\ Chosen(rules, s, t) \in Matches(rules, s, t)
      /\ \A j \in Matches(rules, s, t) :
           \/ Specific(rules[Chosen(rules, s, t)]) > Specific(rules[j])
           \/ Specific(rules[Chosen(rules, s, t)]) = Specific(rules[j])
  BY ChosenIs
<1>2. Specific(rules[Chosen(rules, s, t)]) \in 0..3 /\ Specific(rules[i]) \in 0..3
  BY <1>1, RuleFields DEF Matches
<1> QED BY <1>1, <1>2

\* When no key is twice in the settings, its rules keep their places when others follow.
LEMMA SettingsFirst ==
  ASSUME NEW g \in Seq(PolicyRule), NEW u \in Seq(PolicyRule),
         \A i, j \in DOMAIN g : i # j => ~SameKey(g[i], g[j])
  PROVE  /\ 1..Len(g) \subseteq Firsts(g \o u)
         /\ Len(g) <= Cardinality(Firsts(g \o u))
         /\ \A n \in 1..Cardinality(Firsts(g \o u)) :
              IF n <= Len(g) THEN NthKey(g \o u, n) = n ELSE NthKey(g \o u, n) > Len(g)
<1> DEFINE all == g \o u
           F == Firsts(all)
<1>1. /\ all \in Seq(PolicyRule) /\ Len(all) = Len(g) + Len(u) /\ Len(g) \in Nat /\ Len(u) \in Nat
      /\ \A i \in 1..Len(g) : all[i] = g[i]
  BY Joined
<1>2. F \in SUBSET (1..Len(all)) /\ 1..Len(g) \subseteq F
  <2>1. \A i \in 1..Len(g) : \A j \in 1..(i - 1) : ~SameKey(all[j], all[i])
    BY <1>1
  <2> HIDE DEF all
  <2> QED BY <1>1, <2>1 DEF Firsts
<1> HIDE DEF F, all
<1>3. IsFiniteSet(F) /\ Cardinality(F) \in Nat
  <2>1. IsFiniteSet(1..Len(all))
    BY <1>1, FS_Interval
  <2> QED BY <1>2, <2>1, FS_Subset, FS_CardinalityType
<1>4. \A n \in 0..Len(g) : IsFiniteSet(1..n) /\ Cardinality(1..n) = n
  BY <1>1, FS_Interval
<1>5. Len(g) <= Cardinality(F)
  <2>1. 1..Len(g) \in SUBSET F /\ Len(g) \in 0..Len(g)
    BY <1>1, <1>2
  <2>2. Cardinality(1..Len(g)) <= Cardinality(F)
    BY <1>3, <2>1, FS_Subset
  <2> QED BY <1>4, <2>1, <2>2
<1>6. ASSUME NEW n \in 1..Cardinality(F)
      PROVE  IF n <= Len(g) THEN NthKey(all, n) = n ELSE NthKey(all, n) > Len(g)
  <2> DEFINE i == NthKey(all, n)
  <2>1. i \in F /\ Cardinality(F \cap (1..i)) = n /\ i \in Nat \ {0} /\ n \in Nat
    <3>1. i \in F /\ Cardinality(F \cap (1..i)) = n
      BY <1>1, <1>6, NthKeyIs DEF F
    <3> HIDE DEF i
    <3> QED BY <1>1, <1>2, <1>3, <1>6, <3>1
  <2> HIDE DEF i
  <2>2. CASE i <= Len(g)
    <3>1. F \cap (1..i) = 1..i
      BY <1>1, <1>2, <2>1, <2>2
    <3>2. n = i
      <4>1. i \in 0..Len(g)
        BY <1>1, <2>1, <2>2
      <4>2. Cardinality(1..i) = i
        BY <1>4, <4>1
      <4> QED BY <2>1, <3>1, <4>2
    <3> QED BY <2>2, <3>2 DEF i
  <2>3. CASE i > Len(g)
    <3>1. IsFiniteSet((1..Len(g)) \cup {i}) /\ Cardinality((1..Len(g)) \cup {i}) = Len(g) + 1
      <4>1. IsFiniteSet(1..Len(g)) /\ Cardinality(1..Len(g)) = Len(g) /\ i \notin 1..Len(g)
        BY <1>1, <1>4, <2>1, <2>3
      <4> QED BY <4>1, FS_AddElement
    <3>2. (1..Len(g)) \cup {i} \in SUBSET (F \cap (1..i))
      BY <1>1, <1>2, <2>1, <2>3
    <3>3. IsFiniteSet(F \cap (1..i))
      BY <1>3, FS_Subset
    <3>4. Len(g) + 1 <= n
      BY <2>1, <3>1, <3>2, <3>3, FS_Subset
    <3> QED BY <1>1, <2>1, <2>3, <3>4 DEF i
  <2> QED BY <1>1, <2>1, <2>2, <2>3
<1> QED BY <1>2, <1>5, <1>6 DEF F, all

\* A user's rules decide nothing that they do not match.
LEMMA UnmatchedKeeps ==
  ASSUME NEW g \in Seq(PolicyRule), NEW u \in Seq(PolicyRule), NEW s, NEW t, NEW limit,
         \A i, j \in DOMAIN g : i # j => ~SameKey(g[i], g[j]), Matches(u, s, t) = {}
  PROVE  Limited(Overlay(g, u), s, t, limit) = Limited(g, s, t, limit)
<1> DEFINE all == g \o u
           m == Overlay(g, u)
           N == Cardinality(Firsts(all))
<1>1. /\ all \in Seq(PolicyRule) /\ Len(all) = Len(g) + Len(u) /\ Len(g) \in Nat /\ Len(u) \in Nat
      /\ \A i \in 1..Len(g) : all[i] = g[i]
      /\ \A i \in 1..Len(u) : all[Len(g) + i] = u[i]
  BY Joined
<1>2. /\ m \in Seq(PolicyRule) /\ Len(m) = N /\ N \in Nat
      /\ \A n \in 1..N : /\ NthKey(all, n) \in Firsts(all)
                         /\ m[n] = [all[NthKey(all, n)] EXCEPT !.mode = LastMode(all, NthKey(all, n))]
  <2>1. /\ m \in Seq(PolicyRule) /\ Len(m) = N /\ N \in Nat
        /\ \A n \in 1..Len(m) : /\ NthKey(all, n) \in Firsts(all)
                                /\ m[n] = [all[NthKey(all, n)] EXCEPT !.mode = LastMode(all, NthKey(all, n))]
    BY MergedRules
  <2> HIDE DEF m, N, all
  <2> QED BY <2>1
<1>3. /\ Len(g) <= N /\ 1..Len(g) \subseteq Firsts(all)
      /\ \A n \in 1..N : IF n <= Len(g) THEN NthKey(all, n) = n ELSE NthKey(all, n) > Len(g)
  BY SettingsFirst
<1> HIDE DEF all, m, N
<1>4. ASSUME NEW i \in 1..Len(all), all[i].source \in {s, AnyKey}, all[i].type \in {t, AnyKey}
      PROVE  i \in 1..Len(g)
  <2> SUFFICES ASSUME i > Len(g) PROVE FALSE
    BY <1>1
  <2>1. i - Len(g) \in 1..Len(u) /\ all[i] = u[i - Len(g)]
    BY <1>1
  <2>2. i - Len(g) \in Matches(u, s, t)
    BY <1>4, <2>1 DEF Matches
  <2> QED BY <2>2
<1>5. ASSUME NEW n \in 1..N
      PROVE  /\ NthKey(all, n) \in 1..Len(all) /\ all[NthKey(all, n)] \in PolicyRule
             /\ m[n].source = all[NthKey(all, n)].source /\ m[n].type = all[NthKey(all, n)].type
  <2>1. NthKey(all, n) \in 1..Len(all)
    BY <1>2 DEF Firsts
  <2>2. all[NthKey(all, n)] \in PolicyRule
    BY <1>1, <2>1
  <2>3. m[n] = [all[NthKey(all, n)] EXCEPT !.mode = LastMode(all, NthKey(all, n))]
    BY <1>2
  <2> QED BY <2>1, <2>2, <2>3 DEF PolicyRule
<1>6. ASSUME NEW n \in 1..N, n \in Matches(m, s, t) PROVE n \in 1..Len(g)
  <2>1. NthKey(all, n) \in 1..Len(g)
    BY <1>4, <1>5, <1>6 DEF Matches
  <2> QED BY <1>1, <1>2, <1>3, <2>1
<1>7. ASSUME NEW n \in 1..Len(g), g[n].source \in {s, AnyKey}, g[n].type \in {t, AnyKey}
      PROVE  n \in 1..N /\ m[n] = g[n]
  <2>1. n \in 1..N /\ NthKey(all, n) = n /\ n \in 1..Len(all) /\ all[n] = g[n] /\ g[n] \in PolicyRule
    BY <1>1, <1>2, <1>3
  <2>2. PICK j \in 1..Len(all) : /\ SameKey(all[j], all[n])
                                 /\ \A i \in (j + 1)..Len(all) : ~SameKey(all[i], all[n])
                                 /\ LastMode(all, n) = all[j].mode
    BY <1>1, <2>1, LastModeIs
  <2>3. j \in 1..Len(g)
    BY <1>4, <1>7, <2>1, <2>2 DEF SameKey
  <2>4. j = n
    BY <1>1, <2>1, <2>2, <2>3
  <2>5. m[n] = [g[n] EXCEPT !.mode = g[n].mode]
    BY <1>2, <2>1, <2>2, <2>4
  <2> QED BY <2>1, <2>5 DEF PolicyRule
<1>8. Matches(m, s, t) = Matches(g, s, t) /\ \A i \in Matches(m, s, t) : m[i] = g[i]
  <2>1. ASSUME NEW i \in Matches(g, s, t) PROVE i \in Matches(m, s, t) /\ m[i] = g[i]
    BY <1>2, <1>7 DEF Matches
  <2>2. ASSUME NEW i \in Matches(m, s, t) PROVE i \in Matches(g, s, t)
    <3>1. i \in 1..N /\ i \in 1..Len(g)
      BY <1>2, <1>6 DEF Matches
    <3>2. NthKey(all, i) = i /\ all[i] = g[i]
      BY <1>1, <1>3, <3>1
    <3>3. m[i].source = g[i].source /\ m[i].type = g[i].type
      BY <1>5, <3>1, <3>2
    <3> QED BY <3>1, <3>3 DEF Matches
  <2> QED BY <2>1, <2>2
<1>9. Limited(m, s, t, limit) = Limited(g, s, t, limit)
  <2>1. CASE Matches(m, s, t) = {}
    BY <1>8, <2>1 DEF Limited
  <2>2. CASE Matches(m, s, t) # {}
    <3>1. Chosen(m, s, t) = Chosen(g, s, t) /\ Chosen(m, s, t) \in Matches(m, s, t)
      BY <1>2, <1>8, <2>2, ChosenAlike, ChosenIs
    <3> QED BY <1>8, <2>2, <3>1 DEF Limited
  <2> QED BY <2>1, <2>2
<1> QED BY <1>9 DEF m

\* One rule of a user that is at least as specific as the settings' decides.
LEMMA OwnRuleDecides ==
  ASSUME NEW g \in Seq(PolicyRule), NEW u \in Seq(PolicyRule),
         NEW s \in PolicySource, NEW t \in ContentType, NEW limit,
         \A i, j \in DOMAIN g : i # j => ~SameKey(g[i], g[j]),
         Matches(u, s, t) # {}, Len(u) = 1,
         \A i \in Matches(g, s, t) : Specific(g[i]) <= Specific(u[Chosen(u, s, t)])
  PROVE  Limited(Overlay(g, u), s, t, limit) = CapMode(u[Chosen(u, s, t)].mode, limit)
<1> DEFINE all == g \o u
           m == Overlay(g, u)
           N == Cardinality(Firsts(all))
           own == u[1]
<1>1. Chosen(u, s, t) = 1 /\ 1 \in Matches(u, s, t) /\ own \in PolicyRule /\ u # <<>>
  <2>1. Chosen(u, s, t) \in Matches(u, s, t)
    BY ChosenIs
  <2>2. Matches(u, s, t) \subseteq {1}
    BY DEF Matches
  <2> QED BY <2>1, <2>2
<1>2. /\ all \in Seq(PolicyRule) /\ Len(all) = Len(g) + 1 /\ Len(g) \in Nat
      /\ \A i \in 1..Len(g) : all[i] = g[i] /\ g[i] \in PolicyRule
      /\ all[Len(g) + 1] = own
  <2>1. /\ all \in Seq(PolicyRule) /\ Len(all) = Len(g) + Len(u)
        /\ \A i \in 1..Len(g) : all[i] = g[i]
        /\ \A i \in 1..Len(u) : all[Len(g) + i] = u[i]
    BY Joined
  <2>2. 1 \in 1..Len(u) /\ Len(g) \in Nat
    OBVIOUS
  <2> HIDE DEF all
  <2> QED BY <2>1, <2>2
<1>3. /\ m \in Seq(PolicyRule) /\ Len(m) = N /\ N \in Nat
      /\ \A n \in 1..N : /\ NthKey(all, n) \in Firsts(all)
                         /\ m[n] = [all[NthKey(all, n)] EXCEPT !.mode = LastMode(all, NthKey(all, n))]
  <2>1. /\ m \in Seq(PolicyRule) /\ Len(m) = N /\ N \in Nat
        /\ \A n \in 1..Len(m) : /\ NthKey(all, n) \in Firsts(all)
                                /\ m[n] = [all[NthKey(all, n)] EXCEPT !.mode = LastMode(all, NthKey(all, n))]
    BY MergedRules
  <2> HIDE DEF m, N, all
  <2> QED BY <2>1
<1>4. /\ Len(g) <= N /\ 1..Len(g) \subseteq Firsts(all)
      /\ \A n \in 1..N : IF n <= Len(g) THEN NthKey(all, n) = n ELSE NthKey(all, n) > Len(g)
  BY SettingsFirst
<1>5. \A i \in Matches(g, s, t) : Specific(g[i]) <= Specific(own)
  BY <1>1
<1> HIDE DEF all, m, N, own
\* A merged rule has the key of a rule of the two lists, and the mode of the last such rule.
<1>6. ASSUME NEW n \in 1..N
      PROVE  /\ NthKey(all, n) \in Firsts(all) /\ NthKey(all, n) \in 1..Len(all) /\ all[NthKey(all, n)] \in PolicyRule
             /\ SameKey(m[n], all[NthKey(all, n)]) /\ Specific(m[n]) = Specific(all[NthKey(all, n)])
             /\ m[n].mode = LastMode(all, NthKey(all, n))
  <2>1. NthKey(all, n) \in Firsts(all) /\ NthKey(all, n) \in 1..Len(all)
    BY <1>3 DEF Firsts
  <2>2. all[NthKey(all, n)] \in PolicyRule
    BY <1>2, <2>1
  <2>3. m[n] = [all[NthKey(all, n)] EXCEPT !.mode = LastMode(all, NthKey(all, n))]
    BY <1>3
  <2>4. PICK j \in 1..Len(all) : /\ SameKey(all[j], all[NthKey(all, n)])
                                 /\ \A i \in (j + 1)..Len(all) : ~SameKey(all[i], all[NthKey(all, n)])
                                 /\ LastMode(all, NthKey(all, n)) = all[j].mode
    <3>1. all \in Seq(PolicyRule) /\ NthKey(all, n) \in 1..Len(all)
      BY <1>2, <2>1
    <3> QED BY <3>1, LastModeIs
  <2>5. LastMode(all, NthKey(all, n)) \in RuleMode
    BY <1>2, <2>4, RuleFields
  <2> QED BY <2>1, <2>2, <2>3, <2>5, RuleFields
\* Some merged rule has the user's key; it has the user's mode.
<1>7. PICK k \in 1..N : SameKey(m[k], own)
  <2>1. CASE \E i \in 1..Len(g) : SameKey(g[i], own)
    <3>1. PICK i \in 1..Len(g) : SameKey(g[i], own)
      BY <2>1
    <3>2. i \in 1..N /\ NthKey(all, i) = i
      BY <1>2, <1>3, <1>4
    <3> QED BY <1>2, <1>6, <3>1, <3>2 DEF SameKey
  <2>2. CASE \A i \in 1..Len(g) : ~SameKey(g[i], own)
    <3>1. Len(g) + 1 \in Firsts(all) /\ Len(g) + 1 \notin 1..Len(g)
      BY <1>2, <2>2 DEF Firsts
    <3>2. (1..Len(g)) \cup {Len(g) + 1} \in SUBSET Firsts(all)
      BY <1>4, <3>1
    <3>3. IsFiniteSet(Firsts(all))
      <4>1. Firsts(all) \in SUBSET (1..Len(all)) /\ IsFiniteSet(1..Len(all))
        BY <1>2, FS_Interval DEF Firsts
      <4> QED BY <4>1, FS_Subset
    <3>4. Cardinality((1..Len(g)) \cup {Len(g) + 1}) = Len(g) + 1
      <4>1. IsFiniteSet(1..Len(g)) /\ Cardinality(1..Len(g)) = Len(g)
        <5>1. Len(g) \in Nat
          BY <1>2
        <5> QED BY <5>1, NumbersUpTo
      <4> QED BY <3>1, <4>1, FS_AddElement
    <3>5. Len(g) + 1 <= N
      BY <3>2, <3>3, <3>4, FS_Subset DEF N
    <3>6. Len(g) + 1 \in 1..N
      BY <1>2, <1>3, <3>5
    <3>7. NthKey(all, Len(g) + 1) > Len(g) /\ NthKey(all, Len(g) + 1) \in 1..Len(all)
      BY <1>2, <1>4, <1>6, <3>6
    <3>8. NthKey(all, Len(g) + 1) = Len(g) + 1
      BY <1>2, <3>7
    <3> QED BY <1>2, <1>6, <3>6, <3>8
  <2> QED BY <2>1, <2>2
<1>8. m[k].mode = own.mode
  <2>1. PICK j \in 1..Len(all) : /\ SameKey(all[j], all[NthKey(all, k)])
                                 /\ \A i \in (j + 1)..Len(all) : ~SameKey(all[i], all[NthKey(all, k)])
                                 /\ LastMode(all, NthKey(all, k)) = all[j].mode
    BY <1>2, <1>6, LastModeIs
  <2>2. SameKey(own, all[NthKey(all, k)])
    BY <1>6, <1>7 DEF SameKey
  <2>3. j = Len(g) + 1
    <3>1. j < Len(g) + 1 => Len(g) + 1 \in (j + 1)..Len(all)
      BY <1>2
    <3> QED BY <1>2, <2>1, <2>2, <3>1
  <2> QED BY <1>2, <1>6, <2>1, <2>3
\* No other merged rule that matches is as specific.
<1>9. k \in Matches(m, s, t)
  BY <1>1, <1>3, <1>7 DEF Matches, SameKey, own
<1>10. ASSUME NEW n \in Matches(m, s, t) \ {k} PROVE Specific(m[n]) < Specific(m[k])
  <2>1. n \in 1..N /\ Specific(m[n]) \in 0..3 /\ Specific(m[k]) \in 0..3 /\ Specific(m[k]) = Specific(own)
    <3>1. n \in 1..N /\ m[n] \in PolicyRule /\ m[k] \in PolicyRule
      BY <1>3 DEF Matches
    <3> QED BY <1>7, <3>1, RuleFields DEF Specific, SameKey
  <2>2. Specific(m[n]) # Specific(m[k])
    <3> SUFFICES ASSUME Specific(m[n]) = Specific(m[k]) PROVE FALSE
      OBVIOUS
    <3>1. SameKey(m[n], m[k])
      BY <1>3, <1>9, SpecificIsKey
    <3>2. SameKey(all[NthKey(all, n)], all[NthKey(all, k)])
      BY <1>6, <2>1, <3>1 DEF SameKey
    <3>3. NthKey(all, n) = NthKey(all, k)
      <4>1. /\ NthKey(all, n) \in Firsts(all) /\ NthKey(all, k) \in Firsts(all)
            /\ NthKey(all, n) \in Nat \ {0} /\ NthKey(all, k) \in Nat \ {0}
        BY <1>2, <1>6, <2>1
      <4>2. ~(NthKey(all, n) < NthKey(all, k)) /\ ~(NthKey(all, k) < NthKey(all, n))
        BY <3>2, <4>1 DEF Firsts, SameKey
      <4> QED BY <4>1, <4>2
    <3>4. n = k
      BY <1>2, <2>1, <3>3, NthKeyIs DEF N
    <3> QED BY <3>4
  <2>3. Specific(m[n]) <= Specific(own)
    <3>1. CASE NthKey(all, n) \in 1..Len(g)
      <4>1. NthKey(all, n) \in Matches(g, s, t) /\ all[NthKey(all, n)] = g[NthKey(all, n)]
        BY <1>2, <1>3, <1>6, <2>1, <3>1 DEF Matches, SameKey
      <4> QED BY <1>5, <1>6, <2>1, <4>1
    <3>2. CASE NthKey(all, n) \notin 1..Len(g)
      <4>1. NthKey(all, n) = Len(g) + 1
        BY <1>2, <1>6, <2>1, <3>2
      <4> QED BY <1>2, <1>6, <2>1, <4>1
    <3> QED BY <3>1, <3>2
  <2> QED BY <2>1, <2>2, <2>3
<1>11. Chosen(m, s, t) = k
  BY <1>3, <1>9, <1>10, ChosenAlone
<1>12. Limited(m, s, t, limit) = CapMode(own.mode, limit)
  BY <1>8, <1>9, <1>11 DEF Limited
<1> QED BY <1>1, <1>12 DEF m, own

(***************************************************************************)
(* The invariant: the rules are rules, and the table has finitely many     *)
(* requests of each kind.                                                  *)
(***************************************************************************)
PolicyInv ==
  /\ globalRules \in Seq(PolicyRule) /\ userRules \in Seq(PolicyRule) /\ ceiling \in PolicyMode
  /\ userHasRules \in BOOLEAN /\ (userRules # <<>> => userHasRules = TRUE)
  /\ pending \in [Title -> Nat] /\ fulfilled \in [Title -> Nat]
  /\ IsFiniteSet(Rows(pending)) /\ IsFiniteSet(Rows(fulfilled))

\* What a batch is, and that the table has no more requests than a bound of the model lets
\* a batch bring it to: what the types of the numbers of requests rest on.
BatchType ==
  [open : BOOLEAN, toQueue : Seq(BatchItem), created : SUBSET Title,
   answer : {"none", "refused", "queue_failed", "created"}]
TableFits ==
  /\ queuedNow \subseteq Title /\ batch \in BatchType
  /\ RowCount(pending) + RowCount(fulfilled) <= RequestCount

\* A title's rows.
LEMMA RowsOf ==
  ASSUME NEW f \in [Title -> Nat]
  PROVE  \A r : r \in Rows(f) <=> r \in Title \X Nat /\ r = <<r[1], r[2]>> /\ 1 <= r[2] /\ r[2] <= f[r[1]]
BY DEF Rows

\* A title has no more rows than the table.
LEMMA RowsCounted ==
  ASSUME NEW f \in [Title -> Nat], IsFiniteSet(Rows(f))
  PROVE  RowCount(f) \in Nat /\ \A k \in Title : f[k] <= RowCount(f)
<1>1. RowCount(f) \in Nat
  BY FS_CardinalityType DEF RowCount
<1>2. ASSUME NEW k \in Title PROVE f[k] <= RowCount(f)
  <2> DEFINE own == [n \in 1..f[k] |-> <<k, n>>]
  <2>1. \A n \in 1..f[k] : <<k, n>> \in Rows(f)
    BY RowsOf
  <2>2. own \in Injection(1..f[k], Rows(f))
    BY <2>1 DEF Injection, IsInjective
  <2>3. IsFiniteSet(1..f[k]) /\ Cardinality(1..f[k]) = f[k]
    BY NumbersUpTo
  <2>4. Cardinality(1..f[k]) <= Cardinality(Rows(f))
    <3> HIDE DEF own
    <3> QED BY <2>2, FS_Injection
  <2> QED BY <2>3, <2>4 DEF RowCount
<1> QED BY <1>1, <1>2

\* One request more, or one less, of a title.
LEMMA RowMoves ==
  ASSUME NEW f \in [Title -> Nat], IsFiniteSet(Rows(f)), NEW k \in Title
  PROVE  /\ [f EXCEPT ![k] = @ + 1] \in [Title -> Nat] /\ IsFiniteSet(Rows([f EXCEPT ![k] = @ + 1]))
         /\ RowCount([f EXCEPT ![k] = @ + 1]) <= RowCount(f) + 1
         /\ f[k] > 0 => /\ [f EXCEPT ![k] = @ - 1] \in [Title -> Nat]
                        /\ IsFiniteSet(Rows([f EXCEPT ![k] = @ - 1]))
                        /\ RowCount([f EXCEPT ![k] = @ - 1]) + 1 <= RowCount(f)
<1> DEFINE up == [f EXCEPT ![k] = f[k] + 1]
           down == [f EXCEPT ![k] = f[k] - 1]
<1>1. up \in [Title -> Nat] /\ \A x \in Title : up[x] = IF x = k THEN f[x] + 1 ELSE f[x]
  OBVIOUS
<1>2. f[k] > 0 => down \in [Title -> Nat] /\ \A x \in Title : down[x] = IF x = k THEN f[x] - 1 ELSE f[x]
  OBVIOUS
<1> HIDE DEF up, down
<1>3. Rows(up) \in SUBSET (Rows(f) \cup {<<k, f[k] + 1>>})
  <2> SUFFICES ASSUME NEW r \in Rows(up), r \notin Rows(f) PROVE r = <<k, f[k] + 1>>
    OBVIOUS
  <2>1. r \in Title \X Nat /\ r = <<r[1], r[2]>> /\ 1 <= r[2] /\ r[2] <= up[r[1]] /\ ~(r[2] <= f[r[1]])
    BY <1>1, RowsOf
  <2>2. r[1] = k /\ r[2] = f[k] + 1
    BY <1>1, <2>1
  <2> QED BY <2>1, <2>2
<1>4. f[k] > 0 => Rows(down) \in SUBSET Rows(f) /\ <<k, f[k]>> \in Rows(f) \ Rows(down)
  <2> SUFFICES ASSUME f[k] > 0
               PROVE  Rows(down) \in SUBSET Rows(f) /\ <<k, f[k]>> \in Rows(f) \ Rows(down)
    OBVIOUS
  <2>1. ASSUME NEW r \in Rows(down) PROVE r \in Rows(f) /\ r # <<k, f[k]>>
    <3>1. r \in Title \X Nat /\ r = <<r[1], r[2]>> /\ 1 <= r[2] /\ r[2] <= down[r[1]]
      BY <1>2, <2>1, RowsOf
    <3>2. r[2] <= f[r[1]] /\ r # <<k, f[k]>>
      BY <1>2, <3>1
    <3> QED BY <3>1, <3>2, RowsOf
  <2>2. <<k, f[k]>> \in Rows(f)
    BY RowsOf
  <2> QED BY <2>1, <2>2
<1>5. IsFiniteSet(Rows(f) \cup {<<k, f[k] + 1>>}) /\ Cardinality(Rows(f) \cup {<<k, f[k] + 1>>}) <= RowCount(f) + 1
  <2>1. Cardinality(Rows(f) \cup {<<k, f[k] + 1>>}) \in {RowCount(f), RowCount(f) + 1}
    BY FS_AddElement DEF RowCount
  <2>2. RowCount(f) \in Nat
    BY RowsCounted
  <2>3. IsFiniteSet(Rows(f) \cup {<<k, f[k] + 1>>})
    BY FS_AddElement
  <2> QED BY <2>1, <2>2, <2>3
<1>6. /\ IsFiniteSet(Rows(up)) /\ RowCount(up) <= Cardinality(Rows(f) \cup {<<k, f[k] + 1>>})
      /\ f[k] > 0 => IsFiniteSet(Rows(down)) /\ RowCount(down) <= RowCount(f) /\ RowCount(down) # RowCount(f)
  BY <1>3, <1>4, <1>5, FS_Subset DEF RowCount
<1>7. /\ RowCount(up) \in Nat /\ RowCount(f) \in Nat
      /\ Cardinality(Rows(f) \cup {<<k, f[k] + 1>>}) \in Nat
      /\ f[k] > 0 => RowCount(down) \in Nat
  BY <1>5, <1>6, FS_CardinalityType DEF RowCount
<1>8. RowCount(up) <= RowCount(f) + 1 /\ (f[k] > 0 => RowCount(down) + 1 <= RowCount(f))
  BY <1>5, <1>6, <1>7
<1> QED BY <1>1, <1>2, <1>6, <1>8 DEF up, down

\* A batch that is accepted adds one request for each of its titles, and stays within the limit.
LEMMA BatchAdds ==
  ASSUME PolicyInv, NEW n \in Nat, NEW items, DOMAIN items \subseteq 1..n,
         NEW asked, asked \subseteq DOMAIN items, Accepted(items, asked),
         pending' = [k \in Title |-> pending[k] + (IF k \in {items[i].title : i \in asked} THEN 1 ELSE 0)]
  PROVE  /\ pending' \in [Title -> Nat] /\ IsFiniteSet(Rows(pending'))
         /\ pending' # pending => RowCount(pending') <= PendingLimit
         /\ \A k \in Title : pending'[k] > pending[k] => pending'[k] = 1
         /\ RowCount(pending') <= RowCount(pending) + Cardinality(asked)
<1> DEFINE new == {items[i].title : i \in asked} \cap Title
           added == {<<k, 1>> : k \in new}
           single == [i \in {j \in asked : items[j].title \in Title} |-> <<items[i].title, 1>>]
           told == {j \in asked : items[j].title \in Title}
<1>1. /\ pending \in [Title -> Nat] /\ IsFiniteSet(Rows(pending))
      /\ \A i \in asked : pending[items[i].title] = 0
      /\ asked # {} => RowCount(pending) + Cardinality(asked) <= PendingLimit
  BY DEF PolicyInv, Accepted
<1>2. IsFiniteSet(asked)
  <2>1. IsFiniteSet(1..n) /\ asked \in SUBSET (1..n)
    BY NumbersUpTo
  <2> QED BY <2>1, FS_Subset
<1>3. /\ \A k \in Title : pending'[k] = IF k \in new THEN pending[k] + 1 ELSE pending[k]
      /\ \A k \in new : pending[k] = 0
      /\ pending' \in [Title -> Nat]
  BY <1>1
<1>4. IsFiniteSet(added) /\ Cardinality(added) <= Cardinality(asked)
  <2>1. single \in Surjection(told, added)
    BY DEF Surjection
  <2>2. told \in SUBSET asked
    OBVIOUS
  <2> HIDE DEF single, told, added
  <2>3. IsFiniteSet(told) /\ Cardinality(told) <= Cardinality(asked)
    BY <1>2, <2>2, FS_Subset
  <2>4. IsFiniteSet(added) /\ Cardinality(added) <= Cardinality(told)
    BY <2>1, <2>3, FS_Surjection
  <2>5. Cardinality(added) \in Nat /\ Cardinality(told) \in Nat /\ Cardinality(asked) \in Nat
    BY <1>2, <2>3, <2>4, FS_CardinalityType
  <2> QED BY <2>3, <2>4, <2>5
<1>5. Rows(pending') \in SUBSET (Rows(pending) \cup added)
  <2> SUFFICES ASSUME NEW r \in Rows(pending'), r \notin Rows(pending) PROVE r \in added
    OBVIOUS
  <2>1. r \in Title \X Nat /\ r = <<r[1], r[2]>> /\ 1 <= r[2] /\ r[2] <= pending'[r[1]] /\ ~(r[2] <= pending[r[1]])
    BY <1>1, <1>3, RowsOf
  <2>2. r[1] \in new /\ r[2] = 1
    BY <1>1, <1>3, <2>1
  <2> QED BY <2>1, <2>2
<1> HIDE DEF new, added, single, told
<1>6. /\ IsFiniteSet(Rows(pending) \cup added)
      /\ Cardinality(Rows(pending) \cup added) <= Cardinality(Rows(pending)) + Cardinality(added)
  <2>1. /\ IsFiniteSet(Rows(pending) \cup added) /\ IsFiniteSet(Rows(pending) \cap added)
        /\ Cardinality(Rows(pending) \cup added)
             = Cardinality(Rows(pending)) + Cardinality(added) - Cardinality(Rows(pending) \cap added)
    BY <1>1, <1>4, FS_Union, FS_Intersection
  <2>2. /\ Cardinality(Rows(pending) \cap added) \in Nat /\ Cardinality(Rows(pending)) \in Nat
        /\ Cardinality(added) \in Nat
    BY <1>1, <1>4, <2>1, FS_CardinalityType
  <2> QED BY <2>1, <2>2
<1>7. IsFiniteSet(Rows(pending')) /\ Cardinality(Rows(pending')) <= Cardinality(Rows(pending) \cup added)
  BY <1>5, <1>6, FS_Subset
<1>8. pending' # pending => RowCount(pending') <= PendingLimit
  <2> HAVE pending' # pending
  <2>1. asked # {}
    <3> SUFFICES ASSUME asked = {} PROVE FALSE
      OBVIOUS
    <3>1. new = {}
      BY DEF new
    <3> QED BY <1>1, <1>3, <3>1
  <2>2. /\ Cardinality(Rows(pending)) \in Nat /\ Cardinality(added) \in Nat /\ Cardinality(asked) \in Nat
        /\ Cardinality(Rows(pending')) \in Nat /\ Cardinality(Rows(pending) \cup added) \in Nat
        /\ PendingLimit \in Nat
    BY <1>1, <1>2, <1>4, <1>6, <1>7, FS_CardinalityType, PolicyAssumption DEF PolicyAssumption
  <2>3. Cardinality(Rows(pending)) + Cardinality(asked) <= PendingLimit
    BY <1>1, <2>1 DEF RowCount
  <2> QED BY <1>4, <1>6, <1>7, <2>2, <2>3 DEF RowCount
<1>9. \A k \in Title : pending'[k] > pending[k] => pending'[k] = 1
  BY <1>1, <1>3
<1>10. RowCount(pending') <= RowCount(pending) + Cardinality(asked)
  <2>1. /\ Cardinality(Rows(pending)) \in Nat /\ Cardinality(added) \in Nat /\ Cardinality(asked) \in Nat
        /\ Cardinality(Rows(pending')) \in Nat /\ Cardinality(Rows(pending) \cup added) \in Nat
    BY <1>1, <1>2, <1>4, <1>6, <1>7, FS_CardinalityType
  <2> QED BY <1>4, <1>6, <1>7, <2>1 DEF RowCount
<1> QED BY <1>3, <1>7, <1>8, <1>9, <1>10

\* A batch is submitted.
LEMMA SubmitStep ==
  ASSUME PolicyInv, NEW items \in [1..1 -> BatchItem] \cup [1..2 -> BatchItem], NEW mode, Submit(items, mode)
  PROVE  /\ PolicyInv'
         /\ pending' # pending => /\ RowCount(pending') <= PendingLimit
                                  /\ \A k \in Title : pending'[k] > pending[k] => pending'[k] = 1
<1> DEFINE asked == {i \in DOMAIN items : mode[items[i].source] # "download"}
<1>1. UNCHANGED <<globalRules, userRules, userHasRules, ceiling, fulfilled>>
  BY DEF Submit
<1>2. \/ UNCHANGED pending
      \/ /\ Accepted(items, asked)
         /\ pending' = [k \in Title |-> pending[k] + (IF k \in {items[i].title : i \in asked} THEN 1 ELSE 0)]
  BY DEF Submit
<1>3. DOMAIN items \subseteq 1..2 /\ 2 \in Nat /\ asked \subseteq DOMAIN items
  OBVIOUS
<1> HIDE DEF asked
<1>4. CASE UNCHANGED pending
  BY <1>1, <1>4 DEF PolicyInv, Rows
<1>5. CASE /\ Accepted(items, asked)
           /\ pending' = [k \in Title |-> pending[k] + (IF k \in {items[i].title : i \in asked} THEN 1 ELSE 0)]
  <2>1. /\ pending' \in [Title -> Nat] /\ IsFiniteSet(Rows(pending'))
        /\ pending' # pending => RowCount(pending') <= PendingLimit
        /\ \A k \in Title : pending'[k] > pending[k] => pending'[k] = 1
    BY <1>3, <1>5, BatchAdds
  <2>2. PolicyInv'
    BY <1>1, <2>1 DEF PolicyInv, Rows
  <2> QED BY <2>1, <2>2
<1> QED BY <1>2, <1>4, <1>5

\* The other steps.
LEMMA PolicySteps ==
  ASSUME PolicyInv,
         \/ \E mode \in PolicyMode : SetDefault(mode)
         \/ \E r \in PolicyRule : AddGlobalRule(r) \/ AddUserRule(r)
         \/ SaveNoRules
         \/ QueueItem \/ BatchDone
         \/ \E k \in Title : DecideRequest(k, TRUE) \/ DecideRequest(k, FALSE) \/ ReopenRequest(k) \/ DownloadEnds(k)
  PROVE  PolicyInv' /\ (pending' # pending => batch' = batch)
<1>1. CASE \E mode \in PolicyMode : SetDefault(mode)
  BY <1>1 DEF SetDefault, PolicyInv, Rows
<1>2. CASE \E r \in PolicyRule : AddGlobalRule(r) \/ AddUserRule(r)
  <2>1. PICK r \in PolicyRule : AddGlobalRule(r) \/ AddUserRule(r)
    BY <1>2
  <2>2. /\ globalRules' \in {globalRules, Append(globalRules, r)} /\ userRules' \in {userRules, Append(userRules, r)}
        /\ UNCHANGED <<userRules, userHasRules>> \/ userHasRules' = TRUE
        /\ userHasRules' \in {userHasRules, TRUE}
        /\ UNCHANGED <<ceiling, pending, fulfilled>>
    BY <2>1 DEF AddGlobalRule, AddUserRule
  <2>3. globalRules' \in Seq(PolicyRule) /\ userRules' \in Seq(PolicyRule)
    <3>1. \A rules \in Seq(PolicyRule) : Append(rules, r) \in Seq(PolicyRule)
      OBVIOUS
    <3>2. globalRules \in Seq(PolicyRule) /\ userRules \in Seq(PolicyRule)
      BY DEF PolicyInv
    <3>3. Append(globalRules, r) \in Seq(PolicyRule) /\ Append(userRules, r) \in Seq(PolicyRule)
      BY <3>1, <3>2
    <3> QED BY <2>2, <3>2, <3>3
  <2> QED BY <2>2, <2>3 DEF PolicyInv, Rows
<1>3. CASE QueueItem \/ BatchDone
  <2>1. UNCHANGED <<globalRules, userRules, userHasRules, ceiling, pending, fulfilled>>
    BY <1>3 DEF QueueItem, BatchDone
  <2> QED BY <2>1 DEF PolicyInv, Rows
<1>4. ASSUME NEW k \in Title,
             DecideRequest(k, TRUE) \/ DecideRequest(k, FALSE) \/ ReopenRequest(k) \/ DownloadEnds(k)
      PROVE  PolicyInv' /\ batch' = batch
  <2>1. /\ pending \in [Title -> Nat] /\ fulfilled \in [Title -> Nat]
        /\ IsFiniteSet(Rows(pending)) /\ IsFiniteSet(Rows(fulfilled))
    BY DEF PolicyInv
  <2>2. CASE DecideRequest(k, TRUE) \/ DecideRequest(k, FALSE)
    <3>1. /\ pending[k] > 0 /\ pending' = [pending EXCEPT ![k] = @ - 1]
          /\ fulfilled' = [fulfilled EXCEPT ![k] = @ + 1] \/ fulfilled' = fulfilled
          /\ UNCHANGED <<globalRules, userRules, userHasRules, ceiling, batch>>
      BY <2>2 DEF DecideRequest
    <3>2. pending' \in [Title -> Nat] /\ IsFiniteSet(Rows(pending'))
      BY <2>1, <3>1, RowMoves
    <3>3. fulfilled' \in [Title -> Nat] /\ IsFiniteSet(Rows(fulfilled'))
      <4>1. CASE fulfilled' = fulfilled
        BY <2>1, <4>1
      <4>2. CASE fulfilled' = [fulfilled EXCEPT ![k] = @ + 1]
        BY <2>1, <4>2, RowMoves
      <4> QED BY <3>1, <4>1, <4>2
    <3> QED BY <3>1, <3>2, <3>3 DEF PolicyInv, Rows
  <2>3. CASE ReopenRequest(k)
    <3>1. /\ fulfilled[k] > 0 /\ fulfilled' = [fulfilled EXCEPT ![k] = @ - 1]
          /\ pending' = [pending EXCEPT ![k] = @ + 1]
          /\ UNCHANGED <<globalRules, userRules, userHasRules, ceiling, batch>>
      BY <2>3 DEF ReopenRequest
    <3>2. pending' \in [Title -> Nat] /\ IsFiniteSet(Rows(pending'))
      BY <2>1, <3>1, RowMoves
    <3>3. fulfilled' \in [Title -> Nat] /\ IsFiniteSet(Rows(fulfilled'))
      BY <2>1, <3>1, RowMoves
    <3> QED BY <3>1, <3>2, <3>3 DEF PolicyInv, Rows
  <2>4. CASE DownloadEnds(k)
    BY <2>4 DEF DownloadEnds, PolicyInv, Rows
  <2> QED BY <1>4, <2>2, <2>3, <2>4
<1>5. CASE SaveNoRules
  BY <1>5 DEF SaveNoRules, PolicyInv, Rows
<1> QED BY <1>1, <1>2, <1>3, <1>4, <1>5
  DEF SetDefault, AddGlobalRule, AddUserRule, SaveNoRules, QueueItem, BatchDone

\* A batch is one of its type, whatever is queued of it and asked for.
LEMMA BatchTyped ==
  ASSUME PolicyInv, TableFits,
         NEW items \in [1..1 -> BatchItem] \cup [1..2 -> BatchItem], NEW mode, Submit(items, mode)
  PROVE  batch' \in BatchType
<1> DEFINE asked == {i \in DOMAIN items : mode[items[i].source] # "download"}
           places == DOMAIN items \ asked
<1>1. /\ items \in Seq(BatchItem) /\ places \subseteq 1..Len(items) /\ asked \subseteq DOMAIN items
      /\ \A i \in DOMAIN items : items[i] \in BatchItem /\ items[i].title \in Title
  <2>1. PICK n \in {1, 2} : items \in [1..n -> BatchItem]
    OBVIOUS
  <2>2. items \in Seq(BatchItem) /\ DOMAIN items = 1..Len(items)
    BY <2>1
  <2>3. \A i \in DOMAIN items : items[i] \in BatchItem
    BY <2>1
  <2>4. \A x \in BatchItem : x.title \in Title
    BY DEF BatchItem
  <2> QED BY <2>2, <2>3, <2>4
<1>2. \/ batch' = [open |-> TRUE, toQueue |-> Picked(items, places),
                   created |-> {items[i].title : i \in asked}, answer |-> "none"]
      \/ batch' = [IdleBatch EXCEPT !.answer = "refused"]
  BY DEF Submit
<1> HIDE DEF asked, places
<1>3. Picked(items, places) \in Seq(BatchItem)
  BY <1>1, PickedIs
<1>4. {items[i].title : i \in asked} \subseteq Title
  BY <1>1
<1>5. [IdleBatch EXCEPT !.answer = "refused"] \in BatchType
  <2>1. <<>> \in Seq(BatchItem)
    OBVIOUS
  <2> QED BY <2>1 DEF IdleBatch, BatchType
<1>6. ASSUME NEW list \in Seq(BatchItem), NEW new \in SUBSET Title
      PROVE  [open |-> TRUE, toQueue |-> list, created |-> new, answer |-> "none"] \in BatchType
  BY DEF BatchType
<1>7. [open |-> TRUE, toQueue |-> Picked(items, places),
       created |-> {items[i].title : i \in asked}, answer |-> "none"] \in BatchType
  BY <1>3, <1>4, <1>6
<1> QED BY <1>2, <1>5, <1>7

\* A batch that is submitted keeps to the bound.
LEMMA SubmitFits ==
  ASSUME PolicyInv, TableFits,
         NEW items \in [1..1 -> BatchItem] \cup [1..2 -> BatchItem], NEW mode, Submit(items, mode)
  PROVE  TableFits'
<1> DEFINE asked == {i \in DOMAIN items : mode[items[i].source] # "download"}
<1>1. /\ UNCHANGED <<fulfilled, queuedNow>>
      /\ RowCount(pending) + RowCount(fulfilled) + Cardinality(asked) <= RequestCount
      /\ \/ UNCHANGED pending
         \/ /\ Accepted(items, asked)
            /\ pending' = [k \in Title |-> pending[k] + (IF k \in {items[i].title : i \in asked} THEN 1 ELSE 0)]
  BY DEF Submit
<1>2. DOMAIN items \subseteq 1..2 /\ 2 \in Nat /\ asked \subseteq DOMAIN items
  OBVIOUS
<1> HIDE DEF asked
<1>3. IsFiniteSet(asked) /\ Cardinality(asked) \in Nat
  <2>1. IsFiniteSet(1..2) /\ asked \in SUBSET (1..2)
    BY <1>2, NumbersUpTo
  <2> QED BY <2>1, FS_Subset, FS_CardinalityType
<1>4. IsFiniteSet(Rows(pending')) /\ RowCount(pending') <= RowCount(pending) + Cardinality(asked)
  <2>1. RowCount(pending) \in Nat
    BY RowsCounted DEF PolicyInv
  <2>2. CASE UNCHANGED pending
    BY <1>3, <2>1, <2>2 DEF RowCount, Rows, PolicyInv
  <2>3. CASE /\ Accepted(items, asked)
             /\ pending' = [k \in Title |-> pending[k] + (IF k \in {items[i].title : i \in asked} THEN 1 ELSE 0)]
    BY <1>2, <2>3, BatchAdds
  <2> QED BY <1>1, <2>2, <2>3
<1>5. /\ RowCount(pending) \in Nat /\ RowCount(fulfilled) \in Nat /\ RowCount(pending') \in Nat
      /\ RequestCount \in Nat /\ RowCount(fulfilled)' = RowCount(fulfilled) /\ RowCount(pending)' = RowCount(pending')
  BY <1>1, <1>4, RowsCounted, FS_CardinalityType, PolicyAssumption
  DEF PolicyInv, PolicyAssumption, RowCount, Rows
<1>6. (RowCount(pending) + RowCount(fulfilled) <= RequestCount)'
  BY <1>1, <1>3, <1>4, <1>5
<1> QED BY <1>1, <1>6, BatchTyped DEF TableFits

\* So do the other steps: a decision brings no request, a reopening takes one for one.
LEMMA StepsFit ==
  ASSUME PolicyInv, TableFits,
         \/ \E mode \in PolicyMode : SetDefault(mode)
         \/ \E r \in PolicyRule : AddGlobalRule(r) \/ AddUserRule(r)
         \/ SaveNoRules
         \/ QueueItem \/ BatchDone
         \/ \E k \in Title : DecideRequest(k, TRUE) \/ DecideRequest(k, FALSE) \/ ReopenRequest(k) \/ DownloadEnds(k)
  PROVE  TableFits'
<1>1. CASE UNCHANGED <<pending, fulfilled, queuedNow, batch>>
  BY <1>1 DEF TableFits, RowCount, Rows
<1>2. CASE QueueItem \/ BatchDone
  <2>1. UNCHANGED <<pending, fulfilled>>
    BY <1>2 DEF QueueItem, BatchDone
  <2>2. batch' \in BatchType
    <3>1. batch \in BatchType
      BY DEF TableFits
    <3>2. \/ batch' = [batch EXCEPT !.toQueue = Tail(batch.toQueue)] /\ batch.toQueue # <<>>
          \/ \E a \in {"queue_failed", "created"} : batch' = [batch EXCEPT !.open = FALSE, !.answer = a]
      BY <1>2 DEF QueueItem, BatchDone
    <3>3. batch.toQueue # <<>> => Tail(batch.toQueue) \in Seq(BatchItem)
      <4>1. batch.toQueue \in Seq(BatchItem)
        BY <3>1 DEF BatchType
      <4> QED BY <4>1
    <3> QED BY <3>1, <3>2, <3>3 DEF BatchType
  <2>3. queuedNow' \subseteq Title
    <3>1. CASE queuedNow' = queuedNow
      BY <3>1 DEF TableFits
    <3>2. CASE batch.toQueue # <<>> /\ queuedNow' = queuedNow \cup {Head(batch.toQueue).title}
      <4>1. batch.toQueue \in Seq(BatchItem)
        BY DEF TableFits, BatchType
      <4>2. Head(batch.toQueue) \in BatchItem
        BY <3>2, <4>1
      <4>3. Head(batch.toQueue).title \in Title
        BY <4>2 DEF BatchItem
      <4> QED BY <3>2, <4>3 DEF TableFits
    <3> QED BY <1>2, <3>1, <3>2 DEF QueueItem, BatchDone
  <2> QED BY <2>1, <2>2, <2>3 DEF TableFits, RowCount, Rows
<1>3. ASSUME NEW k \in Title,
             DecideRequest(k, TRUE) \/ DecideRequest(k, FALSE) \/ ReopenRequest(k) \/ DownloadEnds(k)
      PROVE  TableFits'
  <2>1. /\ pending \in [Title -> Nat] /\ fulfilled \in [Title -> Nat]
        /\ IsFiniteSet(Rows(pending)) /\ IsFiniteSet(Rows(fulfilled))
    BY DEF PolicyInv
  <2>2. ASSUME UNCHANGED <<queuedNow, batch>>, IsFiniteSet(Rows(pending')), IsFiniteSet(Rows(fulfilled')),
               \/ RowCount(pending') + 1 <= RowCount(pending) /\ RowCount(fulfilled') <= RowCount(fulfilled) + 1
               \/ RowCount(pending') <= RowCount(pending) + 1 /\ RowCount(fulfilled') + 1 <= RowCount(fulfilled)
        PROVE  TableFits'
    <3>1. /\ RowCount(pending) \in Nat /\ RowCount(fulfilled) \in Nat
          /\ RowCount(pending') \in Nat /\ RowCount(fulfilled') \in Nat
          /\ RequestCount \in Nat /\ RowCount(pending) + RowCount(fulfilled) <= RequestCount
      BY <2>1, <2>2, FS_CardinalityType, PolicyAssumption DEF RowCount, PolicyAssumption, TableFits
    <3>2. RowCount(pending') + RowCount(fulfilled') <= RequestCount
      BY <2>2, <3>1
    <3>3. RowCount(pending)' = RowCount(pending') /\ RowCount(fulfilled)' = RowCount(fulfilled')
      BY DEF RowCount, Rows
    <3> QED BY <2>2, <3>2, <3>3 DEF TableFits
  <2>3. CASE DecideRequest(k, TRUE) \/ DecideRequest(k, FALSE)
    <3>1. /\ pending[k] > 0 /\ pending' = [pending EXCEPT ![k] = @ - 1]
          /\ fulfilled' = [fulfilled EXCEPT ![k] = @ + 1] \/ fulfilled' = fulfilled
          /\ UNCHANGED <<queuedNow, batch>>
      BY <2>3 DEF DecideRequest
    <3>2. IsFiniteSet(Rows(pending')) /\ RowCount(pending') + 1 <= RowCount(pending)
      BY <2>1, <3>1, RowMoves
    <3>3. IsFiniteSet(Rows(fulfilled')) /\ RowCount(fulfilled') <= RowCount(fulfilled) + 1
      <4>1. CASE fulfilled' = fulfilled
        <5>1. RowCount(fulfilled) \in Nat
          BY <2>1, RowsCounted
        <5>2. RowCount(fulfilled') = RowCount(fulfilled) /\ IsFiniteSet(Rows(fulfilled'))
          BY <2>1, <4>1
        <5> QED BY <5>1, <5>2
      <4>2. CASE fulfilled' = [fulfilled EXCEPT ![k] = @ + 1]
        BY <2>1, <4>2, RowMoves
      <4> QED BY <3>1, <4>1, <4>2
    <3> QED BY <2>2, <3>1, <3>2, <3>3
  <2>4. CASE ReopenRequest(k)
    <3>1. /\ fulfilled[k] > 0 /\ fulfilled' = [fulfilled EXCEPT ![k] = @ - 1]
          /\ pending' = [pending EXCEPT ![k] = @ + 1]
          /\ UNCHANGED <<queuedNow, batch>>
      BY <2>4 DEF ReopenRequest
    <3>2. IsFiniteSet(Rows(pending')) /\ RowCount(pending') <= RowCount(pending) + 1
      BY <2>1, <3>1, RowMoves
    <3>3. IsFiniteSet(Rows(fulfilled')) /\ RowCount(fulfilled') + 1 <= RowCount(fulfilled)
      BY <2>1, <3>1, RowMoves
    <3> QED BY <2>2, <3>1, <3>2, <3>3
  <2>5. CASE DownloadEnds(k)
    BY <2>5 DEF DownloadEnds, TableFits, RowCount, Rows
  <2> QED BY <1>3, <2>3, <2>4, <2>5
<1> QED BY <1>1, <1>2, <1>3 DEF SetDefault, AddGlobalRule, AddUserRule, SaveNoRules

\* The rules and the table at first.
LEMMA PolicyInitInv == ASSUME PolicyInit PROVE PolicyInv
<1>1. \A f : f = [k \in Title |-> 0] => f \in [Title -> Nat] /\ Rows(f) = {}
  <2> SUFFICES ASSUME NEW f, f = [k \in Title |-> 0] PROVE f \in [Title -> Nat] /\ Rows(f) = {}
    OBVIOUS
  <2>1. f \in [Title -> Nat]
    OBVIOUS
  <2>2. ASSUME NEW r \in Rows(f) PROVE FALSE
    BY <2>1, <2>2, RowsOf
  <2> QED BY <2>1, <2>2
<1>2. <<>> \in Seq(PolicyRule) /\ "download" \in PolicyMode
  BY ModeFacts
<1> QED BY <1>1, <1>2, FS_EmptySet DEF PolicyInit, PolicyInv

\* Rules stay rules and the table finite.
THEOREM PolicyInvariant == PolicySpec => []PolicyInv
<1>1. PolicyInit => PolicyInv
  BY PolicyInitInv
<1>2. PolicyInv /\ [PolicyNext]_policyVars => PolicyInv'
  <2>1. CASE PolicyInv /\ UNCHANGED policyVars
    BY <2>1 DEF policyVars, PolicyInv, Rows
  <2>2. CASE PolicyInv /\ PolicyNext
    BY <2>2, PolicySteps, SubmitStep DEF PolicyNext
  <2> QED BY <2>1, <2>2
<1> QED BY <1>1, <1>2, PTL DEF PolicySpec

\* For any rules of the settings and of the user, in any number: no rule makes a mode more
\* permissive than the default, and a user's rules decide what they match and nothing else.
THEOREM PolicyModesFollowRules == PolicySpec => []ModesFollowRules
<1>1. PolicyInv => RulesOnlyRestrict
  BY ResolvedRestricts DEF PolicyInv, RulesOnlyRestrict
<1>2. PolicyInv => OverridesAreLocal
  <2> SUFFICES ASSUME PolicyInv, NEW s \in PolicySource, NEW t \in ContentType, ~Repeated
               PROVE  LET mode == ResolveMode(globalRules, userRules, userHasRules, ceiling, s, t)
                          own == Matches(userRules, s, t)
                          best == Chosen(userRules, s, t)
                      IN /\ own = {} => mode = ResolveMode(globalRules, <<>>, FALSE, ceiling, s, t)
                         /\ /\ own # {} /\ Len(userRules) = 1
                            /\ \A i \in Matches(globalRules, s, t) :
                                 Specific(globalRules[i]) <= Specific(userRules[best])
                            => mode = ReleaseResultMode(s, CapMode(userRules[best].mode, ceiling))
    BY DEF OverridesAreLocal
  <2>1. /\ globalRules \in Seq(PolicyRule) /\ userRules \in Seq(PolicyRule)
        /\ \A i, j \in DOMAIN globalRules : i # j => ~SameKey(globalRules[i], globalRules[j])
        /\ userHasRules \in BOOLEAN
    BY DEF PolicyInv, Repeated
  <2>2. Len(userRules) = 1 => userHasRules = TRUE
    <3> HAVE Len(userRules) = 1
    <3>1. userRules # <<>>
      OBVIOUS
    <3> QED BY <3>1 DEF PolicyInv
  <2>3. /\ ResolveMode(globalRules, <<>>, FALSE, ceiling, s, t)
             = ReleaseResultMode(s, Limited(globalRules, s, t, ceiling))
        /\ userHasRules = FALSE => ResolveMode(globalRules, userRules, userHasRules, ceiling, s, t)
             = ReleaseResultMode(s, Limited(globalRules, s, t, ceiling))
        /\ userHasRules = TRUE => ResolveMode(globalRules, userRules, userHasRules, ceiling, s, t)
             = ReleaseResultMode(s, Limited(Overlay(globalRules, userRules), s, t, ceiling))
    BY DEF ResolveMode, MergeRules
  <2>4. Matches(userRules, s, t) = {}
          => Limited(Overlay(globalRules, userRules), s, t, ceiling)
               = Limited(globalRules, s, t, ceiling)
    BY <2>1, UnmatchedKeeps
  <2>5. /\ Matches(userRules, s, t) # {} /\ Len(userRules) = 1
        /\ \A i \in Matches(globalRules, s, t) :
             Specific(globalRules[i]) <= Specific(userRules[Chosen(userRules, s, t)])
        => Limited(Overlay(globalRules, userRules), s, t, ceiling)
             = CapMode(userRules[Chosen(userRules, s, t)].mode, ceiling)
    BY <2>1, OwnRuleDecides
  <2> QED BY <2>1, <2>2, <2>3, <2>4, <2>5
<1>3. PolicyInv => ModesFollowRules
  BY <1>1, <1>2 DEF ModesFollowRules
<1> QED BY <1>3, PolicyInvariant, PTL

\* However many requests are pending, decided and reopened, a batch adds none beyond the limit
\* and none for a title that has one.
THEOREM PolicyBatchWithinLimits == PolicySpec => BatchWithinLimits
<1> DEFINE Within == ~batch.open /\ batch' # batch /\ pending' # pending
                       => /\ RowCount(pending') <= PendingLimit
                          /\ \A k \in Title : pending'[k] > pending[k] => pending'[k] = 1
<1>1. PolicyInv /\ [PolicyNext]_policyVars => [Within]_policyVars
  BY PolicySteps, SubmitStep DEF PolicyNext
<1> QED BY <1>1, PolicyInvariant, PTL DEF PolicySpec, BatchWithinLimits

\* No requests and no batch at first.
LEMMA FitsAtFirst == ASSUME PolicyInit PROVE TableFits
<1>1. Rows(pending) = {} /\ Rows(fulfilled) = {}
  <2>1. ASSUME NEW f, f = [k \in Title |-> 0] PROVE Rows(f) = {}
    <3>1. f \in [Title -> Nat]
      BY <2>1
    <3>2. ASSUME NEW r \in Rows(f) PROVE FALSE
      BY <2>1, <3>1, <3>2, RowsOf
    <3> QED BY <3>2
  <2> QED BY <2>1 DEF PolicyInit
<1>2. RowCount(pending) = 0 /\ RowCount(fulfilled) = 0
  BY <1>1, FS_EmptySet DEF RowCount
<1>3. batch \in BatchType
  <2>1. <<>> \in Seq(BatchItem)
    OBVIOUS
  <2> QED BY <2>1 DEF PolicyInit, IdleBatch, BatchType
<1> QED BY <1>2, <1>3, PolicyAssumption DEF PolicyInit, TableFits, PolicyAssumption

\* What holds of the policy and its table, in each step.
LEMMA PolicyStep == PolicyInv /\ TableFits /\ [PolicyNext]_policyVars => PolicyInv' /\ TableFits'
<1>1. ASSUME PolicyInv, TableFits, UNCHANGED policyVars PROVE PolicyInv' /\ TableFits'
  BY <1>1 DEF policyVars, PolicyInv, TableFits, RowCount, Rows
<1>2. ASSUME PolicyInv, TableFits, PolicyNext PROVE PolicyInv' /\ TableFits'
  BY <1>2, PolicySteps, SubmitStep, StepsFit, SubmitFits DEF PolicyNext
<1> QED BY <1>1, <1>2

\* With that, no title has more requests than the bound.
LEMMA PolicyTypes == PolicyInv /\ TableFits => PolicyTypeOK
<1> SUFFICES ASSUME PolicyInv, TableFits PROVE PolicyTypeOK
  OBVIOUS
<1>1. /\ pending \in [Title -> Nat] /\ RowCount(pending) \in Nat /\ \A k \in Title : pending[k] <= RowCount(pending)
      /\ fulfilled \in [Title -> Nat] /\ RowCount(fulfilled) \in Nat
      /\ \A k \in Title : fulfilled[k] <= RowCount(fulfilled)
  BY RowsCounted DEF PolicyInv
<1>2. RowCount(pending) + RowCount(fulfilled) <= RequestCount /\ RequestCount \in Nat
  BY PolicyAssumption DEF TableFits, PolicyAssumption
<1>3. \A k \in Title : pending[k] \in 0..RequestCount /\ fulfilled[k] \in 0..RequestCount
  <2> SUFFICES ASSUME NEW k \in Title PROVE pending[k] \in 0..RequestCount /\ fulfilled[k] \in 0..RequestCount
    OBVIOUS
  <2>1. pending[k] \in Nat /\ fulfilled[k] \in Nat /\ pending[k] <= RowCount(pending) /\ fulfilled[k] <= RowCount(fulfilled)
    BY <1>1
  <2> QED BY <1>1, <1>2, <2>1
<1>4. pending \in [Title -> 0..RequestCount] /\ fulfilled \in [Title -> 0..RequestCount]
  BY <1>1, <1>3
<1> QED BY <1>4 DEF PolicyInv, TableFits, BatchType, PolicyTypeOK

\* The types of the rules, the batch and the queue, and of the requests of each title: their
\* numbers keep to the bound of the model, however batches, decisions and reopenings follow.
THEOREM PolicyTyped == PolicySpec => []PolicyTypeOK
<1>1. PolicyInit => PolicyInv /\ TableFits
  BY PolicyInitInv, FitsAtFirst
<1> QED BY <1>1, PolicyStep, PolicyTypes, PTL DEF PolicySpec

-----------------------------------------------------------------------------
(* Notifications *)

(***************************************************************************)
(* The inductive invariant.  A saved table wants for every event the URLs  *)
(* that the table wants as it was entered; a job of the pool has the URLs  *)
(* that are due, and a dispatcher has each of them once: to be tried, or   *)
(* tried.  A level is changed by one dispatcher, which knows the old one,  *)
(* unless two were sending at once.                                        *)
(***************************************************************************)
Scopes == {"admin", "user", "own"}
KnownRow ==
  {r \in [event : SUBSET KnownEvent, url : Url] : r.event # {} /\ ("all" \in r.event => r.event = {"all"})}
Job == [urls : Seq(Url), due : SUBSET Url]
AtWork ==
  [at : {"idle", "next", "sending"}, left : Seq(Url), due : SUBSET Url, tried : Seq(Url),
   before : {"unset", "info"}, records : SUBSET Url]
Wanted(rows, e) == {rows[i].url : i \in AnsweringRows(rows, e)}

NoticeTypes ==
  /\ entered \in [Scopes -> Seq(EnteredRow) \cup {NotOwn}]
  /\ routes \in [Scopes -> Seq(KnownRow) \cup {NotOwn}]
  /\ \A s \in Scopes : (entered[s] = NotOwn <=> routes[s] = NotOwn) /\ (routes[s] = NotOwn => s = "own")
  /\ pool \in Seq(Job) /\ notices \in 0..NotifyLimit /\ Len(pool) <= notices
  /\ dispatcher \in [Dispatcher -> AtWork] /\ level \in {"unset", "info"}
TablesAgree == \A s \in Scopes, e \in Events : Wanted(routes[s], e) = Wanted(entered[s], e)
Asks(urls, due) == \A x : x \in due <=> \E u \in Listed(urls) : x = Ascii(u)
JobsFit == ~unsent /\ \A i \in 1..Len(pool) : Asks(pool[i].urls, pool[i].due)
WorkFits(r) ==
  /\ r.records = {} /\ (r.at = "sending" => r.left # <<>>)
  /\ r.at # "idle" => /\ Once(r.left) /\ Once(r.tried) /\ Listed(r.left) \cap Listed(r.tried) = {}
                      /\ Listed(r.left) \cup Listed(r.tried) = r.due
SendingAt(d) == dispatcher[d].at = "sending"
LevelFits ==
  ~overlapped =>
    /\ \A d, e \in Dispatcher : SendingAt(d) /\ SendingAt(e) => d = e
    /\ \A d \in Dispatcher : SendingAt(d) => dispatcher[d].before = "unset"
    /\ (\A d \in Dispatcher : ~SendingAt(d)) => level = "unset"
NoticeInv ==
  NoticeTypes /\ TablesAgree /\ JobsFit /\ (\A d \in Dispatcher : WorkFits(dispatcher[d])) /\ LevelFits

\* URLs, and the markers of the tables.
LEMMA NoticeFacts ==
  /\ \A u \in Url : Ascii(u) \in Url /\ (Ascii(u) = "blank" <=> u = "blank")
  /\ NotOwn \notin Seq(EnteredRow) /\ NotOwn \notin Seq(KnownRow)
  /\ DefaultTable \in Seq(EnteredRow) /\ DefaultTable \in Seq(KnownRow)
  /\ NotSending \in AtWork /\ NotSending.at = "idle" /\ WorkFits(NotSending)
  /\ \A e : Wanted(DefaultTable, e) = {} /\ Wanted(NotOwn, e) = {}
<1>1. \A u \in Url : Ascii(u) \in Url /\ (Ascii(u) = "blank" <=> u = "blank")
  BY DEF Url, Ascii
<1>2. NotOwn \notin Seq(EnteredRow) /\ NotOwn \notin Seq(KnownRow)
  <2>1. NotOwn[1].url = "none" /\ Len(NotOwn) = 1 /\ "none" \notin Url
    BY DEF NotOwn, Url
  <2>2. ASSUME NEW s \in Seq(EnteredRow), Len(s) = 1 PROVE s[1].url \in Url
    <3>1. s[1] \in EnteredRow
      BY <2>2
    <3> QED BY <3>1 DEF EnteredRow
  <2>3. ASSUME NEW s \in Seq(KnownRow), Len(s) = 1 PROVE s[1].url \in Url
    <3>1. s[1] \in KnownRow
      BY <2>3
    <3> QED BY <3>1 DEF KnownRow
  <2> QED BY <2>1, <2>2, <2>3
<1>3. DefaultTable \in Seq(EnteredRow) /\ DefaultTable \in Seq(KnownRow)
  <2> DEFINE r == [event |-> {"all"}, url |-> "blank"]
  <2>1. r \in EnteredRow /\ r \in KnownRow
    BY DEF EnteredRow, KnownRow, KnownEvent, Url
  <2>2. DefaultTable = <<r>>
    BY DEF DefaultTable
  <2> HIDE DEF r
  <2> QED BY <2>1, <2>2
<1>4. NotSending \in AtWork /\ NotSending.at = "idle" /\ WorkFits(NotSending)
  BY DEF NotSending, AtWork, WorkFits
<1>5. ASSUME NEW e PROVE Wanted(DefaultTable, e) = {} /\ Wanted(NotOwn, e) = {}
  <2>1. Len(DefaultTable) = 1 /\ DefaultTable[1].url = "blank" /\ Len(NotOwn) = 1 /\ NotOwn[1].event = {}
    BY DEF DefaultTable, NotOwn
  <2>2. ~Answers(DefaultTable[1], e) /\ ~Answers(NotOwn[1], e)
    BY <2>1 DEF Answers
  <2>3. AnsweringRows(DefaultTable, e) = {} /\ AnsweringRows(NotOwn, e) = {}
    BY <2>1, <2>2 DEF AnsweringRows
  <2> QED BY <2>3 DEF Wanted
<1> QED BY <1>1, <1>2, <1>3, <1>4, <1>5

\* What a table keeps: the rows with a known event, as they are normalised.
LEMMA KeptIs ==
  ASSUME NEW t \in Seq(EnteredRow)
  PROVE  /\ Kept(t) \in Seq(KnownRow)
         /\ \A x : x \in Listed(Kept(t)) <=> \E i \in 1..Len(t) : Normal(t[i]).event # {} /\ x = Normal(t[i])
<1> DEFINE rows == [i \in 1..Len(t) |-> Normal(t[i])]
           I == {i \in 1..Len(t) : rows[i].event # {}}
           S == [event : SUBSET KnownEvent, url : Url]
           out == Picked(rows, I)
<1>1. Len(t) \in Nat /\ \A i \in 1..Len(t) : t[i] \in EnteredRow
  OBVIOUS
<1>2. \A r \in EnteredRow : Normal(r) \in S /\ ("all" \in Normal(r).event => Normal(r).event = {"all"})
  BY DEF EnteredRow, Normal, KnownEvent
<1>3. rows \in Seq(S) /\ Len(rows) = Len(t) /\ \A i \in 1..Len(t) : rows[i] = Normal(t[i])
  BY <1>1, <1>2
<1> HIDE DEF rows
<1>4. out \in Seq(S) /\ PickedFrom(out, rows, I)
  BY <1>3, PickedIs
<1>5. Kept(t) = Distinct(out)
  BY DEF Kept, rows
<1>6. Distinct(out) \in Seq(S) /\ Listed(Distinct(out)) = Listed(out)
  BY <1>4, DistinctIs
<1>7. \A x : x \in Listed(Kept(t)) <=> \E i \in 1..Len(t) : Normal(t[i]).event # {} /\ x = Normal(t[i])
  <2>1. \A x : x \in Listed(Kept(t)) <=> \E i \in I : x = rows[i]
    BY <1>4, <1>5, <1>6 DEF PickedFrom
  <2>2. \A x : (\E i \in I : x = rows[i]) <=> \E i \in 1..Len(t) : Normal(t[i]).event # {} /\ x = Normal(t[i])
    BY <1>3
  <2> HIDE DEF I
  <2> QED BY <2>1, <2>2
<1>8. \A x \in Listed(Kept(t)) : x \in KnownRow
  BY <1>1, <1>2, <1>7 DEF KnownRow
<1>9. Kept(t) \in Seq(KnownRow)
  <2>1. \A i \in 1..Len(Kept(t)) : Kept(t)[i] \in KnownRow
    BY <1>8 DEF Listed
  <2>2. Kept(t) \in Seq(S)
    BY <1>5, <1>6
  <2> QED BY <2>1, <2>2
<1> QED BY <1>7, <1>9

\* A kept table wants what the entered one wants.
LEMMA KeptWants ==
  ASSUME NEW t \in Seq(EnteredRow), NEW e \in Events PROVE Wanted(Kept(t), e) = Wanted(t, e)
<1>1. \A r \in EnteredRow : /\ Normal(r).url = r.url
                            /\ Answers(Normal(r), e) <=> Answers(r, e)
                            /\ Answers(r, e) => Normal(r).event # {}
  BY NotificationAssumption DEF NotificationAssumption, EnteredRow, Normal, Answers, KnownEvent
<1>2. \A i \in 1..Len(t) : t[i] \in EnteredRow
  OBVIOUS
<1>3. ASSUME NEW x \in Wanted(Kept(t), e) PROVE x \in Wanted(t, e)
  <2>1. PICK i \in 1..Len(Kept(t)) : Answers(Kept(t)[i], e) /\ x = Kept(t)[i].url
    BY <1>3 DEF Wanted, AnsweringRows
  <2>2. Kept(t)[i] \in Listed(Kept(t))
    BY DEF Listed
  <2>3. PICK j \in 1..Len(t) : Kept(t)[i] = Normal(t[j])
    BY <2>2, KeptIs
  <2>4. Answers(t[j], e) /\ x = t[j].url
    BY <1>1, <1>2, <2>1, <2>3
  <2> QED BY <2>4 DEF Wanted, AnsweringRows
<1>4. ASSUME NEW x \in Wanted(t, e) PROVE x \in Wanted(Kept(t), e)
  <2>1. PICK j \in 1..Len(t) : Answers(t[j], e) /\ x = t[j].url
    BY <1>4 DEF Wanted, AnsweringRows
  <2>2. Normal(t[j]) \in Listed(Kept(t)) /\ Answers(Normal(t[j]), e) /\ x = Normal(t[j]).url
    BY <1>1, <1>2, <2>1, KeptIs
  <2>3. PICK i \in 1..Len(Kept(t)) : Kept(t)[i] = Normal(t[j])
    BY <2>2 DEF Listed
  <2> QED BY <2>2, <2>3 DEF Wanted, AnsweringRows
<1> QED BY <1>3, <1>4

\* The URLs of rows.
LEMMA UrlsAre ==
  ASSUME NEW rows \in Seq(KnownRow)
  PROVE  UrlsOf(rows) \in Seq(Url) /\ \A x : x \in Listed(UrlsOf(rows)) <=> \E r \in Listed(rows) : x = r.url
<1>1. Len(rows) \in Nat /\ \A i \in 1..Len(rows) : rows[i] \in KnownRow
  OBVIOUS
<1>2. \A i \in 1..Len(rows) : rows[i].url \in Url
  BY <1>1 DEF KnownRow
<1>3. UrlsOf(rows) \in Seq(Url) /\ Len(UrlsOf(rows)) = Len(rows) /\ \A i \in 1..Len(rows) : UrlsOf(rows)[i] = rows[i].url
  BY <1>1, <1>2 DEF UrlsOf
<1> QED BY <1>3 DEF Listed

\* What a table matches for an event: what it wants.
LEMMA MatchingIs ==
  ASSUME NEW rows \in Seq(KnownRow), NEW e
  PROVE  Matching(rows, e) \in Seq(Url) /\ Listed(Matching(rows, e)) = Wanted(rows, e)
<1> DEFINE I == AnsweringRows(rows, e)
           out == Picked(rows, I)
<1>1. I \subseteq 1..Len(rows)
  BY DEF AnsweringRows
<1>2. out \in Seq(KnownRow) /\ PickedFrom(out, rows, I)
  BY <1>1, PickedIs
<1> HIDE DEF I, out
<1>3. UrlsOf(out) \in Seq(Url) /\ \A x : x \in Listed(UrlsOf(out)) <=> \E r \in Listed(out) : x = r.url
  BY <1>2, UrlsAre
<1>4. /\ Matching(rows, e) = Distinct(UrlsOf(out)) /\ Distinct(UrlsOf(out)) \in Seq(Url)
      /\ Listed(Distinct(UrlsOf(out))) = Listed(UrlsOf(out))
  BY <1>3, DistinctIs DEF Matching, out, I
<1>5. \A r : r \in Listed(out) <=> \E i \in I : r = rows[i]
  BY <1>2 DEF PickedFrom
<1>6. \A x : x \in Listed(UrlsOf(out)) <=> x \in Wanted(rows, e)
  BY <1>3, <1>5 DEF Wanted, I
<1> QED BY <1>4, <1>6

\* What a dispatcher begins with: the URLs that are due, each once.
LEMMA BeginningIs ==
  ASSUME NEW urls \in Seq(Url), NEW due \in SUBSET Url, Asks(urls, due)
  PROVE  Beginning(urls, due) \in AtWork /\ Beginning(urls, due).at = "next" /\ WorkFits(Beginning(urls, due))
<1>1. AsciiOf(urls) \in Seq(Url) /\ \A x : x \in Listed(AsciiOf(urls)) <=> \E u \in Listed(urls) : x = Ascii(u)
  <2>1. Len(urls) \in Nat /\ \A i \in 1..Len(urls) : urls[i] \in Url /\ Ascii(urls[i]) \in Url
    BY NoticeFacts
  <2>2. AsciiOf(urls) \in Seq(Url) /\ Len(AsciiOf(urls)) = Len(urls) /\ \A i \in 1..Len(urls) : AsciiOf(urls)[i] = Ascii(urls[i])
    BY <2>1 DEF AsciiOf
  <2> QED BY <2>2 DEF Listed
<1>2. /\ Normalized(urls) \in Seq(Url) /\ Once(Normalized(urls))
      /\ Listed(Normalized(urls)) = Listed(AsciiOf(urls))
  BY <1>1, DistinctIs DEF Normalized
<1>3. Listed(Normalized(urls)) = due
  BY <1>1, <1>2 DEF Asks
<1> DEFINE b == Beginning(urls, due)
<1>4. /\ b.at = "next" /\ b.left = Normalized(urls) /\ b.due = due /\ b.tried = <<>> /\ b.records = {}
  BY DEF Beginning, NotSending
<1>5. Once(<<>>) /\ Listed(<<>>) = {}
  BY DEF Once, Listed
<1>6. b \in AtWork
  <2>1. NotSending \in AtWork
    BY NoticeFacts
  <2> QED BY <1>2, <2>1 DEF AtWork, Beginning
<1> HIDE DEF b
<1>7. WorkFits(b)
  BY <1>2, <1>3, <1>4, <1>5 DEF WorkFits
<1> QED BY <1>4, <1>6, <1>7 DEF b

\* A dispatcher goes on to the next URL.
LEMMA GoneOnIs ==
  ASSUME NEW r \in AtWork, WorkFits(r), r.at # "idle", r.left # <<>>
  PROVE  GoneOn(r) \in AtWork /\ GoneOn(r).at = "next" /\ WorkFits(GoneOn(r))
<1> DEFINE s == r.left
           t == r.tried
           u == Head(s)
<1>1. s \in Seq(Url) /\ t \in Seq(Url) /\ s # <<>> /\ Once(s) /\ Once(t) /\ Listed(s) \cap Listed(t) = {}
      /\ Listed(s) \cup Listed(t) = r.due /\ r.due \in SUBSET Url /\ r.before \in {"unset", "info"}
  BY DEF WorkFits, AtWork
<1> DEFINE g == GoneOn(r)
<1>2. /\ g.at = "next" /\ g.left = Tail(s) /\ g.due = r.due /\ g.tried = Append(t, u) /\ g.records = {}
      /\ Tail(s) \in Seq(Url) /\ Append(t, u) \in Seq(Url) => g \in AtWork
  BY DEF GoneOn, AtWork
<1> HIDE DEF s, t, g
<1>3. /\ Len(s) \in Nat \ {0} /\ u = s[1] /\ Tail(s) \in Seq(Url) /\ Len(Tail(s)) = Len(s) - 1
      /\ \A i \in 1..(Len(s) - 1) : Tail(s)[i] = s[i + 1]
  BY <1>1
<1>4. /\ u \in Url /\ Append(t, u) \in Seq(Url) /\ Len(Append(t, u)) = Len(t) + 1 /\ Len(t) \in Nat
      /\ \A i \in 1..Len(t) : Append(t, u)[i] = t[i]
      /\ Append(t, u)[Len(t) + 1] = u
  BY <1>1, <1>3
<1> HIDE DEF u
<1>5. \A x : x \in Listed(s) <=> x = u \/ x \in Listed(Tail(s))
  <2>1. ASSUME NEW x \in Listed(s), x # u PROVE x \in Listed(Tail(s))
    <3>1. PICK i \in 1..Len(s) : x = s[i]
      BY <2>1 DEF Listed
    <3>2. i - 1 \in 1..(Len(s) - 1) /\ Tail(s)[i - 1] = x
      BY <1>3, <2>1, <3>1
    <3> QED BY <1>3, <3>2 DEF Listed
  <2>2. u \in Listed(s)
    BY <1>3 DEF Listed
  <2>3. \A x \in Listed(Tail(s)) : x \in Listed(s)
    BY <1>3 DEF Listed
  <2> QED BY <2>1, <2>2, <2>3
<1>6. Once(Tail(s)) /\ u \notin Listed(Tail(s))
  BY <1>1, <1>3 DEF Once, Listed
<1>7. \A x : x \in Listed(Append(t, u)) <=> x = u \/ x \in Listed(t)
  <2>1. \A x \in Listed(Append(t, u)) : x = u \/ x \in Listed(t)
    <3> SUFFICES ASSUME NEW i \in 1..(Len(t) + 1) PROVE Append(t, u)[i] = u \/ Append(t, u)[i] \in Listed(t)
      BY <1>4 DEF Listed
    <3> QED BY <1>4 DEF Listed
  <2>2. u \in Listed(Append(t, u))
    BY <1>4 DEF Listed
  <2>3. \A x \in Listed(t) : x \in Listed(Append(t, u))
    BY <1>4 DEF Listed
  <2> QED BY <2>1, <2>2, <2>3
<1>8. Once(Append(t, u))
  <2>1. u \notin Listed(t)
    BY <1>1, <1>5
  <2> QED BY <1>1, <1>4, <2>1 DEF Once, Listed
<1>9. Listed(Tail(s)) \cap Listed(Append(t, u)) = {} /\ Listed(Tail(s)) \cup Listed(Append(t, u)) = r.due
  BY <1>1, <1>5, <1>6, <1>7
<1>10. g \in AtWork
  BY <1>2, <1>3, <1>4
<1>11. WorkFits(g)
  BY <1>2, <1>6, <1>8, <1>9 DEF WorkFits
<1> QED BY <1>2, <1>10, <1>11 DEF g

\* A step that changes nothing keeps it.
LEMMA NoticeUnchanged == NoticeInv /\ UNCHANGED noticeVars => NoticeInv'
BY DEF NoticeInv, NoticeTypes, TablesAgree, JobsFit, LevelFits, SendingAt, noticeVars

\* Saving a table that wants for every event what the entered one wants keeps the invariant.
LEMMA TableSaved ==
  ASSUME NoticeInv, NEW scope \in Scopes, NEW t, NEW kept, SaveTable(scope, t, kept),
         \/ t \in Seq(EnteredRow) /\ kept \in Seq(KnownRow)
         \/ scope = "own" /\ t = NotOwn /\ kept = NotOwn,
         \A e \in Events : Wanted(kept, e) = Wanted(t, e)
  PROVE  NoticeInv'
<1>1. /\ entered' = [entered EXCEPT ![scope] = t] /\ routes' = [routes EXCEPT ![scope] = kept]
      /\ UNCHANGED <<pool, dispatcher, level, notices, unsent, overlapped>>
  BY DEF SaveTable
<1>2. (t = NotOwn <=> kept = NotOwn) /\ (kept = NotOwn => scope = "own")
  BY NoticeFacts
<1>3. NoticeTypes
  BY DEF NoticeInv
<1>4. entered \in [Scopes -> Seq(EnteredRow) \cup {NotOwn}] /\ routes \in [Scopes -> Seq(KnownRow) \cup {NotOwn}]
  BY <1>3 DEF NoticeTypes
<1>5. NoticeTypes'
  <2>1. /\ entered' \in [Scopes -> Seq(EnteredRow) \cup {NotOwn}]
        /\ routes' \in [Scopes -> Seq(KnownRow) \cup {NotOwn}]
    BY <1>1, <1>4
  <2>2. \A s \in Scopes : (entered'[s] = NotOwn <=> routes'[s] = NotOwn) /\ (routes'[s] = NotOwn => s = "own")
    BY <1>1, <1>2, <1>3, <1>4 DEF NoticeTypes
  <2> QED BY <1>1, <1>3, <2>1, <2>2 DEF NoticeTypes
<1>6. TablesAgree'
  <2>1. ASSUME NEW s \in Scopes, NEW e \in Events PROVE Wanted(routes'[s], e) = Wanted(entered'[s], e)
    <3>1. CASE s = scope
      BY <1>1, <1>4, <3>1
    <3>2. CASE s # scope
      <4>1. routes'[s] = routes[s] /\ entered'[s] = entered[s]
        BY <1>1, <1>4, <3>2
      <4> QED BY <4>1 DEF NoticeInv, TablesAgree
    <3> QED BY <3>1, <3>2
  <2> QED BY <2>1 DEF TablesAgree, Wanted, AnsweringRows, Answers
<1> QED BY <1>1, <1>5, <1>6 DEF NoticeInv, JobsFit, LevelFits, SendingAt

\* The tables are saved.
LEMMA SaveSteps ==
  ASSUME NoticeInv
  PROVE  /\ \A scope \in {"admin", "user"}, t \in Tables : SaveGlobal(scope, t) => NoticeInv'
         /\ \A t \in Tables : SaveOwn(t) => NoticeInv'
         /\ ForgetOwn => NoticeInv'
<1>1. \A t \in Tables : /\ t \in Seq(EnteredRow) /\ Kept(t) \in Seq(KnownRow)
                        /\ \A e \in Events : Wanted(Kept(t), e) = Wanted(t, e)
  BY NotificationAssumption, KeptIs, KeptWants DEF NotificationAssumption
<1>2. ASSUME NEW scope \in {"admin", "user"}, NEW t \in Tables, SaveGlobal(scope, t) PROVE NoticeInv'
  <2> DEFINE kept == IF Kept(t) = <<>> THEN DefaultTable ELSE Kept(t)
  <2>1. kept \in Seq(KnownRow)
    BY <1>1, NoticeFacts
  <2>2. ASSUME NEW e \in Events PROVE Wanted(kept, e) = Wanted(t, e)
    <3>1. CASE Kept(t) = <<>>
      <4>1. Wanted(<<>>, e) = {}
        BY DEF Wanted, AnsweringRows
      <4> QED BY <1>1, <3>1, <4>1, NoticeFacts
    <3>2. CASE Kept(t) # <<>>
      BY <1>1, <3>2
    <3> QED BY <3>1, <3>2
  <2>3. SaveTable(scope, t, kept) /\ scope \in Scopes
    BY <1>2 DEF SaveGlobal, Scopes
  <2> HIDE DEF kept
  <2> QED BY <1>1, <2>1, <2>2, <2>3, TableSaved
<1>3. ASSUME NEW t \in Tables, SaveOwn(t) PROVE NoticeInv'
  <2>1. SaveTable("own", t, Kept(t)) /\ "own" \in Scopes
    BY <1>3 DEF SaveOwn, Scopes
  <2> QED BY <1>1, <2>1, TableSaved
<1>4. ASSUME ForgetOwn PROVE NoticeInv'
  <2>1. SaveTable("own", NotOwn, NotOwn) /\ "own" \in Scopes
    BY <1>4 DEF ForgetOwn, Scopes
  <2> QED BY <2>1, TableSaved
<1> QED BY <1>2, <1>3, <1>4

\* The table that answers is the one that was entered for it, and it is a table.
LEMMA TableForIs ==
  ASSUME NoticeInv, NEW who \in {"admin", "user"}
  PROVE  /\ TableFor(who, routes) \in Seq(KnownRow)
         /\ \A e \in Events : Wanted(TableFor(who, routes), e) = Wanted(TableFor(who, entered), e)
<1>1. /\ entered \in [Scopes -> Seq(EnteredRow) \cup {NotOwn}] /\ routes \in [Scopes -> Seq(KnownRow) \cup {NotOwn}]
      /\ \A s \in Scopes : (entered[s] = NotOwn <=> routes[s] = NotOwn) /\ (routes[s] = NotOwn => s = "own")
  BY DEF NoticeInv, NoticeTypes
<1>2. PICK s \in Scopes : TableFor(who, routes) = routes[s] /\ TableFor(who, entered) = entered[s] /\ routes[s] # NotOwn
  <2>1. "admin" \in Scopes /\ "user" \in Scopes /\ "own" \in Scopes
    BY DEF Scopes
  <2>2. CASE who = "admin"
    BY <1>1, <2>1, <2>2 DEF TableFor
  <2>3. CASE who # "admin" /\ routes["own"] # NotOwn
    BY <1>1, <2>1, <2>3 DEF TableFor
  <2>4. CASE who # "admin" /\ routes["own"] = NotOwn
    BY <1>1, <2>1, <2>4 DEF TableFor
  <2> QED BY <2>2, <2>3, <2>4
<1> QED BY <1>1, <1>2 DEF NoticeInv, TablesAgree

\* An event has a job when a route asks for it, with the URLs that are due.
LEMMA NotifyStep ==
  ASSUME NoticeInv, NEW who \in {"admin", "user"}, NEW e \in Events, Notify(who, e)
  PROVE  NoticeInv'
<1> DEFINE table == TableFor(who, routes)
           urls == Matching(table, e)
           due == Due(who, e)
           job == [urls |-> urls, due |-> due]
<1>1. table \in Seq(KnownRow) /\ Wanted(table, e) = Wanted(TableFor(who, entered), e)
  BY TableForIs
<1>2. \A x : x \in due <=> \E u \in Wanted(TableFor(who, entered), e) : x = Ascii(u)
  BY DEF Due, Wanted
<1>3. /\ notices < NotifyLimit /\ notices' = notices + 1
      /\ IF urls = <<>> THEN UNCHANGED pool ELSE pool' = Append(pool, job)
      /\ unsent' = (unsent \/ (urls = <<>> /\ due # {}))
      /\ UNCHANGED <<entered, routes, dispatcher, level, overlapped>>
  BY DEF Notify
<1> HIDE DEF table, due
<1>4. urls \in Seq(Url) /\ Listed(urls) = Wanted(table, e)
  BY <1>1, MatchingIs
<1> HIDE DEF urls
<1>5. Asks(urls, due)
  BY <1>1, <1>2, <1>4 DEF Asks
<1>6. due \in SUBSET Url
  BY <1>4, <1>5, NoticeFacts, ListedIs DEF Asks
<1>7. urls = <<>> => due = {}
  BY <1>4, <1>5, ListedIs DEF Asks
<1>8. job \in Job /\ job.urls = urls /\ job.due = due
  BY <1>4, <1>6 DEF Job
<1> HIDE DEF job
<1>9. pool \in Seq(Job) /\ notices \in 0..NotifyLimit /\ Len(pool) <= notices /\ NotifyLimit \in Nat
  BY NotificationAssumption DEF NoticeInv, NoticeTypes, NotificationAssumption
<1>10. /\ pool' \in Seq(Job) /\ Len(pool') <= notices' /\ notices' \in 0..NotifyLimit
       /\ \A i \in 1..Len(pool') : pool'[i] = job \/ (i \in 1..Len(pool) /\ pool'[i] = pool[i])
  <2>1. CASE urls = <<>>
    BY <1>3, <1>9, <2>1
  <2>2. CASE urls # <<>>
    <3>1. pool' = Append(pool, job)
      BY <1>3, <2>2
    <3> QED BY <1>3, <1>8, <1>9, <3>1
  <2> QED BY <2>1, <2>2
<1>11. JobsFit'
  <2>1. ~unsent' /\ \A i \in 1..Len(pool) : Asks(pool[i].urls, pool[i].due)
    BY <1>3, <1>7 DEF NoticeInv, JobsFit
  <2>2. \A i \in 1..Len(pool') : Asks(pool'[i].urls, pool'[i].due)
    BY <1>5, <1>8, <1>10, <2>1
  <2> QED BY <2>1, <2>2 DEF JobsFit, Asks
<1>12. NoticeTypes'
  BY <1>3, <1>10 DEF NoticeInv, NoticeTypes
<1>13. TablesAgree' /\ LevelFits'
  BY <1>3 DEF NoticeInv, TablesAgree, LevelFits, SendingAt
<1> QED BY <1>3, <1>11, <1>12, <1>13 DEF NoticeInv

\* A step of one dispatcher that sends neither before it nor after it.
LEMMA AsideStep ==
  ASSUME NoticeInv, NEW d \in Dispatcher, NEW c \in AtWork, WorkFits(c), c.at # "sending", ~SendingAt(d),
         dispatcher' = [dispatcher EXCEPT ![d] = c],
         UNCHANGED <<entered, routes, level, notices, unsent, overlapped>>,
         pool' \in Seq(Job) /\ Len(pool') <= Len(pool),
         \A i \in 1..Len(pool') : Asks(pool'[i].urls, pool'[i].due)
  PROVE  NoticeInv'
<1>1. dispatcher \in [Dispatcher -> AtWork] /\ pool \in Seq(Job) /\ Len(pool) <= notices /\ notices \in Nat
  BY NotificationAssumption DEF NoticeInv, NoticeTypes, NotificationAssumption
<1>2. dispatcher' \in [Dispatcher -> AtWork] /\ \A e \in Dispatcher : dispatcher'[e] = IF e = d THEN c ELSE dispatcher[e]
  BY <1>1
<1>3. \A e \in Dispatcher : SendingAt(e)' <=> SendingAt(e)
  BY <1>2 DEF SendingAt
<1>4. \A e \in Dispatcher : SendingAt(e)' => dispatcher'[e] = dispatcher[e]
  BY <1>2 DEF SendingAt
<1>5. LevelFits'
  BY <1>3, <1>4 DEF NoticeInv, LevelFits
<1>6. \A e \in Dispatcher : WorkFits(dispatcher'[e])
  BY <1>2 DEF NoticeInv
<1>7. NoticeTypes'
  <2>1. Len(pool') <= notices
    BY <1>1
  <2> QED BY <1>2, <2>1 DEF NoticeInv, NoticeTypes
<1>8. JobsFit' /\ TablesAgree'
  <2>1. ~unsent'
    BY DEF NoticeInv, JobsFit
  <2>2. TablesAgree'
    BY DEF NoticeInv, TablesAgree
  <2> QED BY <2>1, <2>2 DEF JobsFit, Asks
<1> QED BY <1>5, <1>6, <1>7, <1>8 DEF NoticeInv, WorkFits

\* A worker takes the first job of the pool.
LEMMA DispatchStep ==
  ASSUME NoticeInv, NEW d \in Dispatcher, Dispatch(d) PROVE NoticeInv'
<1> DEFINE job == Head(pool)
           c == Beginning(job.urls, job.due)
<1>1. /\ dispatcher[d].at = "idle" /\ pool # <<>> /\ pool' = Tail(pool)
      /\ dispatcher' = [dispatcher EXCEPT ![d] = c]
      /\ UNCHANGED <<entered, routes, level, notices, unsent, overlapped>>
  BY DEF Dispatch
<1>2. pool \in Seq(Job) /\ \A i \in 1..Len(pool) : Asks(pool[i].urls, pool[i].due)
  BY DEF NoticeInv, NoticeTypes, JobsFit
<1>3. job = pool[1] /\ 1 \in 1..Len(pool) /\ job \in Job
  BY <1>1, <1>2
<1>4. job.urls \in Seq(Url) /\ job.due \in SUBSET Url /\ Asks(job.urls, job.due)
  BY <1>2, <1>3 DEF Job
<1>5. /\ pool' \in Seq(Job) /\ Len(pool') <= Len(pool)
      /\ \A i \in 1..Len(pool') : i + 1 \in 1..Len(pool) /\ pool'[i] = pool[i + 1]
  BY <1>1, <1>2
<1>6. \A i \in 1..Len(pool') : Asks(pool'[i].urls, pool'[i].due)
  BY <1>2, <1>5
<1> HIDE DEF job
<1>7. c \in AtWork /\ c.at = "next" /\ WorkFits(c)
  BY <1>4, BeginningIs
<1> HIDE DEF c
<1>8. ~SendingAt(d)
  BY <1>1 DEF SendingAt
<1> QED BY <1>1, <1>5, <1>6, <1>7, <1>8, AsideStep

\* A table that has no unknown event keeps every row.
LEMMA TestedIs ==
  ASSUME NEW t \in Seq(EnteredRow), ~InvalidEvents(t)
  PROVE  \A x : x \in Listed(UrlsOf(Kept(t))) <=> \E i \in 1..Len(t) : x = t[i].url
<1>1. \A i \in 1..Len(t) : t[i] \in EnteredRow
  OBVIOUS
<1>2. \A r \in EnteredRow : r.event # {} /\ r.event \subseteq KnownEvent => Normal(r).event # {} /\ Normal(r).url = r.url
  BY DEF EnteredRow, Normal, KnownEvent
<1>3. \A i \in 1..Len(t) : Normal(t[i]).event # {} /\ Normal(t[i]).url = t[i].url
  BY <1>1, <1>2 DEF InvalidEvents
<1>4. /\ Kept(t) \in Seq(KnownRow)
      /\ \A x : x \in Listed(Kept(t)) <=> \E i \in 1..Len(t) : Normal(t[i]).event # {} /\ x = Normal(t[i])
  BY KeptIs
<1>5. \A x : x \in Listed(UrlsOf(Kept(t))) <=> \E r \in Listed(Kept(t)) : x = r.url
  BY <1>4, UrlsAre
<1>6. ASSUME NEW i \in 1..Len(t) PROVE t[i].url \in Listed(UrlsOf(Kept(t)))
  <2>1. Normal(t[i]) \in Listed(Kept(t))
    BY <1>3, <1>4
  <2> QED BY <1>3, <1>5, <2>1
<1>7. ASSUME NEW x \in Listed(UrlsOf(Kept(t))) PROVE \E i \in 1..Len(t) : x = t[i].url
  <2>1. PICK r \in Listed(Kept(t)) : x = r.url
    BY <1>5, <1>7
  <2>2. PICK i \in 1..Len(t) : r = Normal(t[i])
    BY <1>4, <2>1
  <2> QED BY <1>3, <2>1, <2>2
<1> QED BY <1>6, <1>7

\* A test tries the URLs of the table that is being edited.
LEMMA TestStep ==
  ASSUME NoticeInv, NEW d \in Dispatcher, NEW t \in Tables, TestTable(d, t) PROVE NoticeInv'
<1> DEFINE all == Distinct(UrlsOf(Kept(t)))
           I == {i \in 1..Len(all) : all[i] # "blank"}
           urls == Picked(all, I)
           due == {Ascii(t[i].url) : i \in 1..Len(t)} \ {"blank"}
           c == Beginning(urls, due)
<1>1. /\ dispatcher[d].at = "idle" /\ ~InvalidEvents(t) /\ dispatcher' = [dispatcher EXCEPT ![d] = c]
      /\ UNCHANGED <<entered, routes, pool, level, notices, unsent, overlapped>>
  BY DEF TestTable
<1>2. t \in Seq(EnteredRow) /\ \A i \in 1..Len(t) : t[i] \in EnteredRow
  BY NotificationAssumption DEF NotificationAssumption
<1>3. \A i \in 1..Len(t) : t[i].url \in Url
  BY <1>2 DEF EnteredRow
<1>4. UrlsOf(Kept(t)) \in Seq(Url) /\ \A x : x \in Listed(UrlsOf(Kept(t))) <=> \E i \in 1..Len(t) : x = t[i].url
  BY <1>1, <1>2, KeptIs, UrlsAre, TestedIs
<1>5. all \in Seq(Url) /\ Listed(all) = Listed(UrlsOf(Kept(t)))
  BY <1>4, DistinctIs
<1> HIDE DEF all
<1>6. urls \in Seq(Url) /\ \A x : x \in Listed(urls) <=> \E i \in I : x = all[i]
  BY <1>5, PickedIs DEF PickedFrom
<1>7. \A x : x \in Listed(urls) <=> x # "blank" /\ \E i \in 1..Len(t) : x = t[i].url
  <2>1. \A x : (\E i \in I : x = all[i]) <=> x \in Listed(all) /\ x # "blank"
    BY DEF Listed
  <2> HIDE DEF I, urls
  <2> QED BY <1>4, <1>5, <1>6, <2>1
<1>8. \A x : x \in due <=> x # "blank" /\ \E i \in 1..Len(t) : x = Ascii(t[i].url)
  OBVIOUS
<1> HIDE DEF urls, due, I
<1>9. Asks(urls, due) /\ due \in SUBSET Url
  BY <1>3, <1>7, <1>8, NoticeFacts DEF Asks
<1>10. c \in AtWork /\ c.at = "next" /\ WorkFits(c)
  BY <1>6, <1>9, BeginningIs
<1> HIDE DEF c
<1>11. /\ ~SendingAt(d) /\ pool' \in Seq(Job) /\ Len(pool') <= Len(pool)
       /\ \A i \in 1..Len(pool') : Asks(pool'[i].urls, pool'[i].due)
  BY <1>1 DEF SendingAt, NoticeInv, NoticeTypes, JobsFit
<1> QED BY <1>1, <1>10, <1>11, AsideStep

\* A dispatcher stops sending, and puts back the level that it found.
LEMMA SentStep ==
  ASSUME NoticeInv, NEW d \in Dispatcher, NEW c \in AtWork, WorkFits(c), c.at # "sending", SendingAt(d),
         dispatcher' = [dispatcher EXCEPT ![d] = c], level' = dispatcher[d].before,
         UNCHANGED <<entered, routes, pool, notices, unsent, overlapped>>
  PROVE  NoticeInv'
<1>1. dispatcher \in [Dispatcher -> AtWork] /\ dispatcher[d].before \in {"unset", "info"}
  BY DEF NoticeInv, NoticeTypes, AtWork
<1>2. dispatcher' \in [Dispatcher -> AtWork] /\ \A e \in Dispatcher : dispatcher'[e] = IF e = d THEN c ELSE dispatcher[e]
  BY <1>1
<1>3. NoticeTypes'
  BY <1>1, <1>2 DEF NoticeInv, NoticeTypes
<1>4. \A e \in Dispatcher : WorkFits(dispatcher'[e])
  BY <1>2 DEF NoticeInv
<1>5. LevelFits'
  <2> SUFFICES ASSUME ~overlapped
               PROVE  /\ \A e, f \in Dispatcher : SendingAt(e)' /\ SendingAt(f)' => e = f
                      /\ \A e \in Dispatcher : SendingAt(e)' => dispatcher'[e].before = "unset"
                      /\ level' = "unset"
    BY DEF LevelFits
  <2>1. \A e \in Dispatcher : SendingAt(e) => e = d
    BY DEF NoticeInv, LevelFits
  <2>2. dispatcher[d].before = "unset"
    BY DEF NoticeInv, LevelFits
  <2>3. \A e \in Dispatcher : ~SendingAt(e)'
    BY <1>2, <2>1 DEF SendingAt
  <2> QED BY <2>2, <2>3
<1>6. JobsFit' /\ TablesAgree'
  BY DEF NoticeInv, JobsFit, TablesAgree
<1> QED BY <1>3, <1>4, <1>5, <1>6 DEF NoticeInv, WorkFits

\* What a dispatcher logs before it goes on is gone when it has gone on.
LEMMA LoggedIs ==
  ASSUME NoticeInv, NEW d \in Dispatcher, NEW u, NEW c
  PROVE  [Logged(d, u) EXCEPT ![d] = c] = [dispatcher EXCEPT ![d] = c]
BY DEF NoticeInv, NoticeTypes, Logged, Keeps

\* A dispatcher begins with a URL: it passes over one that Apprise refuses, and sends the others.
LEMMA BeginStep ==
  ASSUME NoticeInv, NEW d \in Dispatcher, BeginUrl(d) PROVE NoticeInv'
<1> DEFINE r == dispatcher[d]
<1>1. r.at = "next" /\ r.left # <<>> /\ UNCHANGED <<entered, routes, pool, notices, unsent>>
  BY DEF BeginUrl
<1>2. dispatcher \in [Dispatcher -> AtWork] /\ r \in AtWork /\ WorkFits(r) /\ level \in {"unset", "info"}
  BY DEF NoticeInv, NoticeTypes
<1>3. CASE ~KnownScheme(Head(r.left))
  <2> DEFINE c == GoneOn(r)
  <2>1. c \in AtWork /\ c.at = "next" /\ WorkFits(c)
    <3> HIDE DEF r
    <3> QED BY <1>1, <1>2, GoneOnIs
  <2>2. dispatcher' = [dispatcher EXCEPT ![d] = c] /\ UNCHANGED <<level, overlapped>>
    <3>1. dispatcher' = [Logged(d, Head(r.left)) EXCEPT ![d] = c] /\ UNCHANGED <<level, overlapped>>
      BY <1>3 DEF BeginUrl
    <3> HIDE DEF c
    <3> QED BY <3>1, LoggedIs
  <2> HIDE DEF c
  <2>3. /\ ~SendingAt(d) /\ pool' \in Seq(Job) /\ Len(pool') <= Len(pool)
        /\ \A i \in 1..Len(pool') : Asks(pool'[i].urls, pool'[i].due)
    BY <1>1 DEF SendingAt, NoticeInv, NoticeTypes, JobsFit
  <2> QED BY <1>1, <2>1, <2>2, <2>3, AsideStep
<1>4. CASE KnownScheme(Head(r.left))
  <2> DEFINE c == [r EXCEPT !.at = "sending", !.before = level]
  <2>1. /\ dispatcher' = [dispatcher EXCEPT ![d] = c] /\ level' = IF level = "unset" THEN "info" ELSE level
        /\ overlapped' = (overlapped \/ \E e \in Dispatcher : SendingAt(e))
    BY <1>2, <1>4 DEF BeginUrl, SendingAt
  <2>2. /\ c \in AtWork /\ c.at = "sending" /\ c.before = level /\ c.left = r.left /\ c.tried = r.tried
        /\ c.due = r.due /\ c.records = r.records
    BY <1>2 DEF AtWork
  <2> HIDE DEF c
  <2>3. WorkFits(c)
    BY <1>1, <1>2, <2>2 DEF WorkFits
  <2>4. dispatcher' \in [Dispatcher -> AtWork] /\ \A e \in Dispatcher : dispatcher'[e] = IF e = d THEN c ELSE dispatcher[e]
    BY <1>2, <2>1, <2>2
  <2>5. NoticeTypes'
    BY <1>1, <1>2, <2>1, <2>4 DEF NoticeInv, NoticeTypes
  <2>6. \A e \in Dispatcher : WorkFits(dispatcher'[e])
    BY <2>3, <2>4 DEF NoticeInv
  <2>7. LevelFits'
    <3> SUFFICES ASSUME ~overlapped'
                 PROVE  /\ \A e, f \in Dispatcher : SendingAt(e)' /\ SendingAt(f)' => e = f
                        /\ \A e \in Dispatcher : SendingAt(e)' => dispatcher'[e].before = "unset"
                        /\ \E e \in Dispatcher : SendingAt(e)'
      BY DEF LevelFits
    <3>1. level = "unset" /\ \A e \in Dispatcher : ~SendingAt(e)
      BY <2>1 DEF NoticeInv, LevelFits
    <3>2. \A e \in Dispatcher : SendingAt(e)' <=> e = d
      BY <2>2, <2>4, <3>1 DEF SendingAt
    <3> QED BY <2>2, <2>4, <3>1, <3>2
  <2>8. JobsFit' /\ TablesAgree'
    BY <1>1 DEF NoticeInv, JobsFit, TablesAgree
  <2> QED BY <2>5, <2>6, <2>7, <2>8 DEF NoticeInv, WorkFits
<1> QED BY <1>3, <1>4

\* A URL has been answered, or the sending has raised.
LEMMA AnsweredStep ==
  ASSUME NoticeInv, NEW d \in Dispatcher, NEW delivered \in BOOLEAN, Answered(d, delivered) PROVE NoticeInv'
<1> DEFINE r == dispatcher[d]
           c == GoneOn(r)
<1>1. r.at = "sending" /\ level' = r.before /\ UNCHANGED <<entered, routes, pool, notices, unsent, overlapped>>
  BY DEF Answered
<1>2. r \in AtWork /\ WorkFits(r)
  BY DEF NoticeInv, NoticeTypes
<1>3. dispatcher' = [dispatcher EXCEPT ![d] = c]
  <2>1. CASE delivered
    BY <2>1 DEF Answered
  <2>2. CASE ~delivered
    <3>1. dispatcher' = [Logged(d, Head(r.left)) EXCEPT ![d] = c]
      BY <2>2 DEF Answered
    <3> HIDE DEF c
    <3> QED BY <3>1, LoggedIs
  <2> QED BY <2>1, <2>2
<1>4. c \in AtWork /\ c.at = "next" /\ WorkFits(c)
  <2>1. r.at # "idle" /\ r.left # <<>>
    BY <1>1, <1>2 DEF WorkFits
  <2> HIDE DEF r
  <2> QED BY <1>2, <2>1, GoneOnIs
<1> HIDE DEF c
<1>5. SendingAt(d)
  BY <1>1 DEF SendingAt
<1> QED BY <1>1, <1>3, <1>4, <1>5, SentStep

\* A job dies or ends.
LEMMA EndSteps ==
  ASSUME NoticeInv, NEW d \in Dispatcher
  PROVE  (Die(d) => NoticeInv') /\ (JobEnds(d) => NoticeInv')
<1>1. NotSending \in AtWork /\ NotSending.at = "idle" /\ WorkFits(NotSending)
  BY NoticeFacts
<1>2. ASSUME Die(d) PROVE NoticeInv'
  <2>1. SendingAt(d) /\ dispatcher' = [dispatcher EXCEPT ![d] = NotSending] /\ level' = dispatcher[d].before
        /\ UNCHANGED <<entered, routes, pool, notices, unsent, overlapped>>
    BY <1>2 DEF Die, SendingAt
  <2> QED BY <1>1, <2>1, SentStep
<1>3. ASSUME JobEnds(d) PROVE NoticeInv'
  <2>1. ~SendingAt(d) /\ dispatcher' = [dispatcher EXCEPT ![d] = NotSending]
        /\ UNCHANGED <<entered, routes, pool, level, notices, unsent, overlapped>>
    BY <1>3 DEF JobEnds, SendingAt
  <2>2. /\ pool' \in Seq(Job) /\ Len(pool') <= Len(pool)
        /\ \A i \in 1..Len(pool') : Asks(pool'[i].urls, pool'[i].due)
    BY <2>1 DEF NoticeInv, NoticeTypes, JobsFit
  <2> QED BY <1>1, <2>1, <2>2, AsideStep
<1> QED BY <1>2, <1>3

\* It holds at first: the tables are the default ones, and nobody sends.
LEMMA NoticeFirst == NoticeInit => NoticeInv
<1> SUFFICES ASSUME NoticeInit PROVE NoticeInv
  OBVIOUS
<1>1. /\ entered = [admin |-> DefaultTable, user |-> DefaultTable, own |-> NotOwn] /\ routes = entered
      /\ pool = <<>> /\ dispatcher = [d \in Dispatcher |-> NotSending] /\ level = "unset"
      /\ notices = 0 /\ unsent = FALSE /\ overlapped = FALSE
  BY DEF NoticeInit
<1>2. /\ entered \in [Scopes -> Seq(EnteredRow) \cup {NotOwn}] /\ routes \in [Scopes -> Seq(KnownRow) \cup {NotOwn}]
      /\ \A s \in Scopes : (entered[s] = NotOwn <=> routes[s] = NotOwn) /\ (routes[s] = NotOwn => s = "own")
  BY <1>1, NoticeFacts DEF Scopes
<1>3. NoticeTypes
  BY <1>1, <1>2, NoticeFacts, NotificationAssumption DEF NoticeTypes, NotificationAssumption
<1>4. TablesAgree
  BY <1>1 DEF TablesAgree
<1>5. JobsFit /\ LevelFits
  BY <1>1, NoticeFacts DEF JobsFit, LevelFits, SendingAt
<1>6. \A d \in Dispatcher : WorkFits(dispatcher[d])
  BY <1>1, NoticeFacts
<1> QED BY <1>3, <1>4, <1>5, <1>6 DEF NoticeInv

\* The invariant of the tables of routes and of the dispatchers.
THEOREM NoticeInvariant == NoticeSpec => []NoticeInv
<1>1. NoticeInv /\ [NoticeNext]_noticeVars => NoticeInv'
  BY SaveSteps, NotifyStep, DispatchStep, TestStep, BeginStep, AnsweredStep, EndSteps, NoticeUnchanged DEF NoticeNext
<1> QED BY <1>1, NoticeFirst, PTL DEF NoticeSpec

\* The tables have known rows, the level is one of two, and the pool has at most a job for each event.
THEOREM NoticeTyped == NoticeSpec => []NoticeTypeOK
<1>1. NoticeInv => NoticeTypeOK
  <2> SUFFICES ASSUME NoticeInv PROVE NoticeTypeOK
    OBVIOUS
  <2>1. ASSUME NEW s \in Scopes, NEW i \in 1..Len(routes[s])
        PROVE  /\ routes[s] # NotOwn => routes[s][i].event \subseteq KnownEvent /\ routes[s][i].event # {}
               /\ Cardinality(routes[s][i].event) > 1 => "all" \notin routes[s][i].event
               /\ routes[s] # NotOwn => routes[s][i].url \in Url
    <3>1. routes[s] \in Seq(KnownRow) \/ routes[s] = NotOwn
      BY DEF NoticeInv, NoticeTypes
    <3>2. CASE routes[s] \in Seq(KnownRow)
      <4>1. routes[s][i] \in KnownRow
        BY <3>2
      <4>2. ASSUME "all" \in routes[s][i].event PROVE ~(Cardinality(routes[s][i].event) > 1)
        <5>1. routes[s][i].event = {"all"}
          BY <4>1, <4>2 DEF KnownRow
        <5>2. Cardinality(routes[s][i].event) = 1
          BY <5>1, FS_Singleton
        <5> QED BY <5>2
      <4> QED BY <4>1, <4>2 DEF KnownRow
    <3>3. CASE routes[s] = NotOwn
      <4>1. Len(NotOwn) = 1 /\ NotOwn[1].event = {}
        BY DEF NotOwn
      <4>2. i = 1
        BY <3>3, <4>1
      <4> QED BY <3>3, <4>1, <4>2
    <3> QED BY <3>1, <3>2, <3>3
  <2>2. level \in {"unset", "info"} /\ Len(pool) <= NotifyLimit
    BY NotificationAssumption DEF NoticeInv, NoticeTypes, NotificationAssumption
  <2> QED BY <2>1, <2>2 DEF NoticeTypeOK, Scopes
<1> QED BY <1>1, NoticeInvariant, PTL

\* However tables are saved while events happen and others send, a dispatch tries what the tables
\* ask for, each once, blames what failed, and leaves the logger as it was.
THEOREM NoticeDispatchIsOwn == NoticeSpec => []DispatchIsOwn
<1>1. NoticeInv => DispatchIsOwn
  <2> SUFFICES ASSUME NoticeInv PROVE DispatchIsOwn
    OBVIOUS
  <2>1. \A d \in Dispatcher : WorkFits(dispatcher[d]) /\ dispatcher[d] \in AtWork
    BY DEF NoticeInv, NoticeTypes
  <2>2. ASSUME NEW d \in Dispatcher, dispatcher[d].at = "next", dispatcher[d].left = <<>>
        PROVE  /\ Listed(dispatcher[d].tried) = dispatcher[d].due
               /\ Len(dispatcher[d].tried) = Cardinality(dispatcher[d].due)
    <3>1. Listed(<<>>) = {}
      BY DEF Listed
    <3>2. Listed(dispatcher[d].tried) = dispatcher[d].due /\ Once(dispatcher[d].tried)
      BY <2>1, <2>2, <3>1 DEF WorkFits
    <3>3. dispatcher[d].tried \in Seq(Url)
      BY <2>1 DEF AtWork
    <3> QED BY <3>2, <3>3, ListedIs
  <2>3. EveryRouteOnce
    BY <2>2 DEF EveryRouteOnce, NoticeInv, JobsFit
  <2>4. OwnRecordsOnly
    BY <2>1 DEF OwnRecordsOnly, WorkFits
  <2>5. LevelRestored
    BY DEF LevelRestored, NoticeInv, LevelFits, SendingAt
  <2> QED BY <2>3, <2>4, <2>5 DEF DispatchIsOwn
<1> QED BY <1>1, NoticeInvariant, PTL
=============================================================================
