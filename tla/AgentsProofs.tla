----------------------------- MODULE AgentsProofs -----------------------------
(***************************************************************************)
(* Agents, their sub-agents, preferences and patrol, for any numbers of    *)
(* slots, queues, threads and keywords, and any width of the tick.         *)
(***************************************************************************)
EXTENDS Agents, SequenceTheorems, FiniteSetTheorems, WellFoundedInduction, TLAPS

-----------------------------------------------------------------------------
(* Induction and recursion, on numbers and in the form of sets and         *)
(* functions.                                                              *)

LEMMA Least ==
  ASSUME NEW T, T \subseteq Nat, T # {}
  PROVE  \E n \in T : \A m \in T : n <= m
<1> DEFINE Less == {ss \in Nat \X Nat : ss[1] < ss[2]}
<1>1. IsWellFoundedOn(Less, Nat)
  BY NatLessThanWellFounded DEF OpToRel
<1>2. PICK n \in T : \A m \in T : ~(<<m, n>> \in Less)
  <2> HIDE DEF Less
  <2> QED BY <1>1, WFMin, Zenon
<1>3. ASSUME NEW m \in T PROVE n <= m
  <2>1. <<m, n>> \in Nat \X Nat OBVIOUS
  <2>2. m < n => <<m, n>> \in Less BY <2>1
  <2> QED BY <1>2, <2>2
<1> QED BY <1>3

(* Induction in the form of a set: what is true of 0 and goes from one     *)
(* number to the next is true of every number up to N.                     *)
LEMMA Induction ==
  ASSUME NEW N \in Nat, NEW T, 0 \in T,
         \A n \in 1..N : n - 1 \in T => n \in T
  PROVE  0..N \subseteq T
<1> DEFINE Bad == {n \in Nat : n <= N /\ n \notin T}
<1>1. ASSUME Bad # {} PROVE FALSE
  <2>1. PICK n \in Bad : \A m \in Bad : n <= m
    <3>1. Bad \subseteq Nat OBVIOUS
    <3> HIDE DEF Bad
    <3> QED BY <1>1, <3>1, Least
  <2>2. n # 0 /\ n \in 1..N OBVIOUS
  <2>3. n - 1 \notin Bad
    <3>1. ~(n <= n - 1) BY <2>2
    <3> HIDE DEF Bad
    <3> QED BY <2>1, <3>1
  <2>4. n - 1 \in Nat /\ n - 1 <= N BY <2>2
  <2> QED BY <2>2, <2>3, <2>4
<1> QED BY <1>1

Iterates(g, N, R, base, step) ==
  g \in [0..N -> R] /\ g[0] = base /\ \A n \in 1..N : g[n] = step[<<g[n - 1], n>>]

LEMMA Recursion ==
  ASSUME NEW N \in Nat, NEW R, NEW base \in R, NEW step \in [R \X (1..N) -> R]
  PROVE  \E g : Iterates(g, N, R, base, step)
<1> DEFINE Upto(n) == {g \in [0..n -> R] :
                         g[0] = base /\ \A m \in 1..n : g[m] = step[<<g[m - 1], m>>]}
<1> DEFINE T == {n \in 0..N : Upto(n) # {}}
<1>1. 0 \in T
  <2>1. [m \in 0..0 |-> base] \in Upto(0) OBVIOUS
  <2> QED BY <2>1
<1>2. ASSUME NEW n \in 1..N, n - 1 \in T PROVE n \in T
  <2>1. PICK h \in [0..(n - 1) -> R] :
          h[0] = base /\ \A m \in 1..(n - 1) : h[m] = step[<<h[m - 1], m>>]
    BY <1>2
  <2> DEFINE g == [m \in 0..n |-> IF m = n THEN step[<<h[n - 1], n>>] ELSE h[m]]
  <2>2. h[n - 1] \in R OBVIOUS
  <2>3. step[<<h[n - 1], n>>] \in R
    <3>1. <<h[n - 1], n>> \in R \X (1..N) BY <2>2
    <3> QED BY <3>1, Zenon
  <2>4. g \in [0..n -> R]
    <3>1. ASSUME NEW m \in 0..n, m # n PROVE h[m] \in R
      <4>1. m \in 0..(n - 1) BY <3>1
      <4> QED BY <4>1
    <3> QED BY <2>3, <3>1
  <2>5. g[0] = base
    <3>1. 0 \in 0..n /\ 0 # n OBVIOUS
    <3> QED BY <2>1, <3>1
  <2>6. ASSUME NEW m \in 1..n PROVE g[m] = step[<<g[m - 1], m>>]
    <3>1. m \in 0..n /\ m - 1 \in 0..n /\ m - 1 # n OBVIOUS
    <3>2. g[m - 1] = h[m - 1] BY <3>1
    <3>3. CASE m = n BY <3>1, <3>2, <3>3
    <3>4. CASE m # n
      <4>1. m \in 1..(n - 1) BY <3>4
      <4>2. g[m] = h[m] BY <3>1, <3>4
      <4> QED BY <2>1, <4>1, <4>2, <3>2
    <3> QED BY <3>3, <3>4
  <2>7. g \in Upto(n)
    <3> HIDE DEF g
    <3> QED BY <2>4, <2>5, <2>6
  <2>8. Upto(n) # {}
    <3> HIDE DEF Upto, g
    <3> QED BY <2>7
  <2> HIDE DEF Upto
  <2> QED BY <2>8
<1>3. N \in T
  <2>1. \A n \in 1..N : n - 1 \in T => n \in T BY <1>2
  <2> HIDE DEF T
  <2>2. 0..N \subseteq T BY <1>1, <2>1, Induction
  <2> QED BY <2>2
<1>4. PICK g \in Upto(N) : TRUE BY <1>3
<1> QED BY <1>4 DEF Iterates

LEMMA EffectsAreFields ==
  ASSUME NEW k \in DOMAIN Effects
  PROVE  /\ DOMAIN Effects[k] \subseteq DOMAIN Defaults
         /\ "routing" \in DOMAIN Effects[k] => Effects[k].routing \in RoutingModes
BY DEF Effects, Defaults, RoutingModes

LEMMA ApplyIs ==
  ASSUME NEW p, DOMAIN p = DOMAIN Defaults, NEW k
  PROVE  /\ DOMAIN ApplyKeyword(p, k) = DOMAIN p
         /\ \A f \in DOMAIN p : ApplyKeyword(p, k)[f] =
               IF k \in DOMAIN Effects /\ f \in DOMAIN Effects[k] THEN Effects[k][f] ELSE p[f]
BY Zenon DEF ApplyKeyword

LEMMA ParsedWordsFit ==
  ASSUME NEW sent \in Seq(STRING)
  PROVE  /\ ParsedWords(sent) \in Seq(STRING)
         /\ Len(ParsedWords(sent)) <= MaxKeywords
         /\ \A i \in DOMAIN ParsedWords(sent) : ParsedWords(sent)[i] # ""
<1> DEFINE E == ""
<1> HIDE DEF E
<1> DEFINE R == {s \in Seq(STRING) : Len(s) <= MaxKeywords /\ \A i \in DOMAIN s : s[i] # E}
<1> DEFINE N == Len(sent)
<1> DEFINE Next(s, n) == IF sent[n] = E \/ Len(s) >= MaxKeywords THEN s ELSE Append(s, sent[n])
<1> DEFINE step == [x \in R \X (1..N) |-> Next(x[1], x[2])]
<1>1. N \in Nat /\ <<>> \in R BY KeywordsAssumption
<1>2. ASSUME NEW s \in R, NEW n \in 1..N PROVE Next(s, n) \in R
  <2>1. CASE sent[n] = E \/ Len(s) >= MaxKeywords BY <2>1
  <2>2. CASE ~(sent[n] = E \/ Len(s) >= MaxKeywords)
    <3>1. sent[n] \in STRING OBVIOUS
    <3>2. Next(s, n) = Append(s, sent[n]) BY <2>2
    <3>3. Append(s, sent[n]) \in Seq(STRING) /\ Len(Append(s, sent[n])) <= MaxKeywords
      BY <3>1, <2>2, KeywordsAssumption
    <3>4. \A i \in DOMAIN Append(s, sent[n]) : Append(s, sent[n])[i] # E
      BY <3>1, <2>2
    <3> QED BY <3>2, <3>3, <3>4
  <2> QED BY <2>1, <2>2
<1>3. step \in [R \X (1..N) -> R]
  <2> HIDE DEF R, Next, N
  <2> QED BY <1>2
<1>4. PICK g \in [0..N -> R] : g[0] = <<>> /\ \A n \in 1..N : g[n] = step[<<g[n - 1], n>>]
  <2> HIDE DEF R, N, step
  <2>1. \E g : Iterates(g, N, R, <<>>, step) BY <1>1, <1>3, Recursion
  <2> QED BY <2>1 DEF Iterates
<1> DEFINE Is(f) == f = [n \in 0..N |-> IF n = 0 THEN <<>> ELSE Next(f[n - 1], n)]
<1>5. Is(g)
  <2>1. ASSUME NEW n \in 0..N PROVE g[n] = IF n = 0 THEN <<>> ELSE Next(g[n - 1], n)
    <3>1. CASE n = 0 BY <1>4, <3>1
    <3>2. CASE n # 0
      <4>1. n \in 1..N /\ n - 1 \in 0..N BY <3>2
      <4>2. g[n - 1] \in R BY <4>1
      <4>3. step[<<g[n - 1], n>>] = Next(g[n - 1], n)
        <5> HIDE DEF R, N, Next
        <5> QED BY <4>1, <4>2
      <4> QED BY <1>4, <4>1, <4>3, <3>2
    <3> QED BY <3>1, <3>2
  <2> HIDE DEF R, N, Next, step
  <2> QED BY <2>1
<1> DEFINE h == CHOOSE f : Is(f)
<1>6. Is(h)
  <2> HIDE DEF Is
  <2> QED BY <1>5, Zenon
<1>7. ParsedWords(sent) = h[N] BY Zenon DEF ParsedWords, E
<1>8. \A n \in 0..N : h[n] = g[n]
  <2> DEFINE T == {n \in 0..N : h[n] = g[n]}
  <2>1. 0 \in T
     <3> HIDE DEF h, Next
     <3> QED BY <1>5, <1>6, <1>1
  <2>2. ASSUME NEW n \in 1..N, n - 1 \in T PROVE n \in T
     <3>1. n \in 0..N /\ n # 0 OBVIOUS
     <3> HIDE DEF h, Next, N
     <3> QED BY <1>5, <1>6, <2>2, <3>1
  <2>3. 0..N \subseteq T
     <3>1. \A n \in 1..N : n - 1 \in T => n \in T BY <2>2
     <3> HIDE DEF T, N
     <3> QED BY <2>1, <3>1, <1>1, Induction
  <2> HIDE DEF h
  <2> QED BY <2>3
<1>9. h[N] \in R
  <2> HIDE DEF h, R
  <2> QED BY <1>8, <1>1
<1> HIDE DEF h
<1> QED BY <1>7, <1>9 DEF E

LEMMA ByKeywordsIs ==
  ASSUME NEW said \in Seq(STRING)
  PROVE  \E g : /\ g[0] = Defaults
                /\ DOMAIN g = 0..Len(said)
                /\ \A n \in 1..Len(said) : g[n] = ApplyKeyword(g[n - 1], said[n])
                /\ ByKeywords(said) = g[Len(said)]
<1> DEFINE N == Len(said)
<1> DEFINE V == (UNION {{Effects[k][f] : f \in DOMAIN Effects[k]} : k \in DOMAIN Effects})
                  \cup {Defaults[f] : f \in DOMAIN Defaults}
<1> DEFINE R == [DOMAIN Defaults -> V]
<1> DEFINE step == [x \in R \X (1..N) |-> ApplyKeyword(x[1], said[x[2]])]
<1>1. N \in Nat OBVIOUS
<1>2. Defaults \in R
  <2>1. Defaults = [f \in DOMAIN Defaults |-> Defaults[f]] BY DEF Defaults
  <2>2. \A f \in DOMAIN Defaults : Defaults[f] \in V OBVIOUS
  <2> HIDE DEF V
  <2> QED BY <2>1, <2>2
<1>3. ASSUME NEW p \in R, NEW k PROVE ApplyKeyword(p, k) \in R
  <2>1. CASE k \in DOMAIN Effects
    <3>1. ApplyKeyword(p, k) = [f \in DOMAIN p |->
                                  IF f \in DOMAIN Effects[k] THEN Effects[k][f] ELSE p[f]]
      BY <2>1, Zenon DEF ApplyKeyword
    <3>2. \A f \in DOMAIN Effects[k] : Effects[k][f] \in V BY <2>1
    <3> HIDE DEF V
    <3>3. DOMAIN p = DOMAIN Defaults /\ \A f \in DOMAIN p : p[f] \in V OBVIOUS
    <3> QED BY <3>1, <3>2, <3>3
  <2>2. CASE k \notin DOMAIN Effects BY <2>2, Zenon DEF ApplyKeyword
  <2> QED BY <2>1, <2>2
<1>4. step \in [R \X (1..N) -> R]
  <2> HIDE DEF R, N
  <2> QED BY <1>3
<1>5. PICK g \in [0..N -> R] : g[0] = Defaults /\ \A n \in 1..N : g[n] = step[<<g[n - 1], n>>]
  <2> HIDE DEF R, N, step
  <2>1. \E g : Iterates(g, N, R, Defaults, step) BY <1>1, <1>2, <1>4, Recursion
  <2> QED BY <2>1 DEF Iterates
<1> DEFINE Is(f) == f = [n \in 0..N |-> IF n = 0 THEN Defaults ELSE ApplyKeyword(f[n - 1], said[n])]
<1>6. Is(g)
  <2>1. ASSUME NEW n \in 0..N
        PROVE  g[n] = IF n = 0 THEN Defaults ELSE ApplyKeyword(g[n - 1], said[n])
    <3>1. CASE n = 0 BY <1>5, <3>1
    <3>2. CASE n # 0
      <4>1. n \in 1..N /\ n - 1 \in 0..N BY <3>2
      <4>2. g[n - 1] \in R BY <4>1
      <4>3. step[<<g[n - 1], n>>] = ApplyKeyword(g[n - 1], said[n])
        <5> HIDE DEF R, N
        <5> QED BY <4>1, <4>2
      <4> QED BY <1>5, <4>1, <4>3, <3>2
    <3> QED BY <3>1, <3>2
  <2> HIDE DEF R, N, step
  <2> QED BY <2>1
<1> DEFINE h == CHOOSE f : Is(f)
<1>7. Is(h)
  <2> HIDE DEF Is
  <2> QED BY <1>6, Zenon
<1>8. ByKeywords(said) = h[N] BY Zenon DEF ByKeywords
<1>9. /\ h[0] = Defaults
      /\ DOMAIN h = 0..N
      /\ \A n \in 1..N : h[n] = ApplyKeyword(h[n - 1], said[n])
  <2>1. 0 \in 0..N /\ \A n \in 1..N : n \in 0..N /\ n # 0 BY <1>1
  <2> HIDE DEF h, N
  <2> QED BY <1>7, <2>1
<1> HIDE DEF h
<1> QED BY <1>8, <1>9

LEMMA LastSpeaks ==
  ASSUME NEW said \in Seq(STRING)
  PROVE  ByKeywords(said) = MeaningOf(said)
<1> DEFINE N == Len(said)
<1> DEFINE Speaks(i, f) == said[i] \in DOMAIN Effects /\ f \in DOMAIN Effects[said[i]]
<1>1. PICK g : /\ g[0] = Defaults
               /\ DOMAIN g = 0..N
               /\ \A n \in 1..N : g[n] = ApplyKeyword(g[n - 1], said[n])
               /\ ByKeywords(said) = g[N]
  BY ByKeywordsIs, Zenon
<1>2. N \in Nat /\ DOMAIN said = 1..N OBVIOUS
<1> DEFINE Field(n, f) ==
      \/ (\A i \in 1..n : ~Speaks(i, f)) /\ g[n][f] = Defaults[f]
      \/ \E i \in 1..n : /\ Speaks(i, f)
                         /\ \A j \in 1..n : Speaks(j, f) => j <= i
                         /\ g[n][f] = Effects[said[i]][f]
<1> DEFINE Good(n) == /\ DOMAIN g[n] = DOMAIN Defaults
                      /\ g[n] = [f \in DOMAIN Defaults |-> g[n][f]]
                      /\ \A f \in DOMAIN Defaults : Field(n, f)
<1> DEFINE T == {n \in 0..N : Good(n)}
<1>3. 0 \in T
  <2>1. Defaults = [f \in DOMAIN Defaults |-> Defaults[f]] BY DEF Defaults
  <2>2. \A i \in 1..0 : FALSE OBVIOUS
  <2> QED BY <1>1, <1>2, <2>1, <2>2
<1>4. ASSUME NEW n \in 1..N, n - 1 \in T PROVE n \in T
  <2> HIDE DEF N
  <2>1. n \in 0..N /\ n - 1 \in 0..N /\ n \in Nat /\ Good(n - 1) BY <1>4, <1>2
  <2>2. g[n] = ApplyKeyword(g[n - 1], said[n]) BY <1>1
  <2> HIDE DEF Speaks
  <2>3. /\ DOMAIN g[n] = DOMAIN Defaults
        /\ g[n] = [f \in DOMAIN Defaults |-> g[n][f]]
        /\ \A f \in DOMAIN Defaults : g[n][f] =
             IF said[n] \in DOMAIN Effects /\ f \in DOMAIN Effects[said[n]]
               THEN Effects[said[n]][f] ELSE g[n - 1][f]
    <3>1. CASE said[n] \in DOMAIN Effects
      <4>1. g[n] = [f \in DOMAIN g[n - 1] |->
                IF f \in DOMAIN Effects[said[n]] THEN Effects[said[n]][f] ELSE g[n - 1][f]]
        BY <3>1, <2>2, Zenon DEF ApplyKeyword
      <4> QED BY <4>1, <2>1, <3>1, Zenon
    <3>2. CASE said[n] \notin DOMAIN Effects
      <4>1. g[n] = g[n - 1] BY <3>2, <2>2, Zenon DEF ApplyKeyword
      <4> QED BY <4>1, <2>1, <3>2, Zenon
    <3> QED BY <3>1, <3>2
  <2>4. ASSUME NEW f \in DOMAIN Defaults PROVE Field(n, f)
    <3>1. CASE Speaks(n, f)
      <4>1. g[n][f] = Effects[said[n]][f] BY <2>3, <3>1 DEF Speaks
      <4>2. n \in 1..n /\ \A j \in 1..n : j <= n BY <2>1
      <4> QED BY <3>1, <4>1, <4>2
    <3>2. CASE ~Speaks(n, f)
      <4>1. g[n][f] = g[n - 1][f] BY <2>3, <3>2 DEF Speaks
      <4>2. \A i \in 1..n : i = n \/ i \in 1..(n - 1) BY <2>1
      <4>3. \A i \in 1..(n - 1) : i \in 1..n BY <2>1
      <4>4. Field(n - 1, f) BY <2>1
      <4> QED BY <4>1, <4>2, <4>3, <4>4, <3>2
    <3> QED BY <3>1, <3>2
  <2> HIDE DEF Field
  <2> QED BY <2>1, <2>3, <2>4
<1>5. Good(N)
  <2>1. \A n \in 1..N : n - 1 \in T => n \in T BY <1>4
  <2> HIDE DEF T, N
  <2>2. 0..N \subseteq T BY <1>2, <1>3, <2>1, Induction
  <2>3. N \in 0..N BY <1>2
  <2> QED BY <2>2, <2>3 DEF T
<1>6. ASSUME NEW f \in DOMAIN Defaults PROVE MeaningOf(said)[f] = g[N][f]
  <2> DEFINE speak == {i \in DOMAIN said : Speaks(i, f)}
  <2> DEFINE last == CHOOSE i \in speak : \A j \in speak : j <= i
  <2>1. MeaningOf(said)[f] = IF speak = {} THEN Defaults[f] ELSE Effects[said[last]][f]
    BY Zenon DEF MeaningOf
  <2>2. Field(N, f) BY <1>5
  <2>3. CASE (\A i \in 1..N : ~Speaks(i, f)) /\ g[N][f] = Defaults[f]
    <3>1. speak = {} BY <2>3, <1>2
    <3> HIDE DEF speak, last
    <3> QED BY <2>1, <2>3, <3>1
  <2>4. CASE \E i \in 1..N : /\ Speaks(i, f)
                             /\ \A j \in 1..N : Speaks(j, f) => j <= i
                             /\ g[N][f] = Effects[said[i]][f]
    <3>1. PICK i \in 1..N : /\ Speaks(i, f)
                             /\ \A j \in 1..N : Speaks(j, f) => j <= i
                             /\ g[N][f] = Effects[said[i]][f]
      BY <2>4
    <3> HIDE DEF N, Speaks
    <3>2. i \in speak /\ \A j \in speak : j <= i BY <3>1, <1>2
    <3>3. speak \subseteq Nat BY <1>2
    <3>4. last \in speak /\ \A j \in speak : j <= last
      <4> HIDE DEF speak
      <4> QED BY <3>2, Zenon
    <3>5. last = i
      <4> HIDE DEF speak, last
      <4> QED BY <3>2, <3>3, <3>4
    <3>6. speak # {} BY <3>2
    <3> HIDE DEF speak, last
    <3> QED BY <2>1, <3>1, <3>5, <3>6
  <2> QED BY <2>2, <2>3, <2>4
<1>7. MeaningOf(said) = [f \in DOMAIN Defaults |-> MeaningOf(said)[f]] BY DEF MeaningOf
<1>8. g[N] = [f \in DOMAIN Defaults |-> g[N][f]] BY <1>5
<1>9. MeaningOf(said) = g[N] BY <1>6, <1>7, <1>8, Zenon
<1> QED BY <1>1, <1>9

(* A remainder is no greater than what is divided.                         *)
LEMMA RemainderIsSmall ==
  ASSUME NEW d \in Nat, NEW w \in Nat \ {0}
  PROVE  d % w <= d
BY Z3

LEMMA SlotsAreNumbers == AgMax \in Nat /\ \A a \in AgSlots : a \in Nat
BY AgentsAssumption DEF AgSlots

LEMMA TimesAreNumbers ==
  AgPatrolEvery \in Nat /\ \A period \in AgPeriods \cup {0} : period \in Nat
<1>1. AgPatrolEvery \in Nat \ {0} /\ AgPeriods \subseteq Nat \ {0}
  BY AgentsAssumption, Zenon
<1> QED
  BY <1>1

-----------------------------------------------------------------------------
(* Agents.                                                                 *)

ListOK(list) ==
  /\ \E S : list \in Seq(S)
  /\ Len(list) <= AgMax
  /\ IsInjective(list)

AgentOK(r) ==
  /\ r = [valid |-> r.valid, state |-> r.state, period |-> r.period, fed |-> r.fed,
          subs |-> r.subs, inbox |-> r.inbox, pref |-> r.pref]
  /\ r.period \in Nat /\ r.fed \in Nat
  /\ ListOK(r.subs)

PoolOK(pool) ==
  /\ pool = [agents |-> pool.agents, queues |-> pool.queues, made |-> pool.made]
  /\ pool.agents = [a \in AgSlots |-> pool.agents[a]]
  /\ \A a \in AgSlots : AgentOK(pool.agents[a])

(* A pool q that was made from the pool p without starting a step or a     *)
(* watchdog.                                                               *)
Kept(p, q) ==
  /\ PoolOK(q)
  /\ \A a \in AgSlots :
       /\ q.agents[a].state = "EXECUTING" => p.agents[a].state = "EXECUTING"
       /\ \/ q.agents[a].period = 0
          \/ /\ q.agents[a].valid = p.agents[a].valid
             /\ q.agents[a].period = p.agents[a].period
             /\ q.agents[a].fed = p.agents[a].fed

(* What the patrol leaves behind it: a slot it has dealt with was, when it *)
(* read the clock, within its period, and the other slots within one more  *)
(* round: r is the slot a, p the patrol and st the slots that are starting.*)
Noticed(r, a, p, st) ==
  /\ r.period \in AgPeriods \cup {0}
  /\ r.valid /\ r.period # 0 /\ a \notin st =>
       p.now - r.fed <= r.period + (IF a < p.at THEN 0 ELSE AgPatrolEvery)

PatrolOK ==
  /\ patrol \in [at : 0..(AgMax + 1), stage : PatrolStages, now : Nat]
  /\ patrol.now <= agNow /\ agNow <= patrol.now + AgPatrolEvery
  /\ starting \subseteq AgSlots

SlotsNoticed == \A a \in AgSlots : Noticed(agents[a], a, patrol, starting)

AgentInv ==
  /\ PoolOK(Pool)
  /\ agNow \in Nat
  /\ PatrolOK
  /\ runs \in [AgRunners -> AgSlots \cup {NoAgent}]
  /\ ExecutingHasRunner
  /\ SlotsNoticed

LEMMA EmptyListOK == ListOK(<<>>)
<1>1. <<>> \in Seq({})
  OBVIOUS
<1>2. Len(<<>>) = 0
  OBVIOUS
<1>3. IsInjective(<<>>)
  BY DEF IsInjective
<1> QED
  BY <1>1, <1>2, <1>3, SlotsAreNumbers DEF ListOK

(* A record with the fields of an agent is one.                            *)
LEMMA LiteralOK ==
  ASSUME NEW valid, NEW state, NEW period \in Nat, NEW fed \in Nat, NEW subs, ListOK(subs),
         NEW inbox, NEW pref
  PROVE  AgentOK([valid |-> valid, state |-> state, period |-> period, fed |-> fed,
                  subs |-> subs, inbox |-> inbox, pref |-> pref])
BY DEF AgentOK

(* slot_alloc fills a cleared slot, field by field.                        *)
Fresh(valid, state, inbox, pref) ==
  [valid |-> valid, state |-> state, period |-> 0, fed |-> 0, subs |-> <<>>,
   inbox |-> inbox, pref |-> pref]

Filled(r, state, pref, valid, inbox) ==
  [r EXCEPT !.state = state, !.pref = pref, !.valid = valid, !.inbox = inbox]

LEMMA FreshOK ==
  ASSUME NEW valid, NEW state, NEW inbox, NEW pref
  PROVE  /\ AgentOK(Fresh(valid, state, inbox, pref))
         /\ Fresh(valid, state, inbox, pref).state = state
         /\ Fresh(valid, state, inbox, pref).period = 0
BY EmptyListOK, LiteralOK DEF Fresh

LEMMA FilledIs ==
  ASSUME NEW v, NEW s, NEW i, NEW p, NEW state, NEW pref, NEW valid, NEW inbox
  PROVE  Filled(Fresh(v, s, i, p), state, pref, valid, inbox) = Fresh(valid, state, inbox, pref)
<1> DEFINE r == Fresh(v, s, i, p)
<1>1. [r EXCEPT !.state = state, !.pref = pref, !.valid = valid, !.inbox = inbox] =
        [[[[r EXCEPT !.state = state] EXCEPT !.pref = pref] EXCEPT !.valid = valid]
          EXCEPT !.inbox = inbox]
  <2> HIDE DEF r
  <2> QED
    OBVIOUS
<1>2. [r EXCEPT !.state = state] = Fresh(v, state, i, p)
  BY DEF Fresh
<1>3. [Fresh(v, state, i, p) EXCEPT !.pref = pref] = Fresh(v, state, i, pref)
  BY DEF Fresh
<1>4. [Fresh(v, state, i, pref) EXCEPT !.valid = valid] = Fresh(valid, state, i, pref)
  BY DEF Fresh
<1>5. [Fresh(valid, state, i, pref) EXCEPT !.inbox = inbox] = Fresh(valid, state, inbox, pref)
  BY DEF Fresh
<1> HIDE DEF r
<1>6. [r EXCEPT !.state = state, !.pref = pref, !.valid = valid, !.inbox = inbox] =
        Fresh(valid, state, inbox, pref)
  BY <1>1, <1>2, <1>3, <1>4, <1>5
<1> QED
  BY <1>6, Zenon DEF r, Filled

LEMMA ZeroedIs ==
  \E no, idle : Zeroed = Fresh(no, idle, 0, ZeroPreference) /\ no = FALSE /\ idle = "IDLE"
<1> DEFINE no   == FALSE
           idle == "IDLE"
<1>1. Zeroed = Fresh(no, idle, 0, ZeroPreference) /\ no = FALSE /\ idle = "IDLE"
  BY DEF Zeroed, Fresh
<1> HIDE DEF no, idle
<1> QED
  BY <1>1, Zenon

LEMMA NewAgentIs ==
  ASSUME NEW ready, NEW room, NEW inbox
  PROVE  Filled(Zeroed, ready, Defaults, room, inbox) = Fresh(room, ready, inbox, Defaults)
<1>1. PICK no, idle : Zeroed = Fresh(no, idle, 0, ZeroPreference)
  BY ZeroedIs, Zenon
<1> QED
  BY <1>1, FilledIs

LEMMA NewAgentOK ==
  /\ AgentOK(Zeroed) /\ Zeroed.state = "IDLE" /\ Zeroed.period = 0
  /\ \A ready, room, inbox : /\ AgentOK(Filled(Zeroed, ready, Defaults, room, inbox))
                             /\ Filled(Zeroed, ready, Defaults, room, inbox).state = ready
                             /\ Filled(Zeroed, ready, Defaults, room, inbox).period = 0
<1>1. PICK no, idle : Zeroed = Fresh(no, idle, 0, ZeroPreference) /\ no = FALSE /\ idle = "IDLE"
  BY ZeroedIs, Zenon
<1>2. /\ AgentOK(Fresh(no, idle, 0, ZeroPreference))
      /\ Fresh(no, idle, 0, ZeroPreference).state = idle
      /\ Fresh(no, idle, 0, ZeroPreference).period = 0
  BY FreshOK
<1>3. AgentOK(Zeroed) /\ Zeroed.state = "IDLE" /\ Zeroed.period = 0
  BY <1>1, <1>2, Zenon
<1>4. ASSUME NEW ready, NEW room, NEW inbox
      PROVE  /\ AgentOK(Filled(Zeroed, ready, Defaults, room, inbox))
             /\ Filled(Zeroed, ready, Defaults, room, inbox).state = ready
             /\ Filled(Zeroed, ready, Defaults, room, inbox).period = 0
  BY NewAgentIs, FreshOK
<1> QED
  BY <1>3, <1>4

LEMMA SlotAllocKeeps ==
  ASSUME NEW pool, PoolOK(pool)
  PROVE  Kept(pool, SlotAlloc(pool))
<1> DEFINE free == {a \in AgSlots : ~pool.agents[a].valid}
           slot == CHOOSE a \in free : \A b \in free : a <= b
           room == Len(pool.queues) < AgMaxQueues
           new  == [Zeroed EXCEPT !.state = "READY", !.pref = Defaults, !.valid = room,
                                  !.inbox = IF room THEN Len(pool.queues) + 1 ELSE 0]
<1>1. CASE free = {}
  <2>1. SlotAlloc(pool) = [pool EXCEPT !.made = NoAgent]
    BY <1>1 DEF SlotAlloc
  <2> QED
    BY <2>1 DEF Kept, PoolOK
<1>2. CASE free # {}
  <2>1. SlotAlloc(pool) =
          [agents |-> [pool.agents EXCEPT ![slot] = new],
           queues |-> IF room THEN Append(pool.queues, <<>>) ELSE pool.queues,
           made   |-> IF room THEN slot ELSE NoAgent]
    BY <1>2 DEF SlotAlloc
  <2>2. AgentOK(new) /\ new.state = "READY" /\ new.period = 0
    <3> DEFINE ready == "READY"
               inbox == IF room THEN Len(pool.queues) + 1 ELSE 0
    <3> HIDE DEF ready, room, inbox
    <3>1. new = Filled(Zeroed, ready, Defaults, room, inbox)
      BY Zenon DEF Filled, ready, inbox
    <3> HIDE DEF new
    <3> QED
      BY <3>1, NewAgentOK DEF ready
  <2> HIDE DEF slot, new, room
  <2>3. \A a \in AgSlots : [pool.agents EXCEPT ![slot] = new][a] =
                             IF a = slot THEN new ELSE pool.agents[a]
    BY DEF PoolOK
  <2> QED
    BY <2>1, <2>2, <2>3 DEF Kept, PoolOK
<1> QED
  BY <1>1, <1>2

LEMMA RegisteredKeeps ==
  ASSUME NEW pool, PoolOK(pool), NEW parent \in AgSlots, NEW sub
  PROVE  Kept(pool, Registered(pool, parent, sub))
<1> DEFINE r    == pool.agents[parent]
           subs == r.subs
<1>1. CASE Len(subs) >= AgMax \/ \E i \in DOMAIN subs : subs[i] = sub
  BY <1>1 DEF Registered, Kept
<1>2. CASE ~(Len(subs) >= AgMax \/ \E i \in DOMAIN subs : subs[i] = sub)
  <2>1. PICK S : subs \in Seq(S)
    BY DEF PoolOK, AgentOK, ListOK
  <2>2. /\ Append(subs, sub) \in Seq(S \cup {sub})
        /\ Len(Append(subs, sub)) = Len(subs) + 1 /\ Len(subs) \in Nat
        /\ \A i \in 1..Len(subs) : Append(subs, sub)[i] = subs[i]
        /\ Append(subs, sub)[Len(subs) + 1] = sub
        /\ DOMAIN subs = 1..Len(subs)
        /\ DOMAIN Append(subs, sub) = 1..(Len(subs) + 1)
    BY <2>1
  <2>3. IsInjective(Append(subs, sub))
    <3> HIDE DEF subs
    <3>1. ASSUME NEW i \in 1..(Len(subs) + 1), NEW j \in 1..(Len(subs) + 1),
                 Append(subs, sub)[i] = Append(subs, sub)[j]
          PROVE  i = j
      <4>1. IsInjective(subs)
        BY DEF subs, PoolOK, AgentOK, ListOK
      <4>2. \A k \in 1..(Len(subs) + 1) : k \in 1..Len(subs) \/ k = Len(subs) + 1
        BY <2>2
      <4>3. \A k \in 1..Len(subs) : subs[k] # sub
        BY <1>2, <2>2
      <4>4. CASE i \in 1..Len(subs) /\ j \in 1..Len(subs)
        BY <2>2, <3>1, <4>1, <4>4 DEF IsInjective
      <4>5. CASE i \in 1..Len(subs) /\ j = Len(subs) + 1
        BY <2>2, <3>1, <4>3, <4>5
      <4>6. CASE i = Len(subs) + 1 /\ j \in 1..Len(subs)
        BY <2>2, <3>1, <4>3, <4>6
      <4>7. CASE i = Len(subs) + 1 /\ j = Len(subs) + 1
        BY <4>7
      <4> QED
        BY <4>2, <4>4, <4>5, <4>6, <4>7
    <3> QED
      BY <2>2, <3>1 DEF IsInjective
  <2>4. Len(Append(subs, sub)) <= AgMax
    <3> HIDE DEF subs
    <3> QED
      BY <1>2, <2>2, SlotsAreNumbers
  <2> DEFINE longer == Append(subs, sub)
             new    == [r EXCEPT !.subs = longer]
  <2>5. ListOK(longer)
    BY <2>2, <2>3, <2>4 DEF ListOK
  <2>6. AgentOK(r)
    BY DEF PoolOK
  <2>7. /\ AgentOK(new) /\ new.state = r.state
        /\ new.valid = r.valid /\ new.period = r.period /\ new.fed = r.fed
    <3> HIDE DEF longer, r
    <3> QED
      BY <2>5, <2>6 DEF AgentOK
  <2>8. Registered(pool, parent, sub) =
          [agents |-> [pool.agents EXCEPT ![parent] = new],
           queues |-> pool.queues, made |-> pool.made]
    BY <1>2 DEF Registered, PoolOK
  <2>9. \A a \in AgSlots : [pool.agents EXCEPT ![parent] = new][a] =
                             IF a = parent THEN new ELSE pool.agents[a]
    BY DEF PoolOK
  <2>10. pool.agents[parent] = r
    OBVIOUS
  <2> HIDE DEF new, r
  <2> QED
    BY <2>7, <2>8, <2>9, <2>10 DEF Kept, PoolOK
<1> QED
  BY <1>1, <1>2

LEMMA SubAgentKeeps ==
  ASSUME NEW pool, PoolOK(pool), NEW parent \in AgSlots \cup {NoAgent}
  PROVE  Kept(pool, WithSubAgent(pool, parent))
<1> DEFINE made == SlotAlloc(pool)
<1>1. Kept(pool, made)
  BY SlotAllocKeeps
<1>2. CASE made.made # NoAgent /\ parent # NoAgent /\ pool.agents[parent].valid
  <2>1. Kept(made, Registered(made, parent, made.made))
    BY <1>1, <1>2, RegisteredKeeps DEF Kept
  <2> QED
    BY <1>1, <1>2, <2>1 DEF Kept, WithSubAgent
<1>3. CASE ~(made.made # NoAgent /\ parent # NoAgent /\ pool.agents[parent].valid)
  BY <1>1, <1>3 DEF WithSubAgent
<1> QED
  BY <1>2, <1>3

LEMMA TeamKeeps ==
  ASSUME NEW pool, PoolOK(pool), NEW parent \in AgSlots
  PROVE  Kept(pool, WithTeam(pool, parent))
<1> DEFINE start  == [pool EXCEPT !.made = parent]
           vision == TeamMember(start, parent)
           motion == TeamMember(vision, parent)
           safety == TeamMember(motion, parent)
           force  == TeamMember(safety, parent)
<1>1. ASSUME NEW p, Kept(pool, p)
      PROVE  Kept(pool, TeamMember(p, parent))
  BY <1>1, SubAgentKeeps DEF Kept, TeamMember
<1>2. Kept(pool, start)
  BY DEF Kept, PoolOK
<1>3. WithTeam(pool, parent) = TeamMember(force, parent)
  BY DEF WithTeam
<1>4. Kept(pool, vision)
  BY <1>1, <1>2
<1>5. Kept(pool, motion)
  BY <1>1, <1>4
<1>6. Kept(pool, safety)
  BY <1>1, <1>5
<1>7. Kept(pool, force)
  BY <1>1, <1>6
<1> QED
  BY <1>1, <1>3, <1>7

(* A step that exchanges the pool and starts no step of an agent.          *)
LEMMA PoolHolds ==
  ASSUME AgentInv, NEW q, Kept(Pool, q), SetPool(q), UNCHANGED <<agNow, patrol, starting, runs>>
  PROVE  AgentInv'
<1>1. Pool' = [agents |-> q.agents, queues |-> q.queues, made |-> NoAgent]
  BY DEF Pool, SetPool
<1>2. PoolOK(Pool')
  BY <1>1 DEF PoolOK, Kept
<1>3. PoolOK(Pool)'
  BY <1>2
<1>4. ExecutingHasRunner'
  BY DEF AgentInv, ExecutingHasRunner, Kept, SetPool, Pool
<1>5. SlotsNoticed'
  <2> SUFFICES ASSUME NEW a \in AgSlots
               PROVE  Noticed(agents'[a], a, patrol', starting')
    BY DEF SlotsNoticed
  <2>1. \/ agents'[a].period = 0
        \/ /\ agents'[a].valid = agents[a].valid
           /\ agents'[a].period = agents[a].period /\ agents'[a].fed = agents[a].fed
    BY DEF Kept, SetPool, Pool
  <2>2. Noticed(agents[a], a, patrol, starting)
    BY DEF AgentInv, SlotsNoticed
  <2> QED
    BY <2>1, <2>2 DEF Noticed
<1> QED
  BY <1>3, <1>4, <1>5 DEF AgentInv, PatrolOK

(* What steps change of an agent leaves it one.                            *)
LEMMA FieldsOK ==
  ASSUME NEW r, AgentOK(r), NEW s, NEW p \in Nat, NEW f \in Nat
  PROVE  AgentOK([valid |-> r.valid, state |-> s, period |-> p, fed |-> f,
                  subs |-> r.subs, inbox |-> r.inbox, pref |-> r.pref])
BY LiteralOK DEF AgentOK

LEMMA FedOK ==
  ASSUME NEW r, AgentOK(r), NEW time \in Nat
  PROVE  /\ AgentOK([r EXCEPT !.fed = time])
         /\ [r EXCEPT !.fed = time].valid = r.valid
         /\ [r EXCEPT !.fed = time].state = r.state
         /\ [r EXCEPT !.fed = time].period = r.period
         /\ [r EXCEPT !.fed = time].fed = time
<1>1. r.period \in Nat
  BY DEF AgentOK
<1>2. [r EXCEPT !.fed = time] =
        [valid |-> r.valid, state |-> r.state, period |-> r.period, fed |-> time,
         subs |-> r.subs, inbox |-> r.inbox, pref |-> r.pref]
  BY DEF AgentOK
<1>3. AgentOK([valid |-> r.valid, state |-> r.state, period |-> r.period, fed |-> time,
              subs |-> r.subs, inbox |-> r.inbox, pref |-> r.pref])
  BY <1>1, FieldsOK
<1>4. /\ [r EXCEPT !.fed = time].valid = r.valid
      /\ [r EXCEPT !.fed = time].state = r.state
      /\ [r EXCEPT !.fed = time].period = r.period
      /\ [r EXCEPT !.fed = time].fed = time
  BY <1>2
<1> QED
  BY <1>2, <1>3, <1>4

LEMMA StateOK ==
  ASSUME NEW r, AgentOK(r), NEW s
  PROVE  /\ AgentOK([r EXCEPT !.state = s])
         /\ [r EXCEPT !.state = s].valid = r.valid
         /\ [r EXCEPT !.state = s].state = s
         /\ [r EXCEPT !.state = s].period = r.period
         /\ [r EXCEPT !.state = s].fed = r.fed
<1>1. r.period \in Nat /\ r.fed \in Nat
  BY DEF AgentOK
<1>2. [r EXCEPT !.state = s] =
        [valid |-> r.valid, state |-> s, period |-> r.period, fed |-> r.fed,
         subs |-> r.subs, inbox |-> r.inbox, pref |-> r.pref]
  BY DEF AgentOK
<1>3. AgentOK([valid |-> r.valid, state |-> s, period |-> r.period, fed |-> r.fed,
              subs |-> r.subs, inbox |-> r.inbox, pref |-> r.pref])
  BY <1>1, FieldsOK
<1>4. /\ [r EXCEPT !.state = s].valid = r.valid
      /\ [r EXCEPT !.state = s].state = s
      /\ [r EXCEPT !.state = s].period = r.period
      /\ [r EXCEPT !.state = s].fed = r.fed
  BY <1>2
<1> QED
  BY <1>2, <1>3, <1>4

LEMMA PeriodOK ==
  ASSUME NEW r, AgentOK(r), NEW p \in Nat
  PROVE  /\ AgentOK([r EXCEPT !.period = p])
         /\ [r EXCEPT !.period = p].state = r.state
         /\ [r EXCEPT !.period = p].period = p
<1>1. r.fed \in Nat
  BY DEF AgentOK
<1>2. [r EXCEPT !.period = p] =
        [valid |-> r.valid, state |-> r.state, period |-> p, fed |-> r.fed,
         subs |-> r.subs, inbox |-> r.inbox, pref |-> r.pref]
  BY DEF AgentOK
<1>3. AgentOK([valid |-> r.valid, state |-> r.state, period |-> p, fed |-> r.fed,
              subs |-> r.subs, inbox |-> r.inbox, pref |-> r.pref])
  BY <1>1, FieldsOK
<1>4. [r EXCEPT !.period = p].state = r.state /\ [r EXCEPT !.period = p].period = p
  BY <1>2
<1> QED
  BY <1>2, <1>3, <1>4

LEMMA RestartedOK ==
  ASSUME NEW r, AgentOK(r), NEW time \in Nat
  PROVE  /\ AgentOK([r EXCEPT !.state = "READY", !.fed = time])
         /\ [r EXCEPT !.state = "READY", !.fed = time].valid = r.valid
         /\ [r EXCEPT !.state = "READY", !.fed = time].state = "READY"
         /\ [r EXCEPT !.state = "READY", !.fed = time].period = r.period
         /\ [r EXCEPT !.state = "READY", !.fed = time].fed = time
<1> DEFINE ready == "READY"
           q     == [r EXCEPT !.state = ready]
<1>1. [r EXCEPT !.state = ready, !.fed = time] = [q EXCEPT !.fed = time]
  <2> HIDE DEF ready
  <2> QED
    OBVIOUS
<1>2. AgentOK(q) /\ q.valid = r.valid /\ q.state = ready /\ q.period = r.period
  <2> HIDE DEF ready
  <2> QED
    BY StateOK
<1>3. /\ AgentOK([r EXCEPT !.state = ready, !.fed = time])
      /\ [r EXCEPT !.state = ready, !.fed = time].valid = r.valid
      /\ [r EXCEPT !.state = ready, !.fed = time].state = ready
      /\ [r EXCEPT !.state = ready, !.fed = time].period = r.period
      /\ [r EXCEPT !.state = ready, !.fed = time].fed = time
  <2> HIDE DEF ready, q
  <2> QED
    BY <1>1, <1>2, FedOK
<1> QED
  BY <1>3

(* A step that changes one agent.                                          *)
LEMMA OneAgent ==
  ASSUME PoolOK(Pool), NEW a \in AgSlots, NEW r, AgentOK(r),
         agents' = [agents EXCEPT ![a] = r]
  PROVE  /\ PoolOK(Pool)'
         /\ agents'[a] = r
         /\ \A b \in AgSlots : b # a => agents'[b] = agents[b]
<1>1. Pool' = [agents |-> agents', queues |-> queues', made |-> NoAgent]
  BY DEF Pool
<1>2. agents = [b \in AgSlots |-> agents[b]] /\ \A b \in AgSlots : AgentOK(agents[b])
  BY DEF PoolOK, Pool
<1>3. /\ agents' = [b \in AgSlots |-> agents'[b]]
      /\ agents'[a] = r
      /\ \A b \in AgSlots : b # a => agents'[b] = agents[b]
  BY <1>2
<1>4. \A b \in AgSlots : AgentOK(agents'[b])
  BY <1>2, <1>3
<1>5. PoolOK(Pool')
  BY <1>1, <1>3, <1>4 DEF PoolOK
<1> QED
  BY <1>3, <1>5

(* A step that changes one agent and leaves the patrol where it is.        *)
LEMMA OneNoticed ==
  ASSUME AgentInv, NEW a \in AgSlots, UNCHANGED patrol,
         \A b \in AgSlots : b # a => agents'[b] = agents[b],
         \A b \in AgSlots : b # a /\ b \in starting => b \in starting',
         Noticed(agents'[a], a, patrol', starting')
  PROVE  SlotsNoticed'
<1> SUFFICES ASSUME NEW b \in AgSlots, b # a
             PROVE  Noticed(agents'[b], b, patrol', starting')
  BY DEF SlotsNoticed
<1>1. Noticed(agents[b], b, patrol, starting) /\ agents'[b] = agents[b]
  BY DEF AgentInv, SlotsNoticed
<1> QED
  BY <1>1 DEF Noticed

(* Whoever is fed now is within any period.                                *)
LEMMA FedIsNoticed ==
  ASSUME AgentInv, NEW a \in AgSlots, NEW r, r.period = agents[a].period,
         r.fed \in Nat, patrol.now <= r.fed, NEW st
  PROVE  Noticed(r, a, patrol, st)
<1>1. r.period \in AgPeriods \cup {0}
  BY DEF AgentInv, SlotsNoticed, Noticed
<1>2. r.period \in Nat /\ AgPatrolEvery \in Nat
  BY <1>1, TimesAreNumbers
<1>4. patrol.now \in Nat
  BY DEF AgentInv, PatrolOK
<1>3. patrol.now - r.fed <= r.period /\ patrol.now - r.fed <= r.period + AgPatrolEvery
  BY <1>2, <1>4
<1> QED
  BY <1>1, <1>2, <1>3 DEF Noticed

LEMMA AgentStartHolds == AgentStart => AgentInv
<1> SUFFICES ASSUME AgentStart PROVE AgentInv
  OBVIOUS
<1>1. \A a \in AgSlots : agents[a] = Zeroed
  BY DEF AgentStart
<1>2. PoolOK(Pool)
  BY <1>1, NewAgentOK DEF AgentStart, PoolOK, Pool
<1>3. ExecutingHasRunner
  BY <1>1, NewAgentOK DEF ExecutingHasRunner
<1>4. PatrolOK /\ agNow \in Nat
  <2>1. patrol = [at |-> AgMax + 1, stage |-> "test", now |-> AgStart]
    BY DEF AgentStart
  <2>2. patrol \in [at : 0..(AgMax + 1), stage : PatrolStages, now : Nat]
    BY <2>1, SlotsAreNumbers, AgentsAssumption DEF PatrolStages
  <2> QED
    BY <2>1, <2>2, AgentsAssumption DEF PatrolOK, AgentStart
<1>5. SlotsNoticed
  BY <1>1, NewAgentOK DEF SlotsNoticed, Noticed
<1> QED
  BY <1>2, <1>3, <1>4, <1>5 DEF AgentInv, AgentStart

LEMMA TeamHolds == AgentInv /\ TeamNext => AgentInv'
<1> SUFFICES ASSUME AgentInv, TeamNext PROVE AgentInv'
  OBVIOUS
<1>1. PoolOK(Pool)
  BY DEF AgentInv
<1>2. CASE CreateAutoAgent
  BY <1>1, <1>2, SlotAllocKeeps, PoolHolds DEF CreateAutoAgent
<1>3. ASSUME NEW a \in AgSlots \cup {NoAgent}, CreateSubAgent(a)
      PROVE  AgentInv'
  BY <1>1, <1>3, SubAgentKeeps, PoolHolds DEF CreateSubAgent
<1>4. ASSUME NEW a \in AgSlots, CreateTeam(a)
      PROVE  AgentInv'
  BY <1>1, <1>4, TeamKeeps, PoolHolds DEF CreateTeam
<1>5. ASSUME NEW a \in AgSlots, NEW b \in AgSlots, RegisterSub(a, b)
      PROVE  AgentInv'
  BY <1>1, <1>5, RegisteredKeeps, PoolHolds DEF RegisterSub
<1>6. ASSUME NEW a \in AgSlots, DeleteAgent(a)
      PROVE  AgentInv'
  <2>1. /\ PoolOK(Pool)' /\ agents'[a] = Zeroed
        /\ \A b \in AgSlots : b # a => agents'[b] = agents[b]
    BY <1>1, <1>6, NewAgentOK, OneAgent DEF DeleteAgent
  <2>2. ExecutingHasRunner'
    BY <1>6, <2>1, NewAgentOK DEF DeleteAgent, AgentInv, ExecutingHasRunner
  <2>3. UNCHANGED <<patrol, starting, agNow, runs>>
    BY <1>6 DEF DeleteAgent
  <2>4. SlotsNoticed'
    <3>1. Noticed(agents'[a], a, patrol', starting')
      BY <2>1, NewAgentOK DEF Noticed
    <3> QED
      BY <2>1, <2>3, <3>1, OneNoticed
  <2> QED
    BY <2>1, <2>2, <2>3, <2>4 DEF AgentInv, PatrolOK
<1>7. CASE ResetAllAgents
  <2>1. \A a \in AgSlots : agents'[a] = Zeroed
    BY <1>7 DEF ResetAllAgents
  <2>2. PoolOK(Pool)'
    BY <1>7, <2>1, NewAgentOK DEF ResetAllAgents, PoolOK, Pool
  <2>3. ExecutingHasRunner'
    BY <2>1, NewAgentOK DEF ExecutingHasRunner
  <2>4. SlotsNoticed'
    BY <2>1, NewAgentOK DEF SlotsNoticed, Noticed
  <2> QED
    BY <1>7, <2>2, <2>3, <2>4 DEF ResetAllAgents, AgentInv, PatrolOK
<1> QED
  BY <1>2, <1>3, <1>4, <1>5, <1>6, <1>7 DEF TeamNext, CreateOrDelete

LEMMA PreferenceHolds ==
  ASSUME AgentInv, NEW a \in AgSlots, NEW p, NEW said, SetPreference(a, p, said)
  PROVE  AgentInv'
<1> DEFINE r == [agents[a] EXCEPT !.pref = p]
<1>1. AgentOK(agents[a]) /\ PoolOK(Pool)
  BY DEF AgentInv, PoolOK, Pool
<1>2. /\ AgentOK(r) /\ r.state = agents[a].state
      /\ r.valid = agents[a].valid /\ r.period = agents[a].period /\ r.fed = agents[a].fed
  BY <1>1 DEF AgentOK
<1>3. agents' = [agents EXCEPT ![a] = r]
  BY DEF SetPreference
<1> HIDE DEF r
<1>4. /\ PoolOK(Pool)' /\ agents'[a] = r
      /\ \A b \in AgSlots : b # a => agents'[b] = agents[b]
  BY <1>1, <1>2, <1>3, OneAgent
<1>5. ExecutingHasRunner'
  BY <1>2, <1>4 DEF SetPreference, AgentInv, ExecutingHasRunner
<1>6. SlotsNoticed'
  <2>1. UNCHANGED <<patrol, starting>>
    BY DEF SetPreference
  <2>2. Noticed(agents'[a], a, patrol', starting')
    BY <1>2, <1>4, <2>1 DEF AgentInv, SlotsNoticed, Noticed
  <2> QED
    BY <1>4, <2>1, <2>2, OneNoticed
<1> QED
  BY <1>4, <1>5, <1>6 DEF SetPreference, AgentInv, PatrolOK

(* The patrol, the watchdogs and the steps.                                *)
LEMMA WatchHolds == AgentInv /\ WatchNext => AgentInv'
<1> SUFFICES ASSUME AgentInv, WatchNext PROVE AgentInv'
  OBVIOUS
<1>1. PoolOK(Pool) /\ \A a \in AgSlots : AgentOK(agents[a])
  BY DEF AgentInv, PoolOK, Pool
<1>2. ASSUME NEW a \in AgSlots, NEW period \in AgPeriods \cup {0}, WatchdogStart(a, period)
      PROVE  AgentInv'
  <2> DEFINE r == [agents[a] EXCEPT !.period = period]
  <2>1. AgentOK(r) /\ r.state = agents[a].state /\ r.period = period
    <3>1. period \in Nat
      BY AgentsAssumption
    <3> QED
      BY <1>1, <3>1, PeriodOK
  <2>2. /\ agents' = [agents EXCEPT ![a] = r]
        /\ starting' = starting \cup {a} /\ UNCHANGED <<agNow, patrol, runs>>
    BY <1>2 DEF WatchdogStart
  <2> HIDE DEF r
  <2>3. /\ PoolOK(Pool)' /\ agents'[a] = r
        /\ \A b \in AgSlots : b # a => agents'[b] = agents[b]
    BY <1>1, <2>1, <2>2, OneAgent
  <2>4. ExecutingHasRunner'
    BY <2>1, <2>2, <2>3 DEF AgentInv, ExecutingHasRunner
  <2>5. Noticed(agents'[a], a, patrol', starting')
    BY <2>1, <2>2, <2>3 DEF Noticed
  <2>6. SlotsNoticed'
    BY <2>2, <2>3, <2>5, OneNoticed
  <2> QED
    BY <2>2, <2>3, <2>4, <2>6 DEF AgentInv, PatrolOK
<1>10. ASSUME NEW a \in AgSlots, Feed(a), starting \subseteq starting' \cup {a},
              starting' \subseteq starting, UNCHANGED <<agNow, patrol, runs>>
       PROVE  AgentInv'
  <2> DEFINE r == [agents[a] EXCEPT !.fed = agNow]
  <2>1. /\ AgentOK(r) /\ r.state = agents[a].state
        /\ r.period = agents[a].period /\ r.fed = agNow
    <3>1. agNow \in Nat
      BY DEF AgentInv
    <3> QED
      BY <1>1, <3>1, FedOK
  <2>2. agents' = [agents EXCEPT ![a] = r]
    BY <1>10 DEF Feed
  <2> HIDE DEF r
  <2>3. /\ PoolOK(Pool)' /\ agents'[a] = r
        /\ \A b \in AgSlots : b # a => agents'[b] = agents[b]
    BY <1>1, <2>1, <2>2, OneAgent
  <2>4. ExecutingHasRunner'
    BY <1>10, <2>1, <2>3 DEF AgentInv, ExecutingHasRunner
  <2>5. Noticed(agents'[a], a, patrol', starting')
    <3>1. patrol.now <= agNow /\ agNow \in Nat
      BY DEF AgentInv, PatrolOK
    <3>2. Noticed(r, a, patrol, starting')
      BY <2>1, <3>1, FedIsNoticed
    <3> QED
      BY <1>10, <2>3, <3>2
  <2>6. SlotsNoticed'
    BY <1>10, <2>3, <2>5, OneNoticed
  <2> QED
    BY <1>10, <2>3, <2>4, <2>6 DEF AgentInv, PatrolOK
<1>11. ASSUME NEW a \in AgSlots, WatchdogStartFeeds(a)
       PROVE  AgentInv'
  BY <1>10, <1>11 DEF WatchdogStartFeeds
<1>3. ASSUME NEW a \in AgSlots, WatchdogFeed(a)
      PROVE  AgentInv'
  BY <1>3, <1>10 DEF WatchdogFeed
<1>4. ASSUME NEW t \in AgRunners, NEW a \in AgSlots, StepBegin(t, a)
      PROVE  AgentInv'
  <2> DEFINE r == [agents[a] EXCEPT !.state = "EXECUTING"]
  <2>1. /\ AgentOK(r) /\ r.valid = agents[a].valid
        /\ r.period = agents[a].period /\ r.fed = agents[a].fed
    <3> DEFINE executing == "EXECUTING"
    <3>1. /\ AgentOK([agents[a] EXCEPT !.state = executing])
          /\ [agents[a] EXCEPT !.state = executing].valid = agents[a].valid
          /\ [agents[a] EXCEPT !.state = executing].period = agents[a].period
          /\ [agents[a] EXCEPT !.state = executing].fed = agents[a].fed
      <4> HIDE DEF executing
      <4> QED
        BY <1>1, StateOK
    <3> QED
      BY <3>1
  <2>2. agents' = [agents EXCEPT ![a] = r]
    BY <1>4 DEF StepBegin
  <2> HIDE DEF r
  <2>3. /\ PoolOK(Pool)' /\ agents'[a] = r
        /\ \A b \in AgSlots : b # a => agents'[b] = agents[b]
    BY <1>1, <2>1, <2>2, OneAgent
  <2>4. /\ runs' \in [AgRunners -> AgSlots \cup {NoAgent}]
        /\ runs'[t] = a /\ runs[t] = NoAgent
        /\ \A u \in AgRunners : u # t => runs'[u] = runs[u]
    BY <1>4 DEF StepBegin, AgentInv
  <2>5. ExecutingHasRunner'
    <3> SUFFICES ASSUME NEW b \in AgSlots, agents'[b].state = "EXECUTING"
                 PROVE  \E u \in AgRunners : runs'[u] = b
      BY DEF ExecutingHasRunner
    <3>1. CASE b = a
      BY <2>4, <3>1
    <3>2. CASE b # a
      <4>1. PICK u \in AgRunners : runs[u] = b
        BY <2>3, <3>2 DEF AgentInv, ExecutingHasRunner
      <4>2. CASE u = t
        BY <2>4, <4>1, <4>2, AgentsAssumption
      <4>3. CASE u # t
        BY <2>4, <4>1, <4>3
      <4> QED
        BY <4>2, <4>3
    <3> QED
      BY <3>1, <3>2
  <2>6. SlotsNoticed'
    <3>1. UNCHANGED <<patrol, starting>>
      BY <1>4 DEF StepBegin
    <3>2. Noticed(agents'[a], a, patrol', starting')
      BY <2>1, <2>3, <3>1 DEF AgentInv, SlotsNoticed, Noticed
    <3> QED
      BY <2>3, <3>1, <3>2, OneNoticed
  <2> QED
    BY <1>4, <2>3, <2>4, <2>5, <2>6 DEF StepBegin, AgentInv, PatrolOK
<1>5. ASSUME NEW t \in AgRunners, StepEnd(t)
      PROVE  AgentInv'
  <2> DEFINE a == runs[t]
             time == IF agents[a].valid THEN agNow ELSE agents[a].fed
             r == [agents[a] EXCEPT !.state = "READY", !.fed = time]
  <2>1. a \in AgSlots /\ agNow \in Nat
    BY <1>5 DEF StepEnd, AgentInv
  <2>2. AgentOK(agents[a])
    BY <1>1, <2>1
  <2>3. /\ AgentOK(r) /\ r.state = "READY"
        /\ r.valid = agents[a].valid /\ r.period = agents[a].period /\ r.fed = time
    <3>1. time \in Nat
      BY <2>1, <2>2 DEF AgentOK
    <3> HIDE DEF a, time
    <3> QED
      BY <2>2, <3>1, RestartedOK
  <2>4. agents' = [agents EXCEPT ![a] = r]
    BY <1>1, <1>5, <2>1 DEF StepEnd, PoolOK, Pool
  <2>5. /\ runs' \in [AgRunners -> AgSlots \cup {NoAgent}]
        /\ \A u \in AgRunners : u # t => runs'[u] = runs[u]
    BY <1>5 DEF StepEnd, AgentInv
  <2> HIDE DEF r
  <2>6. /\ PoolOK(Pool)' /\ agents'[a] = r
        /\ \A b \in AgSlots : b # a => agents'[b] = agents[b]
    BY <1>1, <2>1, <2>3, <2>4, OneAgent
  <2>7. ExecutingHasRunner'
    BY <2>3, <2>5, <2>6 DEF AgentInv, ExecutingHasRunner
  <2>8. SlotsNoticed'
    <3>1. UNCHANGED <<patrol, starting>>
      BY <1>5 DEF StepEnd
    <3>2. Noticed(r, a, patrol, starting)
      <4>1. CASE agents[a].valid
        <5>1. time = agNow /\ patrol.now <= agNow
          BY <4>1 DEF AgentInv, PatrolOK
        <5> HIDE DEF a, time
        <5> QED
          BY <2>1, <2>3, <5>1, FedIsNoticed
      <4>2. CASE ~agents[a].valid
        <5>1. Noticed(agents[a], a, patrol, starting)
          BY <2>1 DEF AgentInv, SlotsNoticed
        <5> HIDE DEF a, time
        <5> QED
          BY <2>3, <4>2, <5>1 DEF Noticed
      <4> QED
        BY <4>1, <4>2
    <3> HIDE DEF a, time
    <3>3. Noticed(agents'[a], a, patrol', starting')
      BY <2>6, <3>1, <3>2
    <3> QED
      BY <2>1, <2>6, <3>1, <3>3, OneNoticed
  <2> QED
    BY <1>5, <2>5, <2>6, <2>7, <2>8 DEF StepEnd, AgentInv, PatrolOK
<1>0. /\ patrol.at \in 0..(AgMax + 1) /\ patrol.now \in Nat /\ agNow \in Nat
      /\ patrol.stage \in PatrolStages
      /\ patrol.now <= agNow /\ agNow <= patrol.now + AgPatrolEvery
      /\ patrol = [at |-> patrol.at, stage |-> patrol.stage, now |-> patrol.now]
      /\ AgMax \in Nat /\ AgSlots = 0..AgMax /\ AgPatrolEvery \in Nat
  BY SlotsAreNumbers, AgentsAssumption DEF AgentInv, PatrolOK, AgSlots
<1>12. ASSUME NEW a \in AgSlots
       PROVE  /\ agents[a].period \in Nat /\ agents[a].fed \in Nat
              /\ Noticed(agents[a], a, patrol, starting)
  BY <1>1 DEF AgentOK, AgentInv, SlotsNoticed
<1>6. CASE PatrolBegin
  <2>1. /\ patrol' = [at |-> 0, stage |-> "test", now |-> agNow] /\ patrol.at \notin AgSlots
        /\ UNCHANGED <<agents, queues, agNow, starting, runs>>
    BY <1>6 DEF PatrolBegin, Patrolling
  <2>2. PatrolOK'
    BY <1>0, <2>1 DEF PatrolOK, PatrolStages, AgentInv
  <2>3. SlotsNoticed'
    <3> SUFFICES ASSUME NEW a \in AgSlots
                 PROVE  Noticed(agents[a], a, patrol', starting')
      BY <2>1 DEF SlotsNoticed
    <3>1. a < patrol.at
      BY <1>0, <2>1
    <3>2. ~(a < patrol'.at) /\ patrol'.now = agNow
      BY <1>0, <2>1
    <3>3. agents[a].valid /\ agents[a].period # 0 /\ a \notin starting =>
            patrol.now - agents[a].fed <= agents[a].period
      BY <1>12, <3>1 DEF Noticed
    <3>4. agents[a].valid /\ agents[a].period # 0 /\ a \notin starting =>
            agNow - agents[a].fed <= agents[a].period + AgPatrolEvery
      BY <1>0, <1>12, <3>3
    <3> QED
      BY <1>12, <2>1, <3>2, <3>4 DEF Noticed
  <2> QED
    BY <2>1, <2>2, <2>3 DEF AgentInv, PoolOK, Pool, ExecutingHasRunner
<1>13. ASSUME Patrolling, patrol' = NextSlot
       PROVE  /\ patrol' \in [at : 0..(AgMax + 1), stage : PatrolStages, now : Nat]
              /\ patrol'.now = patrol.now /\ patrol'.at = patrol.at + 1
  <2>1. /\ patrol.at + 1 \in 0..(AgMax + 1)
        /\ "test" \in PatrolStages
    BY <1>0, <1>13 DEF Patrolling, PatrolStages
  <2>2. patrol' = [at |-> patrol.at + 1, stage |-> "test", now |-> patrol.now]
    BY <1>0, <1>13 DEF NextSlot
  <2> QED
    BY <1>0, <2>1, <2>2
<1>14. ASSUME NEW stage \in PatrolStages, patrol' = [patrol EXCEPT !.stage = stage]
       PROVE  /\ patrol' \in [at : 0..(AgMax + 1), stage : PatrolStages, now : Nat]
              /\ patrol'.now = patrol.now /\ patrol'.at = patrol.at
  BY <1>0, <1>14
<1>7. CASE PatrolTest
  <2>1. /\ UNCHANGED <<agents, queues, agNow, starting, runs>> /\ Patrolling
        /\ patrol' = IF Watched(patrol.at) /\ Overdue(patrol.at, patrol.now)
                       THEN [patrol EXCEPT !.stage = "reset"] ELSE NextSlot
    BY <1>7 DEF PatrolTest
  <2>2. CASE Watched(patrol.at) /\ Overdue(patrol.at, patrol.now)
    <3>1. patrol' = [patrol EXCEPT !.stage = "reset"] /\ "reset" \in PatrolStages
      BY <2>1, <2>2 DEF PatrolStages
    <3>2. PatrolOK'
      BY <1>0, <1>14, <2>1, <3>1 DEF PatrolOK, AgentInv
    <3>3. SlotsNoticed'
      BY <1>12, <1>14, <2>1, <3>1 DEF SlotsNoticed, Noticed
    <3> QED
      BY <2>1, <3>2, <3>3 DEF AgentInv, PoolOK, Pool, ExecutingHasRunner
  <2>3. CASE ~(Watched(patrol.at) /\ Overdue(patrol.at, patrol.now))
    <3>1. patrol' = NextSlot
      BY <2>1, <2>3
    <3>2. PatrolOK'
      BY <1>0, <1>13, <2>1, <3>1 DEF PatrolOK, AgentInv
    <3>3. SlotsNoticed'
      <4> SUFFICES ASSUME NEW a \in AgSlots
                   PROVE  Noticed(agents[a], a, patrol', starting')
        BY <2>1 DEF SlotsNoticed
      <4>1. patrol'.now = patrol.now /\ patrol'.at = patrol.at + 1 /\ starting' = starting
        BY <1>13, <2>1, <3>1
      <4>2. CASE a # patrol.at
        <5>1. (a < patrol'.at) <=> (a < patrol.at)
          BY <1>0, <4>1, <4>2
        <5> QED
          BY <1>12, <4>1, <5>1 DEF Noticed
      <4>3. CASE a = patrol.at
        <5>1. SUFFICES ASSUME agents[a].valid, agents[a].period # 0, a \notin starting
                       PROVE  patrol.now - agents[a].fed <= agents[a].period
          <6>1. a < patrol'.at /\ agents[a].period \in AgPeriods \cup {0}
            BY <1>0, <1>12, <4>1, <4>3 DEF Noticed
          <6> QED
            BY <1>12, <4>1, <5>1, <6>1 DEF Noticed
        <5> DEFINE d == patrol.now - agents[a].fed
        <5>2. ~(d % AgWord > agents[a].period)
          BY <2>3, <4>3, <5>1 DEF Watched, Overdue
        <5>3. d <= agents[a].period + AgPatrolEvery
          BY <1>0, <1>12, <4>3, <5>1 DEF Noticed
        <5>4. agents[a].period + 2 * AgPatrolEvery < AgWord
          BY <1>12, <5>1, AgentsAssumption DEF Noticed
        <5>5. d \in Int /\ AgWord \in Nat \ {0}
          BY <1>0, <1>12, AgentsAssumption
        <5>10. agents[a].period \in Nat /\ AgPatrolEvery \in Nat
          BY <1>0, <1>12
        <5>9. d < 0 => d <= agents[a].period
          BY <1>12, <5>5
        <5> HIDE DEF d
        <5>6. d >= 0 => d < AgWord /\ d \in Nat
          BY <5>3, <5>4, <5>5, <5>10
        <5>7. d >= 0 => d % AgWord = d
          BY <5>5, <5>6
        <5>8. d <= agents[a].period
          BY <1>12, <5>2, <5>5, <5>7, <5>9
        <5> QED
          BY <5>8 DEF d
      <4> QED
        BY <4>2, <4>3
    <3> QED
      BY <2>1, <3>2, <3>3 DEF AgentInv, PoolOK, Pool, ExecutingHasRunner
  <2> QED
    BY <2>2, <2>3
<1>15. CASE PatrolReset
  <2> DEFINE a == patrol.at
             ready == "READY"
             r == [agents[a] EXCEPT !.state = ready]
  <2>1. /\ a \in AgSlots /\ UNCHANGED <<queues, agNow, starting, runs>>
        /\ agents' = [agents EXCEPT ![a] = r]
        /\ patrol' = [patrol EXCEPT !.stage = "feed"] /\ "feed" \in PatrolStages
    BY <1>15 DEF PatrolReset, Patrolling, PatrolStages
  <2>2. /\ AgentOK(r) /\ r.state = ready
        /\ r.valid = agents[a].valid
        /\ r.period = agents[a].period /\ r.fed = agents[a].fed
    <3> HIDE DEF ready
    <3> QED
      BY <1>1, <2>1, StateOK
  <2> HIDE DEF r
  <2>3. /\ PoolOK(Pool)' /\ agents'[a] = r
        /\ \A b \in AgSlots : b # a => agents'[b] = agents[b]
    BY <1>1, <2>1, <2>2, OneAgent
  <2>4. ExecutingHasRunner'
    BY <2>1, <2>2, <2>3 DEF AgentInv, ExecutingHasRunner
  <2>5. patrol'.now = patrol.now /\ patrol'.at = patrol.at /\ PatrolOK'
    BY <1>0, <1>14, <2>1 DEF PatrolOK, AgentInv
  <2>6. SlotsNoticed'
    <3> SUFFICES ASSUME NEW b \in AgSlots
                 PROVE  Noticed(agents'[b], b, patrol', starting')
      BY DEF SlotsNoticed
    <3>1. /\ agents'[b].valid = agents[b].valid
          /\ agents'[b].period = agents[b].period /\ agents'[b].fed = agents[b].fed
      BY <2>2, <2>3
    <3> QED
      BY <1>12, <2>1, <2>5, <3>1 DEF Noticed
  <2> QED
    BY <2>1, <2>3, <2>4, <2>5, <2>6 DEF AgentInv
<1>16. CASE PatrolFeed
  <2> DEFINE a == patrol.at
             r == [agents[a] EXCEPT !.fed = patrol.now]
  <2>1. /\ a \in AgSlots /\ UNCHANGED <<queues, agNow, starting, runs>>
        /\ agents' = [agents EXCEPT ![a] = r]
        /\ patrol' = NextSlot /\ Patrolling
    BY <1>16 DEF PatrolFeed, Patrolling
  <2>2. /\ AgentOK(r) /\ r.state = agents[a].state
        /\ r.period = agents[a].period /\ r.fed = patrol.now
    BY <1>0, <1>1, <2>1, FedOK
  <2> HIDE DEF r
  <2>3. /\ PoolOK(Pool)' /\ agents'[a] = r
        /\ \A b \in AgSlots : b # a => agents'[b] = agents[b]
    BY <1>1, <2>1, <2>2, OneAgent
  <2>4. ExecutingHasRunner'
    BY <2>1, <2>2, <2>3 DEF AgentInv, ExecutingHasRunner
  <2>5. patrol'.now = patrol.now /\ patrol'.at = patrol.at + 1 /\ PatrolOK'
    BY <1>0, <1>13, <2>1 DEF PatrolOK, AgentInv
  <2>6. SlotsNoticed'
    <3> SUFFICES ASSUME NEW b \in AgSlots
                 PROVE  Noticed(agents'[b], b, patrol', starting')
      BY DEF SlotsNoticed
    <3>1. CASE b = a
      <4>1. patrol.now - patrol.now = 0 /\ agents[a].period \in Nat
        BY <1>0, <1>12, <2>1
      <4>2. /\ agents'[b].period = agents[a].period /\ agents'[b].fed = patrol.now
            /\ agents[a].period \in AgPeriods \cup {0}
        BY <1>12, <2>1, <2>2, <2>3, <3>1 DEF Noticed
      <4>3. patrol'.now - agents'[b].fed <= agents'[b].period /\ b < patrol'.at
        BY <1>0, <2>5, <3>1, <4>1, <4>2
      <4>4. agents'[b].period \in Nat
        BY <4>1, <4>2
      <4> QED
        BY <4>2, <4>3, <4>4 DEF Noticed
    <3>2. CASE b # a
      <4>1. agents'[b] = agents[b] /\ ((b < patrol'.at) <=> (b < patrol.at))
        BY <1>0, <2>3, <2>5, <3>2
      <4> QED
        BY <1>12, <2>1, <2>5, <4>1 DEF Noticed
    <3> QED
      BY <3>1, <3>2
  <2> QED
    BY <2>1, <2>3, <2>4, <2>5, <2>6 DEF AgentInv
<1>8. CASE AgentTick
  <2>1. /\ UNCHANGED <<agents, queues, patrol, starting, runs>> /\ agNow' = agNow + 1
        /\ agNow < patrol.now + AgPatrolEvery
    BY <1>8 DEF AgentTick
  <2>2. PatrolOK' /\ agNow' \in Nat
    BY <1>0, <2>1 DEF PatrolOK, AgentInv
  <2>3. SlotsNoticed'
    BY <1>12, <2>1 DEF SlotsNoticed, Noticed
  <2> QED
    BY <2>1, <2>2, <2>3 DEF AgentInv, PoolOK, Pool, ExecutingHasRunner
<1>9. CASE CreateOrDelete
  BY <1>9, TeamHolds DEF TeamNext
<1> QED
  BY <1>2, <1>3, <1>4, <1>5, <1>6, <1>7, <1>8, <1>9, <1>11, <1>15, <1>16
  DEF WatchNext, PatrolNext

LEMMA AgentStepHolds == AgentInv /\ [AgentNext]_agVars => AgentInv'
<1> SUFFICES ASSUME AgentInv, [AgentNext]_agVars PROVE AgentInv'
  OBVIOUS
<1>1. CASE PreferenceNext
  BY <1>1, PreferenceHolds
  DEF PreferenceNext, ConfigCommand, SetAgentPreference, SetAgentSafetyLevel
<1>2. CASE UNCHANGED agVars
  BY <1>2 DEF agVars, AgentInv, PoolOK, Pool, ExecutingHasRunner, PatrolOK, SlotsNoticed, Noticed
<1> QED
  BY <1>1, <1>2, TeamHolds, WatchHolds DEF AgentNext

LEMMA AgentsAlways == AgentSpec => []AgentInv
BY AgentStepHolds, AgentStartHolds, PTL DEF AgentSpec

(* Whoever recovers, deletes, resets or creates agents, and for any number *)
(* of threads, an agent is shown as executing only while a thread runs a   *)
(* step of it.                                                             *)
THEOREM ExecutingIsRun == AgentSpec => []ExecutingHasRunner
<1>1. AgentInv => ExecutingHasRunner
  BY DEF AgentInv
<1> QED
  BY <1>1, AgentsAlways, PTL

(* For any number of slots and queues, no order of creations, teams,       *)
(* registrations and deletions makes a list of sub-agents too long or has  *)
(* it name a slot twice.                                                   *)
THEOREM ListsWellFormed == AgentSpec => []SubsWellFormed
<1>1. AgentInv => SubsWellFormed
  BY DEF AgentInv, PoolOK, Pool, AgentOK, ListOK, SubsWellFormed
<1> QED
  BY <1>1, AgentsAlways, PTL

LEMMA NoticedInTime == AgentInv => StalledIsNoticed
<1> SUFFICES ASSUME AgentInv, NEW a \in AgSlots, Watched(a), a \notin starting
             PROVE  agNow - agents[a].fed <= agents[a].period + 2 * AgPatrolEvery
  BY DEF StalledIsNoticed
<1>1. /\ agNow \in Nat /\ patrol.now \in Nat /\ agNow <= patrol.now + AgPatrolEvery
      /\ AgPatrolEvery \in Nat
  BY AgentsAssumption DEF AgentInv, PatrolOK
<1>2. /\ agents[a].period \in Nat /\ agents[a].fed \in Nat
      /\ agents[a].valid /\ agents[a].period # 0
  BY DEF AgentInv, PoolOK, Pool, AgentOK, Watched
<1>3. patrol.now - agents[a].fed <= agents[a].period + (IF a < patrol.at THEN 0 ELSE AgPatrolEvery)
  BY <1>2 DEF AgentInv, SlotsNoticed, Noticed
<1>4. patrol.now - agents[a].fed <= agents[a].period + AgPatrolEvery
  BY <1>1, <1>2, <1>3
<1> QED
  BY <1>1, <1>2, <1>4

(* For any number of slots and threads, any periods and any width of the   *)
(* tick that is larger than a period and two rounds: however the patrol's  *)
(* accesses mix with feeds, steps, deletions and starts of watchdogs, no   *)
(* agent is left unfed for longer than its period and two rounds.          *)
THEOREM StallsAreNoticed == AgentSpec => []StalledIsNoticed
BY NoticedInTime, AgentsAlways, PTL

-----------------------------------------------------------------------------
(* What the fields of agents and the queues may hold, and the words an     *)
(* agent was configured with.                                              *)

PrefOK(p) == DOMAIN p = DOMAIN Defaults /\ p.routing \in RoutingModes

SlotOK(r, len, now) ==
  /\ r.valid \in BOOLEAN
  /\ r.state \in {"IDLE", "READY", "EXECUTING"}
  /\ r.inbox \in 0..len
  /\ r.valid => r.inbox # 0
  /\ PrefOK(r.pref)
  /\ r.fed <= now

QueuesOK(qs) ==
  /\ qs \in Seq(Seq(Nat))
  /\ Len(qs) <= AgMaxQueues
  /\ \A q \in DOMAIN qs : Len(qs[q]) <= AgDepth

PoolTyped(pool, now) ==
  /\ QueuesOK(pool.queues)
  /\ \A a \in AgSlots : SlotOK(pool.agents[a], Len(pool.queues), now)

(* A pool q that was made from the pool p and took nothing from it.        *)
Grown(p, q, now) ==
  /\ PoolOK(q) /\ PoolTyped(q, now)
  /\ Len(p.queues) <= Len(q.queues)
  /\ \A a \in AgSlots : p.agents[a].valid =>
       q.agents[a].valid /\ q.agents[a].pref = p.agents[a].pref

WordsOK(r, said) ==
  /\ said \in Seq(STRING)
  /\ ~r.valid => said = <<>>
  /\ said # <<>> => r.pref = MeaningOf(said)

SlotsInv ==
  /\ AgentInv
  /\ PoolTyped(Pool, agNow)
  /\ patrol.now <= agNow
  /\ words = [a \in AgSlots |-> words[a]]
  /\ \A a \in AgSlots : WordsOK(agents[a], words[a])

LEMMA DefaultsOK == PrefOK(Defaults) /\ PrefOK(ZeroPreference)
BY DEF PrefOK, Defaults, ZeroPreference, RoutingModes

(* Every way to set a preference leaves one.                               *)
LEMMA KeywordsOK ==
  ASSUME NEW said \in Seq(STRING)
  PROVE  PrefOK(ByKeywords(said))
<1> DEFINE rt == "routing"
<1>1. DOMAIN MeaningOf(said) = DOMAIN Defaults
  BY DEF MeaningOf
<1>2. PICK g : /\ g[0] = Defaults
               /\ \A n \in 1..Len(said) : g[n] = ApplyKeyword(g[n - 1], said[n])
               /\ ByKeywords(said) = g[Len(said)]
  BY ByKeywordsIs, Zenon
<1> DEFINE T == {n \in 0..Len(said) : PrefOK(g[n])}
<1>3. 0 \in T
  BY <1>2, DefaultsOK
<1>4. ASSUME NEW n \in 1..Len(said), n - 1 \in T PROVE n \in T
  <2>1. PrefOK(g[n - 1]) /\ n \in 0..Len(said)
    BY <1>4
  <2>2. g[n] = ApplyKeyword(g[n - 1], said[n])
    BY <1>2
  <2>3. rt \in DOMAIN Defaults
    BY DEF Defaults
  <2>4. PrefOK(g[n])
    <3>1. /\ DOMAIN g[n - 1] = DOMAIN Defaults
          /\ g[n - 1][rt] \in RoutingModes
      BY <2>1 DEF PrefOK
    <3> DEFINE p == g[n - 1]
               k == said[n]
               q == ApplyKeyword(p, k)
    <3>2. /\ DOMAIN q = DOMAIN p
          /\ \A f \in DOMAIN p : q[f] =
               IF k \in DOMAIN Effects /\ f \in DOMAIN Effects[k] THEN Effects[k][f] ELSE p[f]
      <4> HIDE DEF p, k
      <4>1. DOMAIN p = DOMAIN Defaults
        BY <3>1 DEF p
      <4> QED
        BY <4>1, ApplyIs, Zenon
    <3>5. q = g[n] /\ p = g[n - 1] /\ k = said[n]
      BY <2>2
    <3> HIDE DEF p, k, q
    <3>3. q[rt] = IF k \in DOMAIN Effects /\ rt \in DOMAIN Effects[k]
                    THEN Effects[k][rt] ELSE p[rt]
      <4> HIDE DEF rt
      <4> QED
        BY <2>3, <3>1, <3>2, <3>5, Zenon
    <3>4. q[rt] \in RoutingModes
      BY <3>1, <3>3, <3>5, EffectsAreFields
    <3> QED
      BY <3>1, <3>2, <3>4, <3>5 DEF PrefOK
  <2> QED
    BY <2>1, <2>4
<1>5. Len(said) \in Nat /\ Len(said) \in 0..Len(said)
  OBVIOUS
<1>6. Len(said) \in T
  <2>1. \A n \in 1..Len(said) : n - 1 \in T => n \in T
    BY <1>4
  <2> HIDE DEF T
  <2> QED
    BY <1>3, <1>5, <2>1, Induction
<1> QED
  BY <1>2, <1>6

LEMMA FieldOK ==
  ASSUME NEW p, PrefOK(p), NEW x, NEW m \in RoutingModes
  PROVE  /\ PrefOK([p EXCEPT !.cloud = x]) /\ PrefOK([p EXCEPT !.accuracy = x])
         /\ PrefOK([p EXCEPT !.latency = x]) /\ PrefOK([p EXCEPT !.safety = x])
         /\ PrefOK([p EXCEPT !.threshold = x]) /\ PrefOK([p EXCEPT !.routing = m])
<1>1. "routing" \in DOMAIN p
  BY DEF PrefOK, Defaults
<1> QED
  BY <1>1 DEF PrefOK

LEMMA MaskOK ==
  ASSUME NEW p, PrefOK(p), NEW mask
  PROVE  PrefOK(ByMask(p, mask))
<1> DEFINE local    == IF "LOCAL_ONLY" \in mask
                         THEN [p EXCEPT !.routing = "LOCAL_ONLY", !.cloud = FALSE] ELSE p
           cloud    == IF "CLOUD_ALLOWED" \in mask THEN [local EXCEPT !.cloud = TRUE] ELSE local
           accuracy == IF "ACCURACY" \in mask
                         THEN [cloud EXCEPT !.accuracy = TRUE, !.latency = FALSE] ELSE cloud
           yes == TRUE
           no  == FALSE
           only == "LOCAL_ONLY"
<1>0. only \in RoutingModes
  BY DEF RoutingModes
<1>1. PrefOK(local)
  <2>1. PrefOK([p EXCEPT !.routing = only, !.cloud = no])
    <3> HIDE DEF no, only
    <3>1. [p EXCEPT !.routing = only, !.cloud = no] =
            [[p EXCEPT !.routing = only] EXCEPT !.cloud = no]
      OBVIOUS
    <3> QED
      BY <1>0, <3>1, FieldOK
  <2> QED
    BY <2>1
<1>2. PrefOK(cloud)
  <2> HIDE DEF local
  <2>1. PrefOK([local EXCEPT !.cloud = yes])
    <3> HIDE DEF yes
    <3> QED
      BY <1>0, <1>1, FieldOK
  <2> QED
    BY <1>1, <2>1
<1>3. PrefOK(accuracy)
  <2> HIDE DEF cloud
  <2>1. PrefOK([cloud EXCEPT !.accuracy = yes, !.latency = no])
    <3> HIDE DEF yes, no
    <3>1. [cloud EXCEPT !.accuracy = yes, !.latency = no] =
            [[cloud EXCEPT !.accuracy = yes] EXCEPT !.latency = no]
      OBVIOUS
    <3> QED
      BY <1>0, <1>2, <3>1, FieldOK
  <2> QED
    BY <1>2, <2>1
<1>4. PrefOK([accuracy EXCEPT !.latency = yes, !.accuracy = no])
  <2> HIDE DEF accuracy, yes, no
  <2>1. [accuracy EXCEPT !.latency = yes, !.accuracy = no] =
          [[accuracy EXCEPT !.latency = yes] EXCEPT !.accuracy = no]
    OBVIOUS
  <2> QED
    BY <1>0, <1>3, <2>1, FieldOK
<1>5. ByMask(p, mask) = IF "LATENCY" \in mask
                          THEN [accuracy EXCEPT !.latency = yes, !.accuracy = no] ELSE accuracy
  BY DEF ByMask
<1> HIDE DEF accuracy
<1> QED
  BY <1>3, <1>4, <1>5

LEMMA LevelOK ==
  ASSUME NEW p, PrefOK(p), NEW level
  PROVE  PrefOK(BySafetyLevel(p, level))
<1> DEFINE set    == [p EXCEPT !.safety = level]
           no     == FALSE
           only   == "LOCAL_ONLY"
           closed == IF level = "CRITICAL"
                       THEN [set EXCEPT !.cloud = no, !.routing = only] ELSE set
<1>0. only \in RoutingModes
  BY DEF RoutingModes
<1>1. PrefOK(set)
  BY <1>0, FieldOK
<1>2. PrefOK(closed)
  <2> HIDE DEF set
  <2>1. PrefOK([set EXCEPT !.cloud = no, !.routing = only])
    <3> HIDE DEF no, only
    <3>1. [set EXCEPT !.cloud = no, !.routing = only] =
            [[set EXCEPT !.cloud = no] EXCEPT !.routing = only]
      OBVIOUS
    <3> QED
      BY <1>0, <1>1, <3>1, FieldOK
  <2> QED
    BY <1>1, <2>1
<1>3. PrefOK([closed EXCEPT !.threshold = 85])
  <2> HIDE DEF closed
  <2> QED
    BY <1>0, <1>2, FieldOK
<1>4. BySafetyLevel(p, level) =
        IF level \in {"HIGH", "CRITICAL"} THEN [closed EXCEPT !.threshold = 85] ELSE closed
  BY DEF BySafetyLevel
<1> HIDE DEF closed
<1> QED
  BY <1>2, <1>3, <1>4

(* The fields that a change of one field leaves alone.                     *)
LEMMA FedFields ==
  ASSUME NEW r, AgentOK(r), NEW x, NEW q, q = [r EXCEPT !.fed = x]
  PROVE  /\ q.valid = r.valid /\ q.state = r.state /\ q.inbox = r.inbox /\ q.pref = r.pref
         /\ q.fed = x
BY DEF AgentOK

LEMMA StateFields ==
  ASSUME NEW r, AgentOK(r), NEW x, NEW q, q = [r EXCEPT !.state = x]
  PROVE  /\ q.valid = r.valid /\ q.fed = r.fed /\ q.inbox = r.inbox /\ q.pref = r.pref
         /\ q.state = x
BY DEF AgentOK

LEMMA PeriodFields ==
  ASSUME NEW r, AgentOK(r), NEW x, NEW q, q = [r EXCEPT !.period = x]
  PROVE  /\ q.valid = r.valid /\ q.state = r.state /\ q.inbox = r.inbox /\ q.pref = r.pref
         /\ q.fed = r.fed
BY DEF AgentOK

LEMMA PrefFields ==
  ASSUME NEW r, AgentOK(r), NEW x, NEW q, q = [r EXCEPT !.pref = x]
  PROVE  /\ q.valid = r.valid /\ q.state = r.state /\ q.inbox = r.inbox /\ q.fed = r.fed
         /\ q.pref = x
BY DEF AgentOK

LEMMA SubsFields ==
  ASSUME NEW r, AgentOK(r), NEW x, NEW q, q = [r EXCEPT !.subs = x]
  PROVE  /\ q.valid = r.valid /\ q.state = r.state /\ q.inbox = r.inbox /\ q.pref = r.pref
         /\ q.fed = r.fed
BY DEF AgentOK

LEMMA FedSlotOK ==
  ASSUME NEW r, AgentOK(r), NEW len, NEW now, SlotOK(r, len, now),
         NEW x, x <= now
  PROVE  /\ SlotOK([r EXCEPT !.fed = x], len, now)
         /\ [r EXCEPT !.fed = x].valid = r.valid /\ [r EXCEPT !.fed = x].pref = r.pref
BY FedFields DEF SlotOK

LEMMA StateSlotOK ==
  ASSUME NEW r, AgentOK(r), NEW len, NEW now, SlotOK(r, len, now),
         NEW x \in {"IDLE", "READY", "EXECUTING"}, NEW q, q = [r EXCEPT !.state = x]
  PROVE  SlotOK(q, len, now) /\ q.valid = r.valid /\ q.pref = r.pref
BY StateFields DEF SlotOK

LEMMA RestartedSlotOK ==
  ASSUME NEW r, AgentOK(r), NEW len, NEW now, SlotOK(r, len, now),
         NEW x, x <= now
  PROVE  /\ SlotOK([r EXCEPT !.state = "READY", !.fed = x], len, now)
         /\ [r EXCEPT !.state = "READY", !.fed = x].valid = r.valid
         /\ [r EXCEPT !.state = "READY", !.fed = x].pref = r.pref
<1> DEFINE q == [r EXCEPT !.state = "READY", !.fed = x]
<1> DEFINE ready == "READY"
           p == [r EXCEPT !.state = ready]
<1>1. SlotOK(p, len, now) /\ p.valid = r.valid /\ p.pref = r.pref
  <2>1. ready \in {"IDLE", "READY", "EXECUTING"}
    OBVIOUS
  <2> HIDE DEF ready
  <2> QED
    BY <2>1, StateSlotOK
<1>2. AgentOK(p)
  <2> HIDE DEF ready
  <2> QED
    BY StateOK
<1>3. q = [p EXCEPT !.fed = x]
  <2> HIDE DEF ready
  <2>1. q = [r EXCEPT !.state = ready, !.fed = x]
    BY DEF ready
  <2> QED
    BY <2>1
<1> HIDE DEF p
<1>4. /\ SlotOK([p EXCEPT !.fed = x], len, now)
      /\ [p EXCEPT !.fed = x].valid = p.valid /\ [p EXCEPT !.fed = x].pref = p.pref
  BY <1>1, <1>2, FedSlotOK
<1> HIDE DEF q
<1> QED
  BY <1>1, <1>3, <1>4 DEF q

LEMMA PeriodSlotOK ==
  ASSUME NEW r, AgentOK(r), NEW len, NEW now, SlotOK(r, len, now), NEW p
  PROVE  /\ SlotOK([r EXCEPT !.period = p], len, now)
         /\ [r EXCEPT !.period = p].valid = r.valid /\ [r EXCEPT !.period = p].pref = r.pref
BY PeriodFields DEF SlotOK

LEMMA ZeroedSlotOK ==
  ASSUME NEW len \in Nat, NEW now \in Nat
  PROVE  SlotOK(Zeroed, len, now) /\ Zeroed.valid = FALSE
<1>1. /\ Zeroed.valid = FALSE /\ Zeroed.state = "IDLE" /\ Zeroed.inbox = 0
      /\ Zeroed.pref = ZeroPreference /\ Zeroed.fed = 0
  BY DEF Zeroed
<1>2. Zeroed.inbox \in 0..len /\ Zeroed.fed <= now
  BY <1>1
<1> QED
  BY <1>1, <1>2, DefaultsOK, Zenon DEF SlotOK

LEMMA QueuesGrow ==
  ASSUME NEW qs, QueuesOK(qs), Len(qs) < AgMaxQueues
  PROVE  QueuesOK(Append(qs, <<>>)) /\ Len(Append(qs, <<>>)) = Len(qs) + 1
<1>1. qs \in Seq(Seq(Nat)) /\ <<>> \in Seq(Nat) /\ Len(qs) \in Nat
  BY DEF QueuesOK
<1> DEFINE longer == Append(qs, <<>>)
<1>2. /\ longer \in Seq(Seq(Nat)) /\ Len(longer) = Len(qs) + 1
      /\ DOMAIN longer = 1..(Len(qs) + 1)
      /\ \A q \in 1..Len(qs) : longer[q] = qs[q]
      /\ longer[Len(qs) + 1] = <<>>
  BY <1>1
<1>3. DOMAIN qs = 1..Len(qs)
  BY <1>1
<1>4. Len(<<>>) <= AgDepth
  BY AgentsAssumption
<1>5. \A q \in DOMAIN longer : Len(longer[q]) <= AgDepth
  <2> SUFFICES ASSUME NEW q \in 1..(Len(qs) + 1) PROVE Len(longer[q]) <= AgDepth
    BY <1>2
  <2>1. CASE q = Len(qs) + 1
    BY <1>2, <1>4, <2>1
  <2>2. CASE q # Len(qs) + 1
    <3>1. q \in 1..Len(qs)
      BY <1>1, <2>2
    <3> HIDE DEF longer
    <3> QED
      BY <1>2, <1>3, <3>1 DEF QueuesOK
  <2> QED
    BY <2>1, <2>2
<1> HIDE DEF longer
<1>6. Len(longer) <= AgMaxQueues
  BY <1>1, <1>2, AgentsAssumption
<1>7. QueuesOK(longer)
  BY <1>2, <1>5, <1>6 DEF QueuesOK
<1> QED
  BY <1>2, <1>7 DEF longer

LEMMA SlotAllocGrows ==
  ASSUME NEW pool, PoolOK(pool), NEW now \in Nat, PoolTyped(pool, now)
  PROVE  Grown(pool, SlotAlloc(pool), now)
<1> DEFINE free == {a \in AgSlots : ~pool.agents[a].valid}
           slot == CHOOSE a \in free : \A b \in free : a <= b
           room == Len(pool.queues) < AgMaxQueues
           new  == [Zeroed EXCEPT !.state = "READY", !.pref = Defaults, !.valid = room,
                                  !.inbox = IF room THEN Len(pool.queues) + 1 ELSE 0]
           len  == Len(pool.queues)
<1>0. len \in Nat
  BY DEF PoolTyped, QueuesOK
<1>1. PoolOK(SlotAlloc(pool))
  BY SlotAllocKeeps DEF Kept
<1>2. CASE free = {}
  <2>1. SlotAlloc(pool) = [pool EXCEPT !.made = NoAgent]
    BY <1>2 DEF SlotAlloc
  <2>2. SlotAlloc(pool).agents = pool.agents /\ SlotAlloc(pool).queues = pool.queues
    BY <2>1 DEF PoolOK
  <2> QED
    BY <1>0, <1>1, <2>2 DEF Grown, PoolTyped
<1>3. CASE free # {}
  <2>1. SlotAlloc(pool) =
          [agents |-> [pool.agents EXCEPT ![slot] = new],
           queues |-> IF room THEN Append(pool.queues, <<>>) ELSE pool.queues,
           made   |-> IF room THEN slot ELSE NoAgent]
    BY <1>3 DEF SlotAlloc
  <2> DEFINE q == SlotAlloc(pool)
  <2>2. /\ q.agents = [pool.agents EXCEPT ![slot] = new]
        /\ q.queues = IF room THEN Append(pool.queues, <<>>) ELSE pool.queues
    BY <2>1
  <2>3. /\ new.valid = room /\ new.state = "READY" /\ new.pref = Defaults /\ new.fed = 0
        /\ new.inbox = IF room THEN len + 1 ELSE 0
    <3> DEFINE ready == "READY"
               inbox == IF room THEN len + 1 ELSE 0
    <3> HIDE DEF ready, room, inbox
    <3>1. new = Filled(Zeroed, ready, Defaults, room, inbox)
      BY Zenon DEF Filled, ready, inbox
    <3>2. new = Fresh(room, ready, inbox, Defaults)
      BY <3>1, NewAgentIs
    <3> HIDE DEF new
    <3> QED
      BY <3>2 DEF Fresh, ready, inbox
  <2>4. QueuesOK(q.queues) /\ Len(q.queues) \in Nat /\ Len(q.queues) = IF room THEN len + 1 ELSE len
    BY <1>0, <2>2, QueuesGrow DEF PoolTyped
  <2>5. SlotOK(new, Len(q.queues), now)
    <3>1. room \in BOOLEAN
      OBVIOUS
    <3> HIDE DEF new, room, len, q
    <3> QED
      BY <1>0, <2>3, <2>4, <3>1, DefaultsOK DEF SlotOK
  <2>6. \A a \in AgSlots : q.agents[a] = IF a = slot THEN new ELSE pool.agents[a]
    <3> HIDE DEF new, slot
    <3> QED
      BY <2>2 DEF PoolOK
  <2>7. ASSUME NEW a \in AgSlots PROVE SlotOK(q.agents[a], Len(q.queues), now)
    <3>1. SlotOK(pool.agents[a], Len(q.queues), now)
      <4>1. SlotOK(pool.agents[a], len, now) /\ pool.agents[a].fed \in Nat
        BY DEF PoolTyped, PoolOK, AgentOK
      <4>2. len <= Len(q.queues)
        BY <1>0, <2>4
      <4> HIDE DEF len, q
      <4> QED
        BY <1>0, <2>4, <4>1, <4>2 DEF SlotOK
    <3> HIDE DEF new, slot, q
    <3> QED
      BY <2>5, <2>6, <3>1
  <2>8. ASSUME NEW a \in AgSlots, pool.agents[a].valid PROVE a # slot
    <3>1. slot \in free
      <4>1. \E a1 \in free : \A b \in free : a1 <= b
        <5>1. free \subseteq Nat
          BY SlotsAreNumbers
        <5> HIDE DEF free
        <5> QED
          BY <1>3, <5>1, Least
      <4> HIDE DEF free
      <4> QED
        BY <4>1, Zenon
    <3> HIDE DEF slot
    <3> QED
      BY <2>8, <3>1
  <2> HIDE DEF q, new, slot, room
  <2>9. Len(pool.queues) <= Len(q.queues)
    BY <1>0, <2>4
  <2>10. \A a \in AgSlots : pool.agents[a].valid =>
           q.agents[a].valid /\ q.agents[a].pref = pool.agents[a].pref
    BY <2>6, <2>8
  <2>11. Grown(pool, q, now)
    BY <1>1, <2>4, <2>7, <2>9, <2>10 DEF Grown, PoolTyped, q
  <2> QED
    BY <2>11 DEF q
<1> QED
  BY <1>2, <1>3

LEMMA RegisteredGrows ==
  ASSUME NEW pool, PoolOK(pool), NEW now \in Nat, PoolTyped(pool, now),
         NEW parent \in AgSlots, NEW sub
  PROVE  Grown(pool, Registered(pool, parent, sub), now)
<1> DEFINE r    == pool.agents[parent]
           subs == r.subs
           q    == Registered(pool, parent, sub)
<1>0. PoolOK(q) /\ Len(pool.queues) \in Nat
  BY RegisteredKeeps DEF Kept, PoolTyped, QueuesOK
<1>1. CASE Len(subs) >= AgMax \/ \E i \in DOMAIN subs : subs[i] = sub
  <2>1. q = pool
    BY <1>1 DEF Registered
  <2> QED
    BY <1>0, <2>1 DEF Grown
<1>2. CASE ~(Len(subs) >= AgMax \/ \E i \in DOMAIN subs : subs[i] = sub)
  <2> DEFINE new == [r EXCEPT !.subs = Append(subs, sub)]
  <2>1. q = [agents |-> [pool.agents EXCEPT ![parent] = new],
             queues |-> pool.queues, made |-> pool.made]
    BY <1>2 DEF Registered, PoolOK
  <2>2. AgentOK(r) /\ SlotOK(r, Len(pool.queues), now)
    BY DEF PoolOK, PoolTyped
  <2>3. SlotOK(new, Len(pool.queues), now) /\ new.valid = r.valid /\ new.pref = r.pref
    <3> HIDE DEF r, subs
    <3> QED
      BY <2>2, SubsFields DEF SlotOK
  <2>4. /\ q.queues = pool.queues
        /\ \A a \in AgSlots : q.agents[a] = IF a = parent THEN new ELSE pool.agents[a]
    <3> HIDE DEF new
    <3> QED
      BY <2>1 DEF PoolOK
  <2> HIDE DEF new, q
  <2> QED
    BY <1>0, <2>3, <2>4 DEF Grown, PoolTyped, q
<1> QED
  BY <1>1, <1>2

LEMMA GrownTwice ==
  ASSUME NEW p, NEW q, NEW r, NEW now, Len(p.queues) \in Nat,
         Grown(p, q, now), Grown(q, r, now)
  PROVE  Grown(p, r, now)
BY DEF Grown, PoolTyped, QueuesOK

LEMMA SubAgentGrows ==
  ASSUME NEW pool, PoolOK(pool), NEW now \in Nat, PoolTyped(pool, now),
         NEW parent \in AgSlots \cup {NoAgent}
  PROVE  Grown(pool, WithSubAgent(pool, parent), now)
<1> DEFINE made == SlotAlloc(pool)
<1>1. Grown(pool, made, now) /\ Len(pool.queues) \in Nat
  BY SlotAllocGrows DEF PoolTyped, QueuesOK
<1>2. CASE made.made # NoAgent /\ parent # NoAgent /\ pool.agents[parent].valid
  <2>1. Grown(made, Registered(made, parent, made.made), now)
    <3> HIDE DEF made
    <3> QED
      BY <1>1, <1>2, RegisteredGrows DEF Grown
  <2>2. WithSubAgent(pool, parent) = Registered(made, parent, made.made)
    BY <1>2 DEF WithSubAgent
  <2> HIDE DEF made
  <2> QED
    BY <1>1, <2>1, <2>2, GrownTwice
<1>3. CASE ~(made.made # NoAgent /\ parent # NoAgent /\ pool.agents[parent].valid)
  BY <1>1, <1>3 DEF WithSubAgent
<1> QED
  BY <1>2, <1>3

LEMMA TeamGrows ==
  ASSUME NEW pool, PoolOK(pool), NEW now \in Nat, PoolTyped(pool, now), NEW parent \in AgSlots
  PROVE  Grown(pool, WithTeam(pool, parent), now)
<1> DEFINE start  == [pool EXCEPT !.made = parent]
           vision == TeamMember(start, parent)
           motion == TeamMember(vision, parent)
           safety == TeamMember(motion, parent)
           force  == TeamMember(safety, parent)
<1>0. Len(pool.queues) \in Nat
  BY DEF PoolTyped, QueuesOK
<1>1. ASSUME NEW p, Grown(pool, p, now)
      PROVE  Grown(pool, TeamMember(p, parent), now)
  <2>1. CASE p.made = NoAgent
    BY <1>1, <2>1 DEF TeamMember
  <2>2. CASE p.made # NoAgent
    <3>1. Grown(p, WithSubAgent(p, parent), now)
      BY <1>1, SubAgentGrows DEF Grown
    <3> QED
      BY <1>0, <1>1, <2>2, <3>1, GrownTwice DEF TeamMember
  <2> QED
    BY <2>1, <2>2
<1>2. Grown(pool, start, now)
  <2>1. PoolOK(start) /\ start.agents = pool.agents /\ start.queues = pool.queues
    BY DEF PoolOK
  <2> HIDE DEF start
  <2> QED
    BY <1>0, <2>1 DEF Grown, PoolTyped
<1>3. WithTeam(pool, parent) = TeamMember(force, parent)
  BY DEF WithTeam
<1>4. Grown(pool, vision, now)
  BY <1>1, <1>2
<1>5. Grown(pool, motion, now)
  BY <1>1, <1>4
<1>6. Grown(pool, safety, now)
  BY <1>1, <1>5
<1>7. Grown(pool, force, now)
  BY <1>1, <1>6
<1> QED
  BY <1>1, <1>3, <1>7

-----------------------------------------------------------------------------
(* The steps keep what slots, queues, patrol and words may hold.           *)

LEMMA QueueFacts ==
  ASSUME SlotsInv
  PROVE  /\ Len(queues) \in Nat /\ QueuesOK(queues) /\ queues \in Seq(Seq(Nat))
         /\ DOMAIN queues = 1..Len(queues)
BY DEF SlotsInv, PoolTyped, Pool, QueuesOK

LEMMA SlotsStart == AgentStart => SlotsInv
<1> SUFFICES ASSUME AgentStart PROVE SlotsInv
  OBVIOUS
<1>1. agNow \in Nat /\ patrol.now <= agNow
  BY AgentsAssumption DEF AgentStart
<1>2. QueuesOK(queues) /\ Len(queues) = 0
  BY AgentsAssumption DEF AgentStart, QueuesOK
<1>3. \A a \in AgSlots : SlotOK(agents[a], Len(queues), agNow)
  <2>1. \A a \in AgSlots : agents[a] = Zeroed
    BY DEF AgentStart
  <2>2. SlotOK(Zeroed, Len(queues), agNow)
    <3>1. Len(queues) \in Nat
      BY <1>2
    <3> QED
      BY <1>1, <3>1, ZeroedSlotOK
  <2> QED
    BY <2>1, <2>2
<1>4. words = [a \in AgSlots |-> words[a]] /\ \A a \in AgSlots : words[a] = <<>>
  BY DEF AgentStart
<1>5. \A a \in AgSlots : WordsOK(agents[a], words[a])
  <2>1. <<>> \in Seq(STRING)
    OBVIOUS
  <2> QED
    BY <1>4, <2>1 DEF WordsOK
<1> QED
  BY <1>1, <1>2, <1>3, <1>4, <1>5, AgentStartHolds DEF SlotsInv, PoolTyped, Pool

(* A step that exchanges the pool for one that grew from it.               *)
LEMMA GrownHolds ==
  ASSUME SlotsInv, AgentInv', NEW q, Grown(Pool, q, agNow), SetPool(q),
         UNCHANGED <<agNow, patrol, starting, runs, words>>
  PROVE  SlotsInv' /\ Len(queues) <= Len(queues')
<1>1. agents' = q.agents /\ queues' = q.queues /\ Pool.agents = agents /\ Pool.queues = queues
  BY DEF SetPool, Pool
<1>2. PoolTyped(Pool, agNow)'
  BY <1>1 DEF Grown, PoolTyped, Pool
<1>3. \A a \in AgSlots : WordsOK(agents'[a], words'[a])
  <2> SUFFICES ASSUME NEW a \in AgSlots PROVE WordsOK(agents'[a], words[a])
    OBVIOUS
  <2>1. WordsOK(agents[a], words[a])
    BY DEF SlotsInv
  <2>2. agents[a].valid => agents'[a].valid /\ agents'[a].pref = agents[a].pref
    BY <1>1 DEF Grown
  <2> QED
    BY <2>1, <2>2 DEF WordsOK
<1> QED
  BY <1>1, <1>2, <1>3 DEF SlotsInv, Grown

(* A step that changes one slot, and empties or keeps queues.              *)
LEMMA OneSlotHolds ==
  ASSUME SlotsInv, AgentInv', NEW a \in AgSlots, NEW r, SlotOK(r, Len(queues), agNow),
         agents' = [agents EXCEPT ![a] = r], QueuesOK(queues'), Len(queues') = Len(queues),
         agNow' = agNow, patrol'.now <= agNow,
         NEW said, WordsOK(r, said), words' = [words EXCEPT ![a] = said]
  PROVE  SlotsInv' /\ Len(queues) <= Len(queues')
<1>1. agents = [b \in AgSlots |-> agents[b]] /\ words = [b \in AgSlots |-> words[b]]
  BY DEF SlotsInv, AgentInv, PoolOK, Pool
<1>2. \A b \in AgSlots : /\ agents'[b] = IF b = a THEN r ELSE agents[b]
                         /\ words'[b] = IF b = a THEN said ELSE words[b]
  BY <1>1
<1>3. words' = [b \in AgSlots |-> words'[b]]
  BY <1>1
<1>4. \A b \in AgSlots : SlotOK(agents[b], Len(queues), agNow) /\ WordsOK(agents[b], words[b])
  BY DEF SlotsInv, PoolTyped, Pool
<1>5. \A b \in AgSlots : SlotOK(agents'[b], Len(queues'), agNow') /\ WordsOK(agents'[b], words'[b])
  BY <1>2, <1>4
<1>6. PoolTyped(Pool, agNow)'
  BY <1>5 DEF PoolTyped, Pool
<1>7. Len(queues) \in Nat
  BY DEF SlotsInv, PoolTyped, Pool, QueuesOK
<1> QED
  BY <1>3, <1>5, <1>6, <1>7 DEF SlotsInv

(* What is known of the slot a step works on.                              *)
LEMMA SlotFacts ==
  ASSUME SlotsInv, NEW a \in AgSlots
  PROVE  /\ AgentOK(agents[a]) /\ SlotOK(agents[a], Len(queues), agNow)
         /\ WordsOK(agents[a], words[a])
         /\ agNow \in Nat /\ Len(queues) \in Nat /\ patrol.now <= agNow /\ patrol.now \in Nat
         /\ QueuesOK(queues)
         /\ words = [words EXCEPT ![a] = words[a]]
<1>1. patrol.now <= agNow /\ patrol.now \in Nat /\ agNow \in Nat
  BY DEF SlotsInv, AgentInv, PatrolOK
<1> QED
  BY <1>1 DEF SlotsInv, PoolTyped, Pool, QueuesOK, AgentInv, PoolOK

LEMMA ChangeHolds ==
  ASSUME SlotsInv, AgentInv', NEW a \in AgSlots, NEW r, SlotOK(r, Len(queues), agNow),
         r.valid = agents[a].valid, r.pref = agents[a].pref,
         agents' = [agents EXCEPT ![a] = r], UNCHANGED <<queues, agNow, words>>,
         patrol'.now <= agNow
  PROVE  SlotsInv' /\ Len(queues) <= Len(queues')
<1>1. WordsOK(r, words[a])
  BY SlotFacts DEF WordsOK
<1>2. QueuesOK(queues') /\ words' = [words EXCEPT ![a] = words[a]]
  BY SlotFacts
<1>3. Len(queues') = Len(queues) /\ agNow' = agNow
  OBVIOUS
<1> QED
  BY <1>1, <1>2, <1>3, OneSlotHolds

LEMMA EmptiedOK ==
  ASSUME NEW qs, QueuesOK(qs), NEW emptied,
         emptied = [q \in DOMAIN qs |-> emptied[q]],
         \A q \in DOMAIN qs : emptied[q] = <<>> \/ emptied[q] = qs[q]
  PROVE  QueuesOK(emptied) /\ Len(emptied) = Len(qs)
<1>1. qs \in Seq(Seq(Nat)) /\ Len(qs) \in Nat /\ DOMAIN qs = 1..Len(qs)
  BY DEF QueuesOK
<1>2. \A q \in 1..Len(qs) : qs[q] \in Seq(Nat) /\ emptied[q] \in Seq(Nat)
  <2>1. <<>> \in Seq(Nat) /\ \A q \in 1..Len(qs) : qs[q] \in Seq(Nat)
    BY <1>1
  <2> QED
    BY <1>1, <2>1
<1>3. emptied \in [1..Len(qs) -> Seq(Nat)]
  BY <1>1, <1>2
<1>4. emptied \in Seq(Seq(Nat)) /\ Len(emptied) = Len(qs) /\ DOMAIN emptied = DOMAIN qs
  BY <1>1, <1>3
<1>5. Len(<<>>) <= AgDepth
  BY AgentsAssumption
<1>6. \A q \in DOMAIN emptied : Len(emptied[q]) <= AgDepth
  BY <1>4, <1>5 DEF QueuesOK
<1> QED
  BY <1>4, <1>6 DEF QueuesOK

LEMMA SlotsTeam ==
  ASSUME SlotsInv, AgentInv', TeamNext
  PROVE  SlotsInv' /\ Len(queues) <= Len(queues')
<1>1. PoolOK(Pool) /\ PoolTyped(Pool, agNow) /\ agNow \in Nat
  BY DEF SlotsInv, AgentInv
<1>2. CASE CreateAutoAgent
  BY <1>1, <1>2, SlotAllocGrows, GrownHolds DEF CreateAutoAgent
<1>3. ASSUME NEW a \in AgSlots \cup {NoAgent}, CreateSubAgent(a)
      PROVE  SlotsInv' /\ Len(queues) <= Len(queues')
  BY <1>1, <1>3, SubAgentGrows, GrownHolds DEF CreateSubAgent
<1>4. ASSUME NEW a \in AgSlots, CreateTeam(a)
      PROVE  SlotsInv' /\ Len(queues) <= Len(queues')
  BY <1>1, <1>4, TeamGrows, GrownHolds DEF CreateTeam
<1>5. ASSUME NEW a \in AgSlots, NEW b \in AgSlots, RegisterSub(a, b)
      PROVE  SlotsInv' /\ Len(queues) <= Len(queues')
  BY <1>1, <1>5, RegisteredGrows, GrownHolds DEF RegisterSub
<1>6. ASSUME NEW a \in AgSlots, DeleteAgent(a)
      PROVE  SlotsInv' /\ Len(queues) <= Len(queues')
  <2>1. QueuesOK(queues') /\ Len(queues') = Len(queues)
    <3>1. queues' = [queues EXCEPT ![agents[a].inbox] = <<>>] /\ QueuesOK(queues)
      BY <1>6, SlotFacts DEF DeleteAgent
    <3>2. /\ queues' = [q \in DOMAIN queues |-> queues'[q]]
          /\ \A q \in DOMAIN queues : queues'[q] = <<>> \/ queues'[q] = queues[q]
      BY <3>1
    <3> QED
      BY <3>1, <3>2, EmptiedOK
  <2>2. SlotOK(Zeroed, Len(queues), agNow)
    BY SlotFacts, ZeroedSlotOK
  <2>3. WordsOK(Zeroed, <<>>)
    <3>1. <<>> \in Seq(STRING)
      OBVIOUS
    <3> QED
      BY <3>1 DEF WordsOK
  <2>4. /\ agents' = [agents EXCEPT ![a] = Zeroed] /\ words' = [words EXCEPT ![a] = <<>>]
        /\ agNow' = agNow /\ patrol'.now <= agNow
    BY <1>6, SlotFacts DEF DeleteAgent
  <2> QED
    BY <2>1, <2>2, <2>3, <2>4, OneSlotHolds
<1>7. CASE ResetAllAgents
  <2>1. QueuesOK(queues') /\ Len(queues') = Len(queues) /\ Len(queues) \in Nat
    <3>1. QueuesOK(queues) /\ Len(queues) \in Nat
      BY <1>1 DEF PoolTyped, Pool, QueuesOK
    <3>2. /\ queues' = [q \in DOMAIN queues |-> queues'[q]]
          /\ \A q \in DOMAIN queues : queues'[q] = <<>> \/ queues'[q] = queues[q]
      BY <1>7 DEF ResetAllAgents
    <3> QED
      BY <3>1, <3>2, EmptiedOK
  <2>2. \A a \in AgSlots : agents'[a] = Zeroed /\ words'[a] = <<>>
    BY <1>7 DEF ResetAllAgents
  <2>3. words' = [a \in AgSlots |-> words'[a]]
    BY <1>7 DEF ResetAllAgents
  <2>4. SlotOK(Zeroed, Len(queues), agNow)
    BY <1>1, <2>1, ZeroedSlotOK
  <2>5. WordsOK(Zeroed, <<>>)
    <3>1. <<>> \in Seq(STRING)
      OBVIOUS
    <3> QED
      BY <3>1 DEF WordsOK
  <2>6. UNCHANGED <<agNow, patrol>>
    BY <1>7 DEF ResetAllAgents
  <2>7. PoolTyped(Pool, agNow)'
    BY <2>1, <2>2, <2>4, <2>6 DEF PoolTyped, Pool
  <2>8. \A a \in AgSlots : WordsOK(agents'[a], words'[a])
    BY <2>2, <2>5
  <2> QED
    BY <2>1, <2>3, <2>6, <2>7, <2>8 DEF SlotsInv
<1> QED
  BY <1>2, <1>3, <1>4, <1>5, <1>6, <1>7 DEF TeamNext, CreateOrDelete

LEMMA SetPreferenceSlots ==
  ASSUME SlotsInv, AgentInv', NEW a \in AgSlots, NEW p, PrefOK(p), NEW said,
         said \in Seq(STRING), said # <<>> => p = MeaningOf(said), SetPreference(a, p, said)
  PROVE  SlotsInv' /\ Len(queues) <= Len(queues')
<1> DEFINE r == [agents[a] EXCEPT !.pref = p]
<1>1. AgentOK(agents[a]) /\ SlotOK(agents[a], Len(queues), agNow)
  BY SlotFacts
<1>2. /\ r.valid = agents[a].valid /\ r.state = agents[a].state /\ r.inbox = agents[a].inbox
      /\ r.fed = agents[a].fed /\ r.pref = p
  BY <1>1, PrefFields
<1>3. agents' = [agents EXCEPT ![a] = r]
  BY DEF SetPreference
<1>4. agents[a].valid
  BY DEF SetPreference, Resolves
<1>5. QueuesOK(queues') /\ Len(queues') = Len(queues) /\ agNow' = agNow /\ patrol'.now <= agNow
      /\ words' = [words EXCEPT ![a] = said]
  BY SlotFacts DEF SetPreference
<1> HIDE DEF r
<1>6. SlotOK(r, Len(queues), agNow)
  BY <1>1, <1>2 DEF SlotOK
<1>7. WordsOK(r, said)
  BY <1>2, <1>4 DEF WordsOK
<1> QED
  BY <1>3, <1>5, <1>6, <1>7, OneSlotHolds

LEMMA SlotsPreference ==
  ASSUME SlotsInv, AgentInv', PreferenceNext
  PROVE  SlotsInv' /\ Len(queues) <= Len(queues')
<1>0. <<>> \in Seq(STRING)
  OBVIOUS
<1>1. ASSUME NEW a \in AgSlots, NEW sent \in AgWords, ConfigCommand(a, sent)
      PROVE  SlotsInv' /\ Len(queues) <= Len(queues')
  <2> DEFINE said == ParsedWords(sent)
  <2>1. said \in Seq(STRING)
    BY ParsedWordsFit, AgentsAssumption
  <2>2. PrefOK(ByKeywords(said)) /\ ByKeywords(said) = MeaningOf(said)
    <3> HIDE DEF said
    <3> QED
      BY <2>1, KeywordsOK, LastSpeaks
  <2>3. SetPreference(a, ByKeywords(said), said)
    BY <1>1 DEF ConfigCommand
  <2> HIDE DEF said
  <2> QED
    BY <2>1, <2>2, <2>3, SetPreferenceSlots
<1>2. ASSUME NEW a \in AgSlots, NEW mask \in SUBSET MaskBits, SetAgentPreference(a, mask)
      PROVE  SlotsInv' /\ Len(queues) <= Len(queues')
  <2>1. PrefOK(ByMask(agents[a].pref, mask))
    BY SlotFacts, MaskOK DEF SlotOK
  <2> QED
    BY <1>0, <1>2, <2>1, SetPreferenceSlots DEF SetAgentPreference
<1>3. ASSUME NEW a \in AgSlots, NEW level, SetAgentSafetyLevel(a, level)
      PROVE  SlotsInv' /\ Len(queues) <= Len(queues')
  <2>1. PrefOK(BySafetyLevel(agents[a].pref, level))
    BY SlotFacts, LevelOK DEF SlotOK
  <2> QED
    BY <1>0, <1>3, <2>1, SetPreferenceSlots DEF SetAgentSafetyLevel
<1> QED
  BY <1>1, <1>2, <1>3 DEF PreferenceNext

LEMMA SlotsWatch ==
  ASSUME SlotsInv, AgentInv', WatchNext
  PROVE  SlotsInv' /\ Len(queues) <= Len(queues')
<1>1. \A a \in AgSlots : agents = [agents EXCEPT ![a] = agents[a]]
  BY DEF SlotsInv, AgentInv, PoolOK, Pool
<1>2. ASSUME NEW a \in AgSlots, NEW period \in AgPeriods \cup {0}, WatchdogStart(a, period)
      PROVE  SlotsInv' /\ Len(queues) <= Len(queues')
  <2> DEFINE r == [agents[a] EXCEPT !.period = period]
  <2>1. SlotOK(r, Len(queues), agNow) /\ r.valid = agents[a].valid /\ r.pref = agents[a].pref
    BY SlotFacts, PeriodSlotOK
  <2>2. agents' = [agents EXCEPT ![a] = r]
    BY <1>2 DEF WatchdogStart
  <2>3. UNCHANGED <<queues, agNow, words>> /\ patrol'.now <= agNow
    BY <1>2, SlotFacts DEF WatchdogStart
  <2> HIDE DEF r
  <2> QED
    BY <2>1, <2>2, <2>3, ChangeHolds
<1>3. ASSUME NEW a \in AgSlots, NEW time \in Nat, time <= agNow,
             agents' = [agents EXCEPT ![a].fed = time],
             UNCHANGED <<queues, agNow, words>>, patrol'.now <= agNow
      PROVE  SlotsInv' /\ Len(queues) <= Len(queues')
  <2> DEFINE r == [agents[a] EXCEPT !.fed = time]
  <2>2. SlotOK(r, Len(queues), agNow) /\ r.valid = agents[a].valid /\ r.pref = agents[a].pref
    BY <1>3, SlotFacts, FedSlotOK
  <2>3. agents' = [agents EXCEPT ![a] = r]
    BY <1>3
  <2> HIDE DEF r
  <2> QED
    BY <1>3, <2>2, <2>3, ChangeHolds
<1>11. ASSUME NEW a \in AgSlots, WatchdogFeed(a) \/ WatchdogStartFeeds(a)
       PROVE  SlotsInv' /\ Len(queues) <= Len(queues')
  <2>1. agNow \in Nat /\ agNow <= agNow /\ patrol.now <= agNow
    BY SlotFacts
  <2>2. /\ agents' = [agents EXCEPT ![a].fed = agNow]
        /\ UNCHANGED <<queues, agNow, words, patrol>>
    BY <1>11 DEF WatchdogFeed, WatchdogStartFeeds, Feed
  <2> QED
    BY <1>3, <2>1, <2>2
<1>4. ASSUME NEW t \in AgRunners, NEW a \in AgSlots, StepBegin(t, a)
      PROVE  SlotsInv' /\ Len(queues) <= Len(queues')
  <2> DEFINE r == [agents[a] EXCEPT !.state = "EXECUTING"]
  <2>1. SlotOK(r, Len(queues), agNow) /\ r.valid = agents[a].valid /\ r.pref = agents[a].pref
    BY SlotFacts, StateSlotOK
  <2>2. agents' = [agents EXCEPT ![a] = r]
    BY <1>4 DEF StepBegin
  <2>3. UNCHANGED <<queues, agNow, words>> /\ patrol'.now <= agNow
    BY <1>4, SlotFacts DEF StepBegin
  <2> HIDE DEF r
  <2> QED
    BY <2>1, <2>2, <2>3, ChangeHolds
<1>5. ASSUME NEW t \in AgRunners, StepEnd(t)
      PROVE  SlotsInv' /\ Len(queues) <= Len(queues')
  <2> DEFINE a == runs[t]
             time == IF agents[a].valid THEN agNow ELSE agents[a].fed
             r == [agents[a] EXCEPT !.state = "READY", !.fed = time]
  <2>1. a \in AgSlots
    BY <1>5 DEF StepEnd, SlotsInv, AgentInv
  <2>2. agents' = [agents EXCEPT ![a] = r]
    BY <1>5, <2>1 DEF StepEnd, SlotsInv, AgentInv, PoolOK, Pool
  <2>3. time <= agNow
    BY <2>1, SlotFacts DEF SlotOK
  <2>4. UNCHANGED <<queues, agNow, words>> /\ patrol'.now <= agNow
    BY <1>5, <2>1, SlotFacts DEF StepEnd
  <2>5. SlotOK(r, Len(queues), agNow) /\ r.valid = agents[a].valid /\ r.pref = agents[a].pref
    <3> DEFINE o == agents[a]
    <3>1. AgentOK(o) /\ SlotOK(o, Len(queues), agNow)
      BY <2>1, SlotFacts
    <3> HIDE DEF a, time, o
    <3>2. /\ SlotOK([o EXCEPT !.state = "READY", !.fed = time], Len(queues), agNow)
          /\ [o EXCEPT !.state = "READY", !.fed = time].valid = o.valid
          /\ [o EXCEPT !.state = "READY", !.fed = time].pref = o.pref
      BY <2>3, <3>1, RestartedSlotOK
    <3> QED
      BY <3>2 DEF o
  <2> HIDE DEF r, a
  <2> QED
    BY <2>1, <2>2, <2>4, <2>5, ChangeHolds
<1>6. ASSUME UNCHANGED <<agents, queues, words>>, agNow' \in Nat, agNow <= agNow',
             patrol'.now <= agNow'
      PROVE  SlotsInv' /\ Len(queues) <= Len(queues')
  <2>1. QueuesOK(queues) /\ Len(queues) \in Nat /\ agNow \in Nat
    BY DEF SlotsInv, PoolTyped, Pool, QueuesOK, AgentInv
  <2>2. \A b \in AgSlots : SlotOK(agents[b], Len(queues), agNow')
    <3> SUFFICES ASSUME NEW b \in AgSlots PROVE SlotOK(agents[b], Len(queues), agNow')
      OBVIOUS
    <3>1. SlotOK(agents[b], Len(queues), agNow) /\ agents[b].fed \in Nat
      BY SlotFacts DEF AgentOK
    <3>2. agents[b].fed <= agNow'
      BY <1>6, <2>1, <3>1 DEF SlotOK
    <3> QED
      BY <3>1, <3>2 DEF SlotOK
  <2>3. PoolTyped(Pool, agNow)'
    BY <1>6, <2>1, <2>2 DEF PoolTyped, Pool
  <2> QED
    BY <1>6, <2>1, <2>3 DEF SlotsInv
<1>7. CASE PatrolBegin
  <2>1. UNCHANGED <<agents, queues, words, agNow>> /\ patrol'.now = agNow /\ agNow \in Nat
    BY <1>7 DEF PatrolBegin, SlotsInv, AgentInv
  <2>2. agNow <= agNow' /\ patrol'.now <= agNow' /\ agNow' \in Nat
    BY <2>1
  <2> QED
    BY <1>6, <2>1, <2>2
<1>8. CASE PatrolTest \/ PatrolReset \/ PatrolFeed
  <2>1. /\ patrol.at \in AgSlots /\ UNCHANGED <<queues, agNow, words>>
        /\ patrol' = NextSlot \/ \E stage : patrol' = [patrol EXCEPT !.stage = stage]
    BY <1>8 DEF PatrolTest, PatrolReset, PatrolFeed, Patrolling
  <2>2. /\ patrol'.now = patrol.now /\ patrol'.now <= agNow
        /\ patrol.now \in Nat /\ agNow \in Nat
    BY <2>1 DEF NextSlot, SlotsInv, AgentInv, PatrolOK
  <2>3. CASE PatrolTest
    <3>1. UNCHANGED agents /\ agNow' \in Nat /\ agNow <= agNow' /\ patrol'.now <= agNow'
      BY <2>1, <2>2, <2>3 DEF PatrolTest
    <3> QED
      BY <1>6, <2>1, <3>1
  <2>4. CASE PatrolReset
    <3> DEFINE a == patrol.at
               ready == "READY"
               r == [agents[a] EXCEPT !.state = ready]
    <3>1. SlotOK(r, Len(queues), agNow) /\ r.valid = agents[a].valid /\ r.pref = agents[a].pref
      <4>1. ready \in {"IDLE", "READY", "EXECUTING"}
        OBVIOUS
      <4> HIDE DEF ready
      <4> QED
        BY <2>1, <4>1, SlotFacts, StateSlotOK
    <3>2. agents' = [agents EXCEPT ![a] = r]
      BY <2>4 DEF PatrolReset
    <3> HIDE DEF r
    <3> QED
      BY <2>1, <2>2, <3>1, <3>2, ChangeHolds
  <2>5. CASE PatrolFeed
    BY <1>3, <2>1, <2>2, <2>5 DEF PatrolFeed
  <2> QED
    BY <1>8, <2>3, <2>4, <2>5
<1>9. CASE AgentTick
  <2>1. UNCHANGED <<agents, queues, words, patrol>> /\ agNow' = agNow + 1
    BY <1>9 DEF AgentTick
  <2>2. agNow \in Nat /\ patrol.now <= agNow /\ patrol.now \in Nat
    BY DEF SlotsInv, AgentInv, PatrolOK
  <2>3. agNow <= agNow' /\ patrol'.now <= agNow' /\ agNow' \in Nat
    BY <2>1, <2>2
  <2> QED
    BY <1>6, <2>1, <2>3
<1>10. CASE CreateOrDelete
  BY <1>10, SlotsTeam DEF TeamNext
<1> QED
  BY <1>2, <1>4, <1>5, <1>7, <1>8, <1>9, <1>10, <1>11 DEF WatchNext, PatrolNext

LEMMA SlotsStep ==
  ASSUME SlotsInv, [AgentNext]_agVars
  PROVE  SlotsInv' /\ Len(queues) <= Len(queues')
<1>1. AgentInv'
  BY AgentStepHolds DEF SlotsInv
<1>2. CASE UNCHANGED agVars
  <2>1. Len(queues) \in Nat
    BY DEF SlotsInv, PoolTyped, Pool, QueuesOK
  <2> QED
    BY <1>1, <1>2, <2>1 DEF agVars, SlotsInv, PoolTyped, Pool
<1> QED
  BY <1>1, <1>2, SlotsTeam, SlotsPreference, SlotsWatch DEF AgentNext

(* What the bus does to agents: messages come to queues and leave them.    *)
LEMMA TrafficHolds ==
  ASSUME SlotsInv, UNCHANGED <<agents, agNow, patrol, starting, runs, words>>,
         QueuesOK(queues'), Len(queues') = Len(queues)
  PROVE  SlotsInv'
<1>1. AgentInv'
  BY DEF SlotsInv, AgentInv, PoolOK, Pool, ExecutingHasRunner, PatrolOK, SlotsNoticed, Noticed
<1>2. PoolTyped(Pool, agNow)'
  BY DEF SlotsInv, PoolTyped, Pool
<1> QED
  BY <1>1, <1>2 DEF SlotsInv

LEMMA SlotsAlways == AgentSpec => []SlotsInv
<1>1. AgentStart => SlotsInv
  BY SlotsStart
<1>2. SlotsInv /\ [AgentNext]_agVars => SlotsInv'
  BY SlotsStep
<1> QED
  BY <1>1, <1>2, PTL DEF AgentSpec

LEMMA SlotsTyped == SlotsInv => AgentTypes
<1> SUFFICES ASSUME SlotsInv PROVE AgentTypes
  OBVIOUS
<1>1. /\ \A a \in AgSlots : SlotOK(agents[a], Len(queues), agNow)
      /\ QueuesOK(queues) /\ Len(queues) \in Nat
  BY QueueFacts DEF SlotsInv, PoolTyped, Pool
<1>2. patrol.at \in 0..(AgMax + 1) /\ patrol.now <= agNow
      /\ patrol.stage \in PatrolStages /\ starting \subseteq AgSlots
      /\ runs \in [AgRunners -> AgSlots \cup {NoAgent}]
  BY DEF SlotsInv, AgentInv, PatrolOK
<1>3. ASSUME NEW a \in AgSlots
      PROVE  /\ agents[a].state \in {"IDLE", "READY", "EXECUTING"}
             /\ agents[a].valid => agents[a].inbox \in 1..Len(queues)
             /\ agents[a].pref.routing \in RoutingModes
             /\ agents[a].fed <= agNow
  BY <1>1 DEF SlotOK, PrefOK
<1> QED
  BY <1>1, <1>2, <1>3 DEF AgentTypes, QueuesOK

(* Slots, queues, patrol and runs hold what the code can hold, for every   *)
(* number of slots, queues, words and clock widths (agent.c).              *)
THEOREM AgentsTyped == AgentSpec => []AgentTypes
BY SlotsAlways, SlotsTyped, PTL

(* Whatever keyword lists agents are given, in whatever order with other   *)
(* ways to set a preference, resets and deletions, the preference of an    *)
(* agent that was configured by keywords is what the last keyword says of  *)
(* each field (comm_config_parse, iConfigureAutoAgentByKeywords).          *)
THEOREM LastWordsMean == AgentSpec => []LastKeywordWins
<1>1. SlotsInv => LastKeywordWins
  BY DEF SlotsInv, WordsOK, LastKeywordWins
<1> QED
  BY <1>1, SlotsAlways, PTL
=============================================================================
